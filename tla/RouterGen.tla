----------------------------- MODULE RouterGen -----------------------------
(***************************************************************************)
(* The route generator: runs of it over the same sources, next to each     *)
(* other or after each other, a developer who edits, and a user who kills. *)
(*                                                                         *)
(* A run walks the search directories and parses what it finds, collects   *)
(* the annotated functions, renders the router file, and puts it in place  *)
(* by a temporary file and a rename.  The temporary file is a hidden .go   *)
(* file in the output directory, and the walk skips hidden directories     *)
(* only: a run parses the temporary files of the others.  A directory that *)
(* cannot be read is skipped without a word, and one that go list cannot   *)
(* name goes without its import path.                                      *)
(***************************************************************************)
EXTENDS Integers, Sequences, FiniteSets, SequencesExt

CONSTANTS
    Runs,     \* runs of the generator; also the names of their temporary files
    Files,    \* source files, by the paths they are found under; a number is
              \* the place in path order
    Texts,    \* Texts[f]: what f may contain, records
              \*   parses : BOOLEAN; FALSE also where it may not be read
              \*   funcs  : its functions with an @router, in their order:
              \*            fn; words, those of @limit; and ok, FALSE where the
              \*            generator panics (on the @router, on an empty comment
              \*            line before @limit, on a receiver it does not know)
    Dirs,     \* the search directories, in their order:
              \*   package  : the package path of each file below it
              \*   relative : the same where go list has failed
              \*   output   : the output directory is below it
              \*   below    : for each directory in it, the files below that one,
              \*              temporary ones included
    Unnamed   \* package paths that do not make a Go name (firstCharUpper)

ASSUME FilesAssumption ==
    /\ Files \subseteq Nat /\ Runs \cap Files = {} /\ IsFiniteSet(Runs)
    /\ \A f \in Files : \A t \in Texts[f] : t.funcs \in Seq(Range(t.funcs))
    /\ Dirs \in Seq(Range(Dirs))
    /\ \A d \in Range(Dirs) : DOMAIN d.package \subseteq Files /\ IsFiniteSet(DOMAIN d.package)

VARIABLES
    tree,     \* the sources: tree[f] \in Texts[f]
    temp,     \* temp[r]: the temporary file of r: "none", "torn" or "full"
    out,      \* the router file: whose text it has, and whether all of it
    pc, dir, packageDir, todo, found, routes, text,  \* of each run; packageDir: the
              \* package paths in the directory it walks
    readable, \* ghost: the files in the directories that the run could read
    calm,     \* ghost: no source was edited since the run began
    alone     \* ghost: no other run was active, or had left a file, meanwhile

runVars == <<dir, packageDir, todo, found, routes, text>>
Ghosts  == <<readable, calm, alone>>
vars    == <<tree, temp, out, pc, runVars, Ghosts>>

NoRun   == "no run"
Walked  == UNION {DOMAIN Dirs[d].package : d \in DOMAIN Dirs}
Active  == {"walk", "range", "render", "create", "write", "rename", "remove"}
Over    == {"end", "dead"}

-----------------------------------------------------------------------------
(* The functions of the generator.                                         *)

Word(words, i) == IF i \in DOMAIN words THEN words[i] ELSE ""

\* @limit num cap name
FindLimit(words) ==
    [num |-> Word(words, 1), name |-> Word(words, 3),
     cap |-> IF Word(words, 2) = "" THEN Word(words, 1) ELSE Word(words, 2)]

\* A file that is found again is not taken again, were it edited meanwhile.
CollectAstFile(fs, f, package) ==
    IF \E x \in fs : x.path = f /\ x.package = package THEN fs
    ELSE fs \cup {[path |-> f, package |-> package, funcs |-> tree[f].funcs]}

ParseRouterAPIInfo(file) ==
    [i \in DOMAIN file.funcs |->
        [fn |-> file.funcs[i].fn, package |-> file.package,
         limit |-> FindLimit(file.funcs[i].words)]]

\* sort.Slice: the elements of S in the order of their path.
InOrder(S, path) ==
    CHOOSE s \in [1 .. Cardinality(S) -> S] :
        \A i, j \in DOMAIN s : i < j => path[s[i]] < path[s[j]]

RoutesOf(files) == FlattenSeq([i \in DOMAIN files |-> ParseRouterAPIInfo(files[i])])

\* Mutant of RangeFiles: sorted the other way round.
RangeFilesReversed(fs) ==
    {RoutesOf(s) : s \in {q \in [1 .. Cardinality(fs) -> fs] :
        IsInjective(q) /\ \A i, j \in DOMAIN q : i < j => q[i].path >= q[j].path}}

\* What the order of the map and sort.Slice may come to: in path order, one path
\* under two packages either way round.
RangeFiles(fs) ==
    {RoutesOf(s) : s \in {q \in [1 .. Cardinality(fs) -> fs] :
        IsInjective(q) /\ \A i, j \in DOMAIN q : i < j => q[i].path <= q[j].path}}

\* The first route that names a limit sets it; what the loop assigns to its
\* copy later is lost.
Limits(rs) ==
    [n \in {rs[i].limit.name : i \in DOMAIN rs} \ {""} |->
        LET named == {i \in DOMAIN rs : rs[i].limit.name = n}
        IN  rs[CHOOSE i \in named : \A j \in named : i <= j].limit]

\* A route uses the limiter with the name, or one of its own, or none.
Limiter(limit) == IF limit.name # "" THEN [limit EXCEPT !.num = "", !.cap = ""] ELSE limit

Rendered(rs) ==
    [imports  |-> {rs[i].package : i \in DOMAIN rs},
     limiters |-> Limits(rs),
     routes   |-> [i \in DOMAIN rs |-> [rs[i] EXCEPT !.limit = Limiter(rs[i].limit)]]]

Empty == Rendered(<<>>)

-----------------------------------------------------------------------------

Init ==
    /\ tree \in [Files -> UNION {Texts[f] : f \in Files}]
    /\ \A f \in Files : tree[f] \in Texts[f]
    /\ temp = [r \in Runs |-> "none"]
    /\ out = [run |-> NoRun, whole |-> TRUE]
    /\ pc = [r \in Runs |-> "idle"]
    /\ dir = [r \in Runs |-> 0] /\ packageDir = [r \in Runs |-> <<>>]
    /\ todo = [r \in Runs |-> <<>>]
    /\ found = [r \in Runs |-> {}] /\ routes = [r \in Runs |-> <<>>]
    /\ text = [r \in Runs |-> Empty]
    /\ readable = [r \in Runs |-> {}]
    /\ calm = [r \in Runs |-> TRUE] /\ alone = [r \in Runs |-> TRUE]

Goto(r, l) == pc' = [pc EXCEPT ![r] = l]
Disk       == <<tree, temp, out>>

\* MakeRouter; a directory that is missing ends it.
MakeRouter(r) ==
    /\ pc[r] = "idle"
    /\ Goto(r, "walk") \/ Goto(r, "end")
    /\ alone' = [s \in Runs |->
                    IF s = r THEN \A q \in Runs : pc[q] \notin Active /\ temp[q] = "none"
                    ELSE alone[s] /\ pc[s] \notin Active]
    /\ UNCHANGED <<Disk, runVars, readable, calm>>

\* The names in the directories that can be read: hidden files first.
Listing(seen) ==
    SetToSeq({r \in Runs \cap seen : temp[r] # "none"})
       \o InOrder(Files \cap seen, [f \in Files \cap seen |-> f])

Vanished(r) == Goto(r, "dead") /\ UNCHANGED <<found, todo>>

\* A directory that cannot be read is skipped with all below it, since the
\* function that Walk calls ignores the error; when the search directory itself
\* is gone, Skip dereferences a nil FileInfo.
WalkDir(r) ==
    /\ pc[r] = "walk" /\ todo[r] = <<>> /\ dir[r] < Len(Dirs)
    /\ LET d == Dirs[dir[r] + 1] IN
         \/ \E unread \in SUBSET d.below :
              LET seen == (DOMAIN d.package \cup (IF d.output THEN Runs ELSE {})) \ UNION unread IN
              /\ todo' = [todo EXCEPT ![r] = Listing(seen)]
              /\ readable' = [readable EXCEPT ![r] = @ \cup (Files \cap seen)]
              /\ dir' = [dir EXCEPT ![r] = @ + 1]
              /\ \E p \in {d.package, d.relative} : packageDir' = [packageDir EXCEPT ![r] = p]
              /\ UNCHANGED <<pc, found>>
         \/ Vanished(r) /\ UNCHANGED <<dir, packageDir, readable>>
    /\ UNCHANGED <<Disk, routes, text, calm, alone>>

WalkEnd(r) ==
    /\ pc[r] = "walk" /\ todo[r] = <<>> /\ dir[r] = Len(Dirs)
    /\ Goto(r, "range") /\ packageDir' = [packageDir EXCEPT ![r] = <<>>]
    /\ UNCHANGED <<Disk, dir, todo, found, routes, text, Ghosts>>

\* The walk goes on to the next name.
Parsed(r, fs) ==
    /\ found' = [found EXCEPT ![r] = fs]
    /\ todo' = [todo EXCEPT ![r] = Tail(@)]
    /\ UNCHANGED pc

\* Mutant of ParseError: the phase that follows is not skipped.
ParseErrorGoesOn(r) == Goto(r, "range") /\ UNCHANGED <<found, todo>>

\* The walk ends; MakeRouter drops the error and goes on without any route.
ParseError(r) == Goto(r, "render") /\ UNCHANGED <<found, todo>>

\* Each file, in path order.  One that vanished since its name was read, or that
\* the directory does not let the run look at, is a parse error, or a nil
\* FileInfo that Skip dereferences.
ParseFile(r) ==
    /\ pc[r] = "walk" /\ todo[r] # <<>>
    /\ LET f == Head(todo[r]) IN
         \/ /\ f \in Files
            /\ IF tree[f].parses
               THEN Parsed(r, CollectAstFile(found[r], f, packageDir[r][f]))
               ELSE ParseError(r)
         \/ /\ f \in Runs
            /\ \/ temp[f] = "full" /\ Parsed(r, found[r])
               \/ temp[f] # "full" /\ ParseError(r)
         \/ (f \in Runs => temp[f] = "none") /\ Vanished(r)
    /\ UNCHANGED <<Disk, dir, packageDir, routes, text, Ghosts>>

\* The second phase: a panic, or all routes.
ParseRouters(r) ==
    /\ pc[r] = "range"
    /\ IF \E x \in found[r] : \E i \in DOMAIN x.funcs : ~x.funcs[i].ok
       THEN Goto(r, "dead") /\ UNCHANGED routes
       ELSE /\ \E rs \in RangeFiles(found[r]) : routes' = [routes EXCEPT ![r] = rs]
            /\ Goto(r, "render")
    /\ UNCHANGED <<Disk, dir, packageDir, todo, found, text, Ghosts>>

\* The third phase; format.Source refuses an import that has no Go name.
Render(r) ==
    /\ pc[r] = "render"
    /\ text' = [text EXCEPT ![r] = Rendered(routes[r])]
    /\ Goto(r, IF text'[r].imports \cap Unnamed = {} THEN "create" ELSE "end")
    /\ UNCHANGED <<Disk, dir, packageDir, todo, found, routes, Ghosts>>

-----------------------------------------------------------------------------
(* writeGeneratedFile: each step may fail.                                 *)

CreateTemp(r) ==
    /\ pc[r] = "create"
    /\ \/ temp' = [temp EXCEPT ![r] = "torn"] /\ Goto(r, "write")
       \/ Goto(r, "end") /\ UNCHANGED temp
    /\ UNCHANGED <<tree, out, runVars, Ghosts>>

\* Mutant of Write: a failure is not noticed.
WriteUnchecked(r) ==
    /\ pc[r] = "write"
    /\ \E t \in {"torn", "full"} : temp' = [temp EXCEPT ![r] = t]
    /\ Goto(r, "rename")
    /\ UNCHANGED <<tree, out, runVars, Ghosts>>

\* Mutant of Write: the file is left behind when it cannot be written.
WriteLeaves(r) ==
    /\ pc[r] = "write"
    /\ \/ temp' = [temp EXCEPT ![r] = "full"] /\ Goto(r, "rename")
       \/ Goto(r, "end") /\ UNCHANGED temp
    /\ UNCHANGED <<tree, out, runVars, Ghosts>>

\* Write and Close.
Write(r) ==
    /\ pc[r] = "write"
    /\ \/ temp' = [temp EXCEPT ![r] = "full"] /\ Goto(r, "rename")
       \/ \E t \in {"torn", "full"} : temp' = [temp EXCEPT ![r] = t] /\ Goto(r, "remove")
    /\ UNCHANGED <<tree, out, runVars, Ghosts>>

Rename(r) ==
    /\ pc[r] = "rename"
    /\ \/ /\ out' = [run |-> r, whole |-> temp[r] = "full"]
          /\ temp' = [temp EXCEPT ![r] = "none"] /\ Goto(r, "end")
       \/ Goto(r, "remove") /\ UNCHANGED <<out, temp>>
    /\ UNCHANGED <<tree, runVars, Ghosts>>

\* Mutant of RemoveTemp: after a failed rename the file stays.
RemoveTempForgotten(r) ==
    /\ pc[r] = "remove" /\ Goto(r, "end")
    /\ UNCHANGED <<Disk, runVars, Ghosts>>

\* The deferred Remove.
RemoveTemp(r) ==
    /\ pc[r] = "remove"
    /\ temp' = [temp EXCEPT ![r] = "none"] /\ Goto(r, "end")
    /\ UNCHANGED <<tree, out, runVars, Ghosts>>

-----------------------------------------------------------------------------
(* The others.                                                             *)

Kill(r) ==
    /\ pc[r] \in Active /\ Goto(r, "dead")
    /\ UNCHANGED <<Disk, runVars, Ghosts>>

Edit(f) ==
    /\ \E t \in Texts[f] \ {tree[f]} : tree' = [tree EXCEPT ![f] = t]
    /\ calm' = [r \in Runs |-> calm[r] /\ pc[r] = "idle"]
    /\ UNCHANGED <<temp, out, pc, runVars, readable, alone>>

Run(r) == \/ MakeRouter(r) \/ WalkDir(r) \/ WalkEnd(r) \/ ParseFile(r) \/ ParseRouters(r)
          \/ Render(r) \/ CreateTemp(r) \/ Write(r) \/ Rename(r) \/ RemoveTemp(r)

\* Every run is over: nothing is left to do but to edit.
Next == \/ \E r \in Runs : Run(r) \/ Kill(r)
        \/ \E f \in Files : Edit(f)

Spec == Init /\ [][Next]_vars

-----------------------------------------------------------------------------
(* Properties.                                                             *)

TypeOK ==
    /\ DOMAIN tree = Files /\ \A f \in Files : tree[f] \in Texts[f]
    /\ temp \in [Runs -> {"none", "torn", "full"}]
    /\ out \in [run : Runs \cup {NoRun}, whole : BOOLEAN]
    /\ pc \in [Runs -> {"idle"} \cup Active \cup Over]
    /\ dir \in [Runs -> 0 .. Len(Dirs)] /\ readable \in [Runs -> SUBSET Walked]
    /\ calm \in [Runs -> BOOLEAN] /\ alone \in [Runs -> BOOLEAN]
    /\ \A r \in Runs : temp[r] = "full" => pc[r] \in {"rename", "remove", "dead"}

\* Atomic replacement: at every moment the router file is what it was before, or
\* the whole text of a run that has ended well, never a part of one, however the
\* runs overlap, fail or are killed.
OutputWhole == out.whole /\ (out.run # NoRun => pc[out.run] = "end")

\* Only a run that is killed leaves its temporary file behind.
TempsRemoved == \A r \in Runs : pc[r] = "end" => temp[r] = "none"

Finished(r) == pc[r] \in {"create", "write", "rename", "remove", "end"} /\ text[r] # Empty

\* No file was found under two package paths, as it is below two search
\* directories when go list names one of them only.
OnePackageEach(r) == \A x, y \in found[r] : x.path = y.path => x.package = y.package

\* The text a reader of some files would expect: the functions in the order of
\* their files, each once; every limit that is named, with the numbers of the
\* first function that names it; and nothing else.
Complete(t, files) ==
    LET all      == UNION {{f} \X DOMAIN tree[f].funcs : f \in files}
        func(p)  == tree[p[1]].funcs[p[2]]
        place(p) == Cardinality({q \in all : q[1] < p[1] \/ (q[1] = p[1] /\ q[2] <= p[2])})
        name(p)  == Word(func(p).words, 3)
        first(n) == CHOOSE p \in all : name(p) = n /\
                       \A q \in all : name(q) = n => place(p) <= place(q)
    IN  /\ \A f \in files : tree[f].parses
        /\ Len(t.routes) = Cardinality(all)
        /\ \A p \in all : /\ t.routes[place(p)].fn = func(p).fn
                          /\ t.routes[place(p)].limit.name = name(p)
        /\ DOMAIN t.limiters = {name(p) : p \in all} \ {""}
        /\ \A n \in DOMAIN t.limiters : t.limiters[n] = FindLimit(func(first(n)).words)

\* A run renders all routes of the directories it could read, as long as nobody
\* edits them and each file has one package path, or none (behind a file that does
\* not parse, be it one of the sources or a temporary file of another run): never
\* some of them, nor one of them twice, however the search directories overlap.
AllOrNothing ==
    \A r \in Runs :
        calm[r] /\ Finished(r) /\ OnePackageEach(r) => Complete(text[r], readable[r])

\* A run without edits, without another run next to it, and without a file left
\* by one that was killed, replaces the router file by one that has every route
\* of the directories it could read, if their files parse and have one package
\* path each.
AloneIsComplete ==
    LET r == out.run
    IN  r # NoRun /\ calm[r] /\ alone[r] /\ OnePackageEach(r)
          /\ (\A f \in readable[r] : tree[f].parses) => Complete(text[r], readable[r])
=============================================================================
