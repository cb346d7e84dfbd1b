-------------------------- MODULE StaticFileProofs --------------------------
(***************************************************************************)
(* Proofs about StaticFile, for every set of sizes and of Range headers,   *)
(* every number of versions and all their dates.                           *)
(***************************************************************************)
EXTENDS StaticFile, FiniteSetTheorems, WellFoundedInduction, TLAPS

LEMMA TypeInit == Init => TypeOK
BY StaticAssumption DEF Init, TypeOK, Versions, NoFile, NoWriter, NoRes, Times,
   Inodes, Nodes

LEMMA AskTyped == TypeOK /\ (\E r : Ask(r)) => TypeOK'
BY DEF TypeOK, Ask, diskVars, pipeVars

LEMMA ClientAsks == Client => \E r : Ask(r)
BY DEF Client, Fetch, Revalidate, Resume

LEMMA TypeNext == TypeOK /\ [Next]_vars => TypeOK'
<1> SUFFICES ASSUME TypeOK, [Next]_vars PROVE TypeOK'
    OBVIOUS
<1> USE StaticAssumption
<1>1. CASE Client
  BY <1>1, AskTyped, ClientAsks
<1>2. CASE Receive
  BY <1>2 DEF Receive, TypeOK, diskVars, pipeVars, NoFile, Versions, Times, NoRes
<1>3. CASE Open
  <2>1. NoFile \in Versions /\ tree["gz"] \in 0 .. MaxVersions
    BY DEF TypeOK, NoFile, Versions, Times, Nodes
  <2>2. tree["gz"] # 0 => disk[tree["gz"]] \in Versions
    BY <2>1 DEF TypeOK, Inodes
  <2>3. UNCHANGED <<tree, disk, dates, writer, pipe>>
    BY <1>3 DEF Open, Answer, diskVars, pipeVars
  <2>4. CASE req.form = "index"
    BY <1>3, <2>3, <2>4 DEF Open, Answer, TypeOK
  <2>5. CASE req.form # "index"
    <3>1. UNCHANGED res
      BY <1>3, <2>5 DEF Open
    <3>2. CASE gzip /\ tree["gz"] # 0
      BY <1>3, <2>1, <2>2, <2>3, <2>5, <3>1, <3>2 DEF Open, TypeOK
    <3>3. CASE ~(gzip /\ tree["gz"] # 0)
      BY <1>3, <2>1, <2>3, <2>5, <3>1, <3>3 DEF Open, TypeOK
    <3> QED
      BY <3>2, <3>3
  <2> QED
    BY <2>4, <2>5
<1>4. CASE OpenPlain
  BY <1>4 DEF OpenPlain, Answer, TypeOK, diskVars, bodyVars, pipeVars, NoRes,
     Nodes, Inodes
<1>5. CASE Opened
  BY <1>5 DEF Opened, Answer, TypeOK, diskVars, bodyVars, pipeVars, NoRes
<1>5a. CASE TwinFails
  BY <1>5a DEF TwinFails, Answer, TypeOK, diskVars, bodyVars, pipeVars, NoRes
<1>6. CASE OpenIndex
  BY <1>6 DEF OpenIndex, TypeOK, diskVars, bodyVars, pipeVars, Nodes, Inodes
<1>7. CASE List
  BY <1>7 DEF List, Answer, TypeOK, diskVars, bodyVars, pipeVars, NoRes
<1>8. CASE ServeContent
  <2>1. writer.pc = "none" /\ pipe # "open" /\ file # 0
    BY <1>8 DEF ServeContent, TypeOK
  <2>2. UNCHANGED <<tree, disk, dates, stat>>
    BY <1>8 DEF ServeContent, diskVars
  <2>3. ASSUME NEW status, Answer(status, stat.v, "plain") PROVE TypeOK'
    BY <2>1, <2>2, <2>3 DEF Answer, TypeOK, pipeVars
  <2>4. ASSUME NEW header, Serve(header) PROVE TypeOK'
    BY <2>1, <2>2, <2>4 DEF Serve, TypeOK, pipeVars
  <2> QED
    BY <1>8, <2>3, <2>4 DEF ServeContent
<1>9. CASE Send
  BY <1>9 DEF Send, Return, TypeOK, diskVars
<1>10. CASE Transfer
  BY <1>10 DEF Transfer, TypeOK, diskVars, NoWriter
<1>11. CASE Finish \/ Drop
  BY <1>11 DEF Finish, Drop, Return, TypeOK, diskVars, bodyVars
<1>12. CASE WriterRead
  BY <1>12 DEF WriterRead, TypeOK, diskVars, bodyVars, NoWriter
<1>13. CASE WriterFails
  BY <1>13 DEF WriterFails, TypeOK, diskVars, bodyVars, NoWriter
<1>14. CASE RemoveTwin
  BY <1>14 DEF RemoveTwin, TypeOK, bodyVars, pipeVars, Nodes
<1>15. ASSUME NEW n \in Nodes, Place(n) PROVE TypeOK'
  BY <1>15 DEF Place, Version, TypeOK, Versions, bodyVars, pipeVars, Inodes
<1>16. ASSUME NEW n \in Nodes, Overwrite(n) PROVE TypeOK'
  BY <1>16 DEF Overwrite, Version, TypeOK, Versions, pipeVars, Inodes
<1>17. CASE UNCHANGED vars
  BY <1>17 DEF TypeOK, vars, diskVars, pipeVars
<1> QED
  BY <1>1, <1>2, <1>3, <1>4, <1>5, <1>5a, <1>6, <1>7, <1>8, <1>9, <1>10, <1>11,
     <1>12, <1>13, <1>14, <1>15, <1>16, <1>17 DEF Next, Handler, Writer, Deploy

\* The variables keep their types, and no file or pipe outlives its handler.
THEOREM TypeCorrect == Spec => []TypeOK
BY TypeInit, TypeNext, PTL DEF Spec

-----------------------------------------------------------------------------
(* Byte ranges.                                                            *)

IsSpec(s) ==
    /\ s.kind \in {"from", "span", "suffix", "bad"}
    /\ s.a \in Nat /\ s.b \in Nat

\* A spec that parseRange accepts stands for a range inside the file: it begins
\* and ends there, and it is empty only as the suffix of no bytes or of an empty
\* file, for files and specs of every size.
THEOREM RangeInside ==
    ASSUME NEW s, NEW size \in Nat, IsSpec(s), s.kind # "bad",
           ~Misses(s, size), ~Invalid(s, size)
    PROVE  LET r == RangeOf(s, size)
           IN  /\ r.start \in 0 .. size /\ r.length \in Nat
               /\ r.start + r.length <= size
               /\ r.length = 0 => s.kind = "suffix" /\ (s.a = 0 \/ size = 0)
<1>1. CASE s.kind = "suffix"
  BY <1>1 DEF IsSpec, RangeOf
<1>2. CASE s.kind = "from"
  BY <1>2 DEF IsSpec, RangeOf, Misses
<1>3. CASE s.kind = "span"
  BY <1>3 DEF IsSpec, RangeOf, Misses, Invalid
<1> QED
  BY <1>1, <1>2, <1>3 DEF IsSpec

-----------------------------------------------------------------------------
(* Not Modified.  The invariant: whatever carries a version carries the     *)
(* date that version was deployed with.                                    *)

Stamped(r) == r.v \in DOMAIN dates /\ r.mtime = dates[r.v]

Dated ==
    /\ \A i \in Inodes : disk[i].v # 0 => Stamped(disk[i])
    /\ \A n \in Nodes : tree[n] # 0 => disk[tree[n]].v # 0
    /\ stat.v # 0 => Stamped(stat)
    /\ file # 0 => stat.v # 0
    /\ pc \in {"send", "done"} /\ res.status = 200 => stat.v # 0 /\ res.v = stat.v
    /\ copy.v # 0 => Stamped(copy)
    /\ copy.v = 0 => copy.mtime = 0
    /\ copy.v \in Nat
    /\ req.ims # None => req.ims = copy.mtime /\ copy.mtime # 0
    /\ pc = "send" => res.status # 304
    /\ NotModifiedCurrent

LEMMA DatedInit == Init => Dated
BY StaticAssumption DEF Init, Dated, NotModifiedCurrent, NoFile, NoCopy, Bare, None

\* Deploying a version changes neither the order of dates nor any stamp.
LEMMA Deployed ==
    ASSUME TypeOK, NEW t \in Times, dates' = Append(dates, t)
    PROVE  /\ dates' \in Seq(Times) /\ Len(dates') = Len(dates) + 1
           /\ \A i \in DOMAIN dates : i \in DOMAIN dates' /\ dates'[i] = dates[i]
           /\ Twins => Twins'
           /\ Backward => Backward'
<1>1. dates \in Seq(Times)
  BY DEF TypeOK
<1>2. /\ dates' \in Seq(Times) /\ Len(dates') = Len(dates) + 1
      /\ \A i \in DOMAIN dates : i \in DOMAIN dates' /\ dates'[i] = dates[i]
  BY <1>1
<1> QED
  BY <1>2 DEF Twins, Backward

\* A 304 for a date: the file's date is not later, so its version is not.
LEMMA DateTells ==
    ASSUME TypeOK, Dated, stat.v # 0, IfModifiedSince(req, stat.mtime) = "false"
    PROVE  Twins \/ Backward \/ stat.v <= copy.v
<1> SUFFICES ASSUME ~Twins, ~Backward, ~(stat.v <= copy.v) PROVE FALSE
    OBVIOUS
<1>1. req.ims # None /\ stat.mtime <= req.ims
  BY DEF IfModifiedSince
<1>2. req.ims = copy.mtime /\ copy.v # 0
  BY <1>1 DEF Dated
<1>3. Stamped(stat) /\ Stamped(copy)
  BY <1>2 DEF Dated
<1>4. /\ stat.v \in DOMAIN dates /\ copy.v \in DOMAIN dates
      /\ dates[stat.v] <= dates[copy.v]
  BY <1>1, <1>2, <1>3 DEF Stamped
<1>5. DOMAIN dates = 1 .. Len(dates) /\ Len(dates) \in Nat
      /\ \A i \in DOMAIN dates : dates[i] \in Nat
  <2>1. dates \in Seq(Times)
    BY DEF TypeOK
  <2> QED
    BY <2>1, StaticAssumption DEF Times
<1>6. copy.v < stat.v
  BY <1>4, <1>5
<1> QED
  BY <1>4, <1>5, <1>6 DEF Twins, Backward

LEMMA DatedAsk ==
    ASSUME TypeOK, Dated, NEW r, Ask(r),
           r.ims # None => r.ims = copy.mtime /\ copy.mtime # 0
    PROVE  Dated'
BY DEF Ask, Dated, NotModifiedCurrent, Stamped, Twins, Backward, diskVars,
   pipeVars

\* An answer without content, whose 304, if it is one, tells the truth.
LEMMA DatedAnswer ==
    ASSUME TypeOK, Dated, NEW status, NEW v, NEW to, Answer(status, v, to),
           UNCHANGED <<diskVars, clientVars, stat>>,
           status = 304 /\ req.noneMatch # "any" =>
               Twins \/ Backward \/ v <= copy.v,
           status = 200 => stat.v # 0 /\ v = stat.v
    PROVE  Dated'
BY DEF Answer, Dated, NotModifiedCurrent, Stamped, Twins, Backward, diskVars,
   clientVars, NoRes

\* A step that leaves the disk, the client and the answer alone.
LEMMA DatedSame ==
    ASSUME Dated, UNCHANGED <<diskVars, clientVars, stat, res>>,
           file' # 0 => file # 0,
           pc' = pc \/ pc = "send" \/ pc' \notin {"send", "done"},
           pc' = "done" => pc = "done" \/ res.status # 304
    PROVE  Dated'
BY DEF Dated, NotModifiedCurrent, Stamped, Twins, Backward, diskVars, clientVars

LEMMA DatedReceive == TypeOK /\ Dated /\ Receive => Dated'
BY DEF Receive, Kept, Dated, NotModifiedCurrent, Stamped, TypeOK, diskVars, Bare,
   NoCopy, NoFile, NoRes, None

\* The file just opened, or its successor the index page, has its date.
LEMMA DatedOpen ==
    ASSUME TypeOK, Dated, NEW n \in Nodes, tree[n] # 0, file' = tree[n],
           stat' = disk[tree[n]], pc' \notin {"send", "done"},
           UNCHANGED <<diskVars, clientVars, res>>
    PROVE  Dated'
<1>1. tree[n] \in Inodes /\ disk[tree[n]].v # 0 /\ Stamped(disk[tree[n]])
  BY StaticAssumption DEF TypeOK, Dated, Inodes
<1> QED
  BY <1>1 DEF Dated, NotModifiedCurrent, Stamped, diskVars, clientVars

\* A new version in some inode, and names that point to it or where they did.
LEMMA DatedDeploy ==
    ASSUME TypeOK, Dated, Len(dates) < MaxVersions,
           NEW i \in Inodes, NEW dir, NEW size, NEW t \in Times,
           disk' = [disk EXCEPT ![i] = Version(dir, size, t)],
           dates' = Append(dates, t),
           \A m \in Nodes : tree'[m] \in {0, i, tree[m]},
           UNCHANGED <<clientVars, pc, file, stat, res>>
    PROVE  Dated'
<1>1. /\ dates' \in Seq(Times) /\ Len(dates') = Len(dates) + 1
      /\ \A j \in DOMAIN dates : j \in DOMAIN dates' /\ dates'[j] = dates[j]
      /\ (Twins => Twins') /\ (Backward => Backward')
  BY Deployed
<1>2. /\ Len(dates) \in Nat /\ Len(dates) + 1 \in DOMAIN dates'
      /\ dates'[Len(dates) + 1] = t
  BY <1>1 DEF TypeOK
<1>3. \A j \in Inodes : disk'[j] = IF j = i THEN Version(dir, size, t) ELSE disk[j]
  BY DEF TypeOK
<1>4. \A j \in Inodes : disk'[j].v # 0 => Stamped(disk[j])'
  BY <1>1, <1>2, <1>3 DEF Dated, Stamped, Version
<1>5. \A m \in Nodes : tree'[m] # 0 => disk'[tree'[m]].v # 0
  <2> SUFFICES ASSUME NEW m \in Nodes, tree'[m] # 0 PROVE disk'[tree'[m]].v # 0
      OBVIOUS
  <2>1. tree[m] # 0 => tree[m] \in Inodes /\ disk[tree[m]].v # 0
    BY StaticAssumption DEF TypeOK, Dated, Inodes
  <2> QED
    BY <1>2, <1>3, <2>1 DEF Version
<1> QED
  BY <1>1, <1>4, <1>5 DEF Dated, NotModifiedCurrent, Stamped, clientVars

LEMMA DatedNext == TypeOK /\ Dated /\ [Next]_vars => Dated'
<1> SUFFICES ASSUME TypeOK, Dated, [Next]_vars PROVE Dated'
    OBVIOUS
<1> USE StaticAssumption
<1>1. CASE Fetch
  BY <1>1, DatedAsk DEF Fetch, Fetches, Bare
<1>2. CASE Revalidate
  BY <1>2, DatedAsk DEF Revalidate, Bare, None
<1>3. CASE Resume
  BY <1>3, DatedAsk DEF Resume, Bare, None
<1>4. CASE Receive
  BY <1>4, DatedReceive
<1>5. CASE Open
  <2>1. CASE req.form = "index"
    BY <1>5, <2>1, DatedAnswer DEF Open
  <2>2. CASE req.form # "index" /\ gzip /\ tree["gz"] # 0
    BY <1>5, <2>2, DatedOpen DEF Open, Nodes
  <2>3. CASE req.form # "index" /\ ~(gzip /\ tree["gz"] # 0)
    BY <1>5, <2>3 DEF Open, Dated, NotModifiedCurrent, Stamped, Twins, Backward,
       NoFile, diskVars, clientVars
  <2> QED
    BY <2>1, <2>2, <2>3
<1>5a. CASE TwinFails
  <2>1. CASE pc' = "plain"
    BY <1>5a, <2>1, DatedSame DEF TwinFails, Answer
  <2>2. CASE pc' # "plain"
    BY <1>5a, <2>2, DatedAnswer DEF TwinFails
  <2> QED
    BY <2>1, <2>2
<1>6. CASE OpenPlain
  <2>1. CASE pc' = "opened"
    BY <1>6, <2>1, DatedOpen DEF OpenPlain, Answer, Nodes
  <2>2. CASE pc' # "opened"
    BY <1>6, <2>2, DatedAnswer DEF OpenPlain
  <2> QED
    BY <2>1, <2>2
<1>7. CASE Opened
  <2>1. ASSUME NEW to, Answer(301, 0, to) PROVE Dated'
    BY <1>7, <2>1, DatedAnswer DEF Opened
  <2>2. CASE pc' \in {"index", "content"} /\ UNCHANGED <<file, res>>
    BY <1>7, <2>2, DatedSame DEF Opened
  <2> QED
    BY <1>7, <2>1, <2>2 DEF Opened
<1>8. CASE OpenIndex
  <2>1. CASE pc' = "content"
    BY <1>8, <2>1, DatedOpen DEF OpenIndex, Nodes
  <2>2. CASE pc' = "list"
    BY <1>8, <2>2, DatedSame DEF OpenIndex
  <2> QED
    BY <1>8, <2>1, <2>2 DEF OpenIndex
<1>9. CASE List
  <2>1. stat.v # 0
    BY <1>9 DEF List, TypeOK, Dated
  <2> QED
    BY <1>9, <2>1, DatedAnswer, DateTells DEF List
<1>10. CASE ServeContent
  <2>1. stat.v # 0
    BY <1>10 DEF ServeContent, TypeOK, Dated
  <2>2. CheckPreconditions(req, stat.mtime) = 304 =>
            req.noneMatch = "any" \/ IfModifiedSince(req, stat.mtime) = "false"
    BY DEF CheckPreconditions, IfNoneMatch
  <2>3. ASSUME NEW status, Answer(status, stat.v, "plain"),
               status \in {CheckPreconditions(req, stat.mtime), 416}, status # 200
        PROVE  Dated'
    BY <1>10, <2>1, <2>2, <2>3, DatedAnswer, DateTells DEF ServeContent
  <2>4. ASSUME NEW header, Serve(header) PROVE Dated'
    BY <1>10, <2>1, <2>4 DEF ServeContent, Serve, Dated, NotModifiedCurrent,
       Stamped, diskVars, clientVars
  <2> QED
    BY <1>10, <2>3, <2>4 DEF ServeContent
<1>11. CASE Send \/ Transfer \/ Finish \/ Drop \/ WriterRead \/ WriterFails
  <2>1. UNCHANGED <<diskVars, clientVars, stat, res>> /\ (file' # 0 => file # 0)
    BY <1>11 DEF Send, Transfer, Finish, Drop, WriterRead, WriterFails, Return
  <2>2. pc' = pc \/ (pc = "send" /\ pc' = "done")
    BY <1>11 DEF Send, Transfer, Finish, Drop, WriterRead, WriterFails, Return
  <2>3. pc = "send" => res.status # 304
    BY DEF Dated
  <2> QED
    BY <2>1, <2>2, <2>3, DatedSame
<1>12. CASE RemoveTwin
  BY <1>12 DEF RemoveTwin, TypeOK, Dated, NotModifiedCurrent, Stamped, Twins,
     Backward, clientVars
<1>13. ASSUME NEW n \in Nodes, Place(n) PROVE Dated'
  <2>1. Len(dates) + 1 \in Inodes
    BY <1>13 DEF Place, TypeOK, Inodes
  <2>2. \A m \in Nodes : tree'[m] \in {0, Len(dates) + 1, tree[m]}
    BY <1>13 DEF Place
  <2>3. PICK dir \in BOOLEAN, size \in Sizes, t \in Times :
           /\ disk' = [disk EXCEPT ![Len(dates) + 1] = Version(dir, size, t)]
           /\ dates' = Append(dates, t)
    BY <1>13 DEF Place
  <2>4. Len(dates) < MaxVersions /\ UNCHANGED <<clientVars, pc, file, stat, res>>
    BY <1>13 DEF Place
  <2> QED
    BY <2>1, <2>2, <2>3, <2>4, DatedDeploy
<1>14. ASSUME NEW n \in Nodes, Overwrite(n) PROVE Dated'
  <2>1. tree[n] \in Inodes
    BY <1>14 DEF Overwrite, TypeOK, Inodes
  <2> QED
    BY <1>14, <2>1, DatedDeploy DEF Overwrite
<1>15. CASE UNCHANGED vars
  BY <1>15 DEF Dated, NotModifiedCurrent, Stamped, Twins, Backward, vars,
     diskVars, clientVars
<1> QED
  BY <1>1, <1>2, <1>3, <1>4, <1>5, <1>5a, <1>6, <1>7, <1>8, <1>9, <1>10, <1>11,
     <1>12, <1>13, <1>14, <1>15 DEF Next, Client, Handler, Writer, Deploy

\* A 304 never hides a newer version than the client has, however often files
\* are replaced while it asks, provided the dates went forward.
THEOREM NotModifiedIsCurrent == Spec => []NotModifiedCurrent
<1>1. TypeOK /\ Dated /\ [Next]_vars => (TypeOK /\ Dated)'
  BY TypeNext, DatedNext
<1>2. Dated => NotModifiedCurrent
  BY DEF Dated
<1> QED
  BY <1>1, <1>2, TypeInit, DatedInit, PTL DEF Spec
-----------------------------------------------------------------------------
(* What the client has and what it asks.                                   *)

Bytes == [v : 0 .. MaxVersions, pos : Nat]
Forms == {"plain", "slash", "index"}
Copies == [v : 0 .. MaxVersions, form : Forms, mtime : Times, total : Nat,
           bytes : Seq(Bytes), loose : BOOLEAN, spoiled : BOOLEAN]

\* The rest of the copy, on one condition about its date or on one about a tag.
AsksRest ==
    /\ copy.mtime # 0 /\ Len(copy.bytes) < copy.total
    /\ req.form = copy.form
    /\ req.range = <<[kind |-> "from", a |-> Len(copy.bytes), b |-> 0]>>
    /\ \/ req.ir = "date" /\ req.irDate = copy.mtime
       \/ req.ir = "tag"
       \/ req.ir = "none" /\ req.match = "none" /\ req.ius = copy.mtime
       \/ req.match = "tag"

ClientInv ==
    /\ gzip \in BOOLEAN /\ spoiled \in BOOLEAN
    /\ req.range \in Seq(Specs) /\ {req.form, res.to} \subseteq Forms
    /\ copy \in Copies
    /\ req.resume => AsksRest

-----------------------------------------------------------------------------
(* The bytes of an answer.                                                 *)

\* What was sent of part i is a beginning of it.
Beginning(i) ==
    LET r == res.parts[i]
    IN  /\ r.start \in Nat /\ r.length \in Nat /\ r.start + r.length <= res.size
        /\ got[i] \in Seq(Bytes) /\ Len(got[i]) <= r.length
        /\ ~spoiled => \A k \in 1 .. Len(got[i]) :
                          got[i][k] = [v |-> res.v, pos |-> r.start + k - 1]

PartsInv ==
    pc \in {"send", "done"} /\ res.status \in {200, 206} =>
        /\ DOMAIN res.parts \subseteq DOMAIN got
        /\ \A i \in DOMAIN res.parts : Beginning(i)

\* An inode is named, or open, only when something was deployed in it.
InodeInv == file <= Len(dates) /\ \A n \in Nodes : tree[n] <= Len(dates)

\* While the body is sent, the open file is the version in the header, or the
\* answer is known to be spoiled.
SourceInv ==
    /\ pc \in {"opened", "index", "content", "list", "send"} =>
           spoiled \/ disk[file].v = stat.v
    /\ pc = "send" => /\ res.status \in {200, 206} /\ res.v = stat.v
                      /\ DOMAIN got = DOMAIN res.parts

Complete(i) == Len(got[i]) = res.parts[i].length

\* A body straight from the file.
SingleInv ==
    pc = "send" /\ ~res.multi =>
        \E i \in DOMAIN res.parts :
            DOMAIN res.parts = {i} /\ left = res.parts[i].length - Len(got[i])

\* The bytes of some parts, and the units that the pipe has to pass for them.
Units(ranges, S) == UNION {{i} \X (1 .. ranges[i].length) : i \in S}
Owed(S) == Cardinality(Units(res.parts, S)) + Cardinality(S)

Writers == [pc : {"none", "header", "read", "write"}, n : Nat, byte : Bytes,
            todo : SUBSET Nat]

\* A body through the pipe: what is left is what the goroutine has still to
\* write, unless it broke off.
PipeInv ==
    pc = "send" /\ res.multi =>
        /\ pipe \in {"open", "error"}
        /\ DOMAIN res.parts \subseteq Nat /\ IsFiniteSet(DOMAIN res.parts)
        /\ writer \in Writers /\ writer.todo \subseteq DOMAIN res.parts
        /\ \/ writer.pc = "none" /\ pipe = "error" /\ left > 0
           \/ writer.pc = "none" /\ pipe = "open" /\ left = 0
              /\ \A i \in DOMAIN res.parts : Complete(i)
           \/ /\ writer.pc = "header" /\ pipe = "open" /\ writer.n = 0
              /\ left = Owed(writer.todo) + 1
              /\ \A i \in DOMAIN res.parts :
                    IF i \in writer.todo THEN got[i] = <<>> ELSE Complete(i)
           \/ /\ writer.pc \in {"read", "write"} /\ pipe = "open"
              /\ writer.todo # {} /\ left = Owed(writer.todo) - writer.n
              /\ writer.n <= res.parts[First(writer.todo)].length
              /\ \A i \in DOMAIN res.parts :
                    IF i = First(writer.todo) THEN Len(got[i]) = writer.n
                    ELSE IF i \in writer.todo THEN got[i] = <<>> ELSE Complete(i)
              /\ writer.pc = "write" =>
                    LET r == res.parts[First(writer.todo)]
                    IN  /\ writer.n < r.length
                        /\ ~spoiled => writer.byte =
                              [v |-> res.v, pos |-> r.start + writer.n]

-----------------------------------------------------------------------------
(* Versions and their sizes.                                               *)

\* Whatever carries the same version agrees on its size.
SizeInv ==
    /\ \A i, j \in Inodes : disk[i].v = disk[j].v => disk[i].size = disk[j].size
    /\ stat.v # 0 => \A i \in Inodes : disk[i].v = stat.v => disk[i].size = stat.size
    /\ copy.v # 0 => \A i \in Inodes :
           disk[i].v = copy.v => copy.total \in {0, disk[i].size}
    /\ copy.v # 0 /\ copy.v = stat.v => copy.total \in {0, stat.size}

\* What node n names by now is not older than version v.
Since(v, n) == tree[n] # 0 => v <= disk[tree[n]].v

\* The node that the content of a URL comes from, without compression.
NodeOf(form) == IF form = "plain" THEN "x" ELSE "index"

\* The steps of the handler that a form of the URL leads to.
FormInv ==
    /\ pc \in {"plain", "opened", "index", "content", "list", "send"} => req.form # "index"
    /\ pc \in {"index", "list"} => req.form = "slash"

\* Without compression, what a URL names never becomes older: not what the
\* handler has opened, and not what the client has a part of.
OrderInv ==
    ~gzip =>
        /\ pc = "opened" => Since(stat.v, "x")
        /\ pc \in {"content", "send"} => Since(stat.v, NodeOf(req.form))
        /\ pc = "done" /\ res.status \in {200, 206} /\ res.size # 0
              => Since(stat.v, NodeOf(req.form))
        /\ copy.total # 0 => Since(copy.v, NodeOf(copy.form))
        /\ req.resume /\ pc = "opened" /\ req.form = "plain" => copy.v <= stat.v
        /\ req.resume /\ pc = "content" => copy.v <= stat.v

\* The whole file, or the rest that a resuming client asked for: then of the
\* version it has, as far as dates can tell.
ServedInv ==
    pc \in {"send", "done"} =>
        /\ res.status = 200 =>
              \/ res.parts = <<>> /\ res.size = 0
              \/ /\ res.parts = [i \in {1} |-> [start |-> 0, length |-> stat.size]]
                 /\ res.size = stat.size
        /\ res.status = 206 => res.v = stat.v
        /\ res.status = 206 /\ req.resume =>
              /\ Len(copy.bytes) < stat.size
              /\ res.parts = [i \in {1} |-> [start  |-> Len(copy.bytes),
                                             length |-> stat.size - Len(copy.bytes)]]
              /\ \/ Twins \/ (req.ius # None /\ (Backward \/ gzip))
                 \/ copy.v = stat.v

BodyInv == InodeInv /\ PartsInv /\ SourceInv /\ SingleInv /\ PipeInv /\ AnswerAsDeclared
CopyInv == ClientInv /\ SizeInv /\ FormInv /\ OrderInv /\ ServedInv /\ CopyPure

-----------------------------------------------------------------------------
(* Counting the units of a multipart body.                                 *)

LEMMA FirstIn == ASSUME NEW S, S \subseteq Nat, S # {} PROVE First(S) \in S
<1> DEFINE R == {ss \in Nat \X Nat : ss[1] < ss[2]}
<1>1. IsWellFoundedOn(R, Nat)
  BY NatLessThanWellFounded, Zenon DEF OpToRel
<1> HIDE DEF R
<1>2. PICK i \in S : \A j \in S : <<j, i>> \notin R
  BY <1>1, WFMin
<1>3. ASSUME NEW j \in S PROVE i <= j
  <2>1. i \in Nat /\ j \in Nat /\ <<j, i>> \in Nat \X Nat
    OBVIOUS
  <2>2. ~(<<j, i>>[1] < <<j, i>>[2])
    BY <1>2, <2>1 DEF R
  <2> QED
    BY <2>1, <2>2
<1> QED
  BY <1>3 DEF First

LEMMA OneRange ==
    ASSUME NEW i, NEW n \in Nat
    PROVE  IsFiniteSet({i} \X (1 .. n)) /\ Cardinality({i} \X (1 .. n)) = n
<1>1. IsFiniteSet(1 .. n) /\ Cardinality(1 .. n) = n
  BY FS_Interval
<1>2. IsFiniteSet({i}) /\ Cardinality({i}) = 1
  BY FS_Singleton
<1>3. /\ IsFiniteSet({i} \X (1 .. n))
      /\ Cardinality({i} \X (1 .. n)) = Cardinality({i}) * Cardinality(1 .. n)
  BY <1>1, <1>2, FS_Product
<1> QED
  BY <1>1, <1>2, <1>3

LEMMA UnitsFinite ==
    ASSUME NEW ranges, NEW S, IsFiniteSet(S), \A i \in S : ranges[i].length \in Nat
    PROVE  IsFiniteSet(Units(ranges, S)) /\ Cardinality(Units(ranges, S)) \in Nat
<1> DEFINE f == [i \in S |-> {i} \X (1 .. ranges[i].length)]
           T == {{i} \X (1 .. ranges[i].length) : i \in S}
<1>1. f \in Surjection(S, T)
  BY DEF Surjection
<1>2. IsFiniteSet(T)
  BY <1>1, FS_Surjection
<1>3. ASSUME NEW U \in T PROVE IsFiniteSet(U)
  <2>1. PICK i \in S : U = {i} \X (1 .. ranges[i].length)
    OBVIOUS
  <2> QED
    BY <2>1, OneRange
<1>4. IsFiniteSet(UNION T)
  BY <1>2, <1>3, FS_UNION
<1> QED
  BY <1>4, FS_CardinalityType DEF Units

\* A part owes its bytes and its header.
LEMMA UnitsSplit ==
    ASSUME NEW ranges, NEW S, IsFiniteSet(S), \A i \in S : ranges[i].length \in Nat,
           NEW i \in S
    PROVE  Cardinality(Units(ranges, S)) =
               Cardinality(Units(ranges, S \ {i})) + ranges[i].length
<1> DEFINE A == Units(ranges, S \ {i})
           B == {i} \X (1 .. ranges[i].length)
<1>1. Units(ranges, S) = A \cup B
  BY DEF Units
<1>2. A \cap B = {}
  BY DEF Units
<1>3. IsFiniteSet(A) /\ Cardinality(A) \in Nat
  <2>1. IsFiniteSet(S \ {i})
    BY FS_RemoveElement
  <2> QED
    BY <2>1, UnitsFinite
<1>4. IsFiniteSet(B) /\ Cardinality(B) = ranges[i].length
  BY OneRange
<1> HIDE DEF A, B
<1>5. Cardinality(A \cup B) = Cardinality(A) + Cardinality(B) - Cardinality(A \cap B)
  BY <1>3, <1>4, FS_Union
<1>6. Cardinality(A \cap B) = 0
  BY <1>2, FS_EmptySet
<1>7. Cardinality(Units(ranges, S)) = Cardinality(A) + ranges[i].length
  BY <1>1, <1>3, <1>4, <1>5, <1>6
<1> QED
  BY <1>7 DEF A

LEMMA OwedSplit ==
    ASSUME NEW S, IsFiniteSet(S), \A i \in S : res.parts[i].length \in Nat, NEW i \in S
    PROVE  /\ Owed(S) = Owed(S \ {i}) + res.parts[i].length + 1
           /\ Owed(S \ {i}) \in Nat /\ Owed(S) \in Nat
<1>1. IsFiniteSet(S \ {i}) /\ Cardinality(S \ {i}) = Cardinality(S) - 1
  BY FS_RemoveElement
<1>2. Cardinality(S) \in Nat /\ Cardinality(S \ {i}) \in Nat
  BY <1>1, FS_CardinalityType
<1>3. Cardinality(Units(res.parts, S \ {i})) \in Nat
  BY <1>1, UnitsFinite
<1>4. Cardinality(Units(res.parts, S)) =
          Cardinality(Units(res.parts, S \ {i})) + res.parts[i].length
  BY UnitsSplit
<1> QED
  BY <1>1, <1>2, <1>3, <1>4 DEF Owed

LEMMA OwedNothing == Owed({}) = 0
<1>1. Units(res.parts, {}) = {}
  BY DEF Units
<1> QED
  BY <1>1, FS_EmptySet DEF Owed

-----------------------------------------------------------------------------
(* The invariant of the body.                                              *)

\* The parts that serveContent declares are inside the file.
LEMMA PartsInside ==
    ASSUME NEW header \in Seq(Specs), NEW size \in Nat, ~ParseFails(header, size)
    PROVE  LET parts == Parts(header, size)
           IN  /\ DOMAIN parts \subseteq Nat /\ IsFiniteSet(DOMAIN parts) /\ DOMAIN parts # {}
               /\ \A i \in DOMAIN parts :
                     /\ parts[i].start \in Nat /\ parts[i].length \in Nat
                     /\ parts[i].start + parts[i].length <= size
<1>1. CASE Whole(header, size)
  <2>1. Parts(header, size) = [i \in {1} |-> [start |-> 0, length |-> size]]
    BY <1>1 DEF Parts
  <2>2. DOMAIN Parts(header, size) = {1} /\ IsFiniteSet({1})
    BY <2>1, FS_Singleton
  <2> QED
    BY <2>1, <2>2
<1>2. CASE ~Whole(header, size)
  <2>1. Parts(header, size) = [i \in Hits(header, size) |-> RangeOf(header[i], size)]
    BY <1>2 DEF Parts, ParseRange
  <2>2. Hits(header, size) \subseteq 1 .. Len(header) /\ Hits(header, size) # {}
    BY <1>2 DEF Whole, ParseRange, Hits
  <2>3. IsFiniteSet(1 .. Len(header))
    BY FS_Interval
  <2>4. IsFiniteSet(Hits(header, size))
    BY <2>2, <2>3, FS_Subset
  <2>5. ASSUME NEW i \in Hits(header, size)
        PROVE  LET r == RangeOf(header[i], size)
               IN  r.start \in Nat /\ r.length \in Nat /\ r.start + r.length <= size
    <3>1. header[i] \in Specs /\ ~Misses(header[i], size) /\ ~Invalid(header[i], size)
      BY <2>2 DEF Hits, ParseFails
    <3>2. IsSpec(header[i]) /\ header[i].kind # "bad"
      BY <3>1 DEF IsSpec, Specs, Invalid
    <3> QED
      BY <3>1, <3>2, RangeInside
  <2> QED
    BY <2>1, <2>2, <2>4, <2>5
<1> QED
  BY <1>1, <1>2

LEMMA BodyInit == Init => BodyInv
BY StaticAssumption DEF Init, BodyInv, InodeInv, PartsInv, SourceInv, SingleInv,
   PipeInv, AnswerAsDeclared

\* A step to a place where no answer is being sent.
LEMMA BodyBefore ==
    ASSUME InodeInv', pc' \in {"idle", "open", "plain", "opened", "index", "content", "list"},
           pc' \in {"opened", "index", "content", "list"} =>
               spoiled' \/ disk'[file'].v = stat'.v
    PROVE  BodyInv'
BY DEF BodyInv, PartsInv, SourceInv, SingleInv, PipeInv, AnswerAsDeclared

LEMMA BodyAnswer ==
    ASSUME BodyInv, UNCHANGED diskVars, NEW status, NEW v, NEW to, Answer(status, v, to),
           TypeOK
    PROVE  BodyInv'
<1>1. pc' = "done" /\ res'.parts = <<>> /\ file' = 0
  BY DEF Answer, NoRes
<1>2. InodeInv'
  BY <1>1, StaticAssumption DEF BodyInv, InodeInv, diskVars, TypeOK
<1> QED
  BY <1>1, <1>2 DEF BodyInv, PartsInv, SourceInv, SingleInv, PipeInv, AnswerAsDeclared

LEMMA ServeBody ==
    ASSUME TypeOK, BodyInv, pc = "content", UNCHANGED <<diskVars, stat>>,
           NEW header \in Seq(Specs), ~ParseFails(header, stat.size), Serve(header)
    PROVE  BodyInv'
<1> DEFINE parts == Parts(header, stat.size)
<1>1. stat.size \in Nat
  BY DEF TypeOK, Versions
<1>2. /\ DOMAIN parts \subseteq Nat /\ IsFiniteSet(DOMAIN parts) /\ DOMAIN parts # {}
      /\ \A i \in DOMAIN parts :
            /\ parts[i].start \in Nat /\ parts[i].length \in Nat
            /\ parts[i].start + parts[i].length <= stat.size
  BY <1>1, PartsInside
<1>3. /\ pc' = "send" /\ UNCHANGED <<file, spoiled, disk, tree, dates, stat>>
      /\ res'.status \in {200, 206} /\ res'.v = stat.v /\ res'.size = stat.size
      /\ res'.parts = parts /\ res'.multi = Multi(parts)
      /\ got' = [i \in DOMAIN parts |-> <<>>]
  BY DEF Serve, diskVars
<1> HIDE DEF parts
<1>4. InodeInv' /\ SourceInv'
  BY <1>3 DEF BodyInv, InodeInv, SourceInv
<1>5. PartsInv'
  BY <1>2, <1>3 DEF PartsInv, Beginning, Bytes
<1>6. CASE Multi(parts)
  <2>1. /\ left' = RangesMIMESize(parts) /\ pipe' = "open"
        /\ writer' = [NoWriter EXCEPT !.pc = "header", !.todo = DOMAIN parts]
    BY <1>6 DEF Serve, parts
  <2>2. left' = Owed(writer.todo)' + 1
    BY <1>3, <2>1 DEF RangesMIMESize, SumRangesSize, Owed, Units, NoWriter
  <2>3. writer' \in Writers /\ writer'.pc = "header" /\ writer'.n = 0
        /\ writer'.todo = DOMAIN parts
    <3>1. writer' = [pc |-> "header", n |-> 0, byte |-> [v |-> 0, pos |-> 0],
                     todo |-> DOMAIN parts]
      BY <2>1 DEF NoWriter
    <3>2. [v |-> 0, pos |-> 0] \in Bytes
      BY StaticAssumption DEF Bytes
    <3> QED
      BY <1>2, <3>1, <3>2 DEF Writers
  <2>4. PipeInv'
    BY <1>2, <1>3, <2>1, <2>2, <2>3 DEF PipeInv
  <2> QED
    BY <1>3, <1>4, <1>5, <1>6, <2>4 DEF BodyInv, SingleInv, AnswerAsDeclared
<1>7. CASE ~Multi(parts)
  <2>1. PICK i : DOMAIN parts = {i}
    <3>1. Cardinality(DOMAIN parts) \in Nat /\ Cardinality(DOMAIN parts) # 0
      BY <1>2, FS_CardinalityType, FS_EmptySet
    <3>2. Cardinality(DOMAIN parts) = 1
      BY <1>7, <3>1 DEF Multi
    <3> QED
      BY <1>2, <3>2, FS_Singleton
  <2>2. SumRangesSize(parts) = parts[i].length
    <3>1. SumRangesSize(parts) = Cardinality({i} \X (1 .. parts[i].length))
      BY <2>1 DEF SumRangesSize
    <3> QED
      BY <1>2, <2>1, <3>1, OneRange
  <2>3. left' = parts[i].length
    BY <1>7, <2>2 DEF Serve, parts
  <2>4. SingleInv'
    BY <1>2, <1>3, <2>1, <2>3 DEF SingleInv
  <2> QED
    BY <1>3, <1>4, <1>5, <1>7, <2>4 DEF BodyInv, PipeInv, AnswerAsDeclared
<1> QED
  BY <1>6, <1>7

\* What the goroutine owes for the part it is at is more than it has written.
LEMMA OwedMore ==
    ASSUME BodyInv, pc = "send", res.multi, writer.pc \in {"header", "read", "write"}
    PROVE  /\ Owed(writer.todo) \in Nat
           /\ writer.pc \in {"read", "write"} =>
                /\ First(writer.todo) \in writer.todo
                /\ Owed(writer.todo) = Owed(writer.todo \ {First(writer.todo)})
                                           + res.parts[First(writer.todo)].length + 1
                /\ Owed(writer.todo \ {First(writer.todo)}) \in Nat
                /\ left > 0
<1>1. /\ writer.todo \subseteq DOMAIN res.parts /\ writer.todo \subseteq Nat
      /\ IsFiniteSet(writer.todo) /\ writer.n \in Nat
  BY FS_Subset DEF BodyInv, PipeInv, Writers
<1>2. \A i \in writer.todo : res.parts[i].length \in Nat
  BY <1>1 DEF BodyInv, SourceInv, PartsInv, Beginning
<1>3. Owed(writer.todo) \in Nat
  <2>1. CASE writer.todo = {}
    BY <2>1, OwedNothing
  <2>2. CASE writer.todo # {}
    BY <1>1, <1>2, <2>2, OwedSplit
  <2> QED
    BY <2>1, <2>2
<1>4. ASSUME writer.pc \in {"read", "write"}
      PROVE  /\ First(writer.todo) \in writer.todo
             /\ Owed(writer.todo) = Owed(writer.todo \ {First(writer.todo)})
                                        + res.parts[First(writer.todo)].length + 1
             /\ Owed(writer.todo \ {First(writer.todo)}) \in Nat
             /\ left > 0
  <2>1. writer.todo # {} /\ left = Owed(writer.todo) - writer.n
        /\ writer.n <= res.parts[First(writer.todo)].length
    BY <1>4 DEF BodyInv, PipeInv
  <2>2. First(writer.todo) \in writer.todo
    BY <1>1, <2>1, FirstIn
  <2>3. /\ Owed(writer.todo) = Owed(writer.todo \ {First(writer.todo)})
                                   + res.parts[First(writer.todo)].length + 1
        /\ Owed(writer.todo \ {First(writer.todo)}) \in Nat
    BY <1>1, <1>2, <2>2, OwedSplit
  <2> QED
    BY <1>1, <1>2, <2>1, <2>2, <2>3
<1> QED
  BY <1>3, <1>4

\* The handler stops sending.
LEMMA BodyDone ==
    ASSUME TypeOK, BodyInv, pc = "send", pc' = "done", file' = 0,
           UNCHANGED <<diskVars, res, got, left, spoiled>>
    PROVE  BodyInv'
<1>1. ASSUME left = 0 PROVE \A i \in DOMAIN res.parts : Complete(i)
  <2>1. CASE res.multi
    BY <1>1, <2>1, OwedMore DEF BodyInv, PipeInv
  <2>2. CASE ~res.multi
    BY <1>1, <2>2 DEF BodyInv, SingleInv, Complete, PartsInv, SourceInv, Beginning
  <2> QED
    BY <2>1, <2>2
<1>2. PartsInv'
  BY DEF BodyInv, PartsInv, SourceInv, Beginning
<1>3. AnswerAsDeclared'
  <2> SUFFICES ASSUME NEW i \in DOMAIN res.parts
               PROVE  LET r == res.parts[i]
                      IN  /\ r.start + r.length <= res.size
                          /\ left = 0 /\ ~spoiled => got[i] = [k \in 1 .. r.length |->
                                          [v |-> res.v, pos |-> r.start + k - 1]]
    BY DEF AnswerAsDeclared
  <2>1. Beginning(i)
    BY DEF BodyInv, PartsInv, SourceInv
  <2>2. ASSUME left = 0, ~spoiled
        PROVE  got[i] = [k \in 1 .. res.parts[i].length |->
                            [v |-> res.v, pos |-> res.parts[i].start + k - 1]]
    <3>1. Len(got[i]) = res.parts[i].length /\ got[i] \in Seq(Bytes)
      BY <1>1, <2>1, <2>2 DEF Beginning, Complete
    <3>2. got[i] = [k \in 1 .. res.parts[i].length |-> got[i][k]]
      BY <3>1
    <3>3. \A k \in 1 .. res.parts[i].length :
              got[i][k] = [v |-> res.v, pos |-> res.parts[i].start + k - 1]
      BY <2>1, <2>2, <3>1 DEF Beginning
    <3> QED
      BY <3>2, <3>3
  <2> QED
    BY <2>1, <2>2 DEF Beginning
<1>4. InodeInv'
  BY StaticAssumption DEF BodyInv, InodeInv, diskVars, TypeOK
<1> QED
  BY <1>2, <1>3, <1>4 DEF BodyInv, SourceInv, SingleInv, PipeInv

LEMMA SendBody == ASSUME TypeOK, BodyInv, Send PROVE BodyInv'
<1>1. PICK i : DOMAIN res.parts = {i} /\ DOMAIN got = {i}
               /\ left = res.parts[i].length - Len(got[i])
  BY DEF Send, BodyInv, SingleInv, SourceInv
<1>2. Beginning(i) /\ file \in Inodes
  BY <1>1, StaticAssumption DEF Send, BodyInv, PartsInv, SourceInv, TypeOK, Inodes
<1> DEFINE pos == res.parts[i].start + Len(got[i])
<1>3. /\ pc = "send" /\ ~res.multi /\ left > 0
      /\ UNCHANGED <<diskVars, stat, res, spoiled, writer>>
  BY DEF Send
<1>4. CASE AtEnd(pos)
  BY <1>1, <1>3, <1>4, BodyDone DEF Send, Return
<1>5. CASE ~AtEnd(pos)
  <2>1. /\ got' = [got EXCEPT ![i] = Append(@, ByteAt(pos))]
        /\ left' = left - 1 /\ UNCHANGED <<pc, file, pipe>>
    BY <1>1, <1>5 DEF Send
  <2>2. InodeInv' /\ SourceInv'
    BY <1>1, <1>3, <2>1 DEF BodyInv, InodeInv, SourceInv, diskVars
  <2>3. ByteAt(pos) \in Bytes /\ (~spoiled => ByteAt(pos) = [v |-> res.v, pos |-> pos])
    <3>1. pos \in Nat
      BY <1>2 DEF Beginning, Bytes
    <3>2. disk[file].v \in 0 .. MaxVersions
      BY <1>2 DEF TypeOK, Versions
    <3>3. ~spoiled => disk[file].v = res.v
      BY <1>3 DEF BodyInv, SourceInv
    <3> QED
      BY <3>1, <3>2, <3>3 DEF ByteAt, Bytes
  <2>4. /\ got'[i] = Append(got[i], ByteAt(pos)) /\ Len(got'[i]) = Len(got[i]) + 1
        /\ got'[i] \in Seq(Bytes)
        /\ \A k \in 1 .. Len(got'[i]) :
              got'[i][k] = IF k = Len(got[i]) + 1 THEN ByteAt(pos) ELSE got[i][k]
    BY <1>1, <1>2, <2>1, <2>3 DEF Beginning
  <2>5. Beginning(i)'
    BY <1>1, <1>2, <1>3, <2>3, <2>4 DEF Beginning
  <2>6. PartsInv' /\ SingleInv'
    <3>1. DOMAIN got' = {i} /\ DOMAIN res'.parts = {i}
      BY <1>1, <1>3, <2>1
    <3>2. Len(got[i]) \in Nat /\ res.parts[i].length \in Nat
      BY <1>2 DEF Beginning
    <3>3. left' = res'.parts[i].length - Len(got'[i])
      BY <1>1, <1>3, <2>1, <2>4, <3>2
    <3>4. PartsInv'
      BY <2>5, <3>1 DEF PartsInv
    <3>5. SingleInv'
      BY <3>1, <3>3 DEF SingleInv
    <3> QED
      BY <3>4, <3>5
  <2> QED
    BY <1>3, <2>1, <2>2, <2>6 DEF BodyInv, PipeInv, AnswerAsDeclared
<1> QED
  BY <1>4, <1>5

LEMMA TransferBody == ASSUME TypeOK, BodyInv, Transfer PROVE BodyInv'
<1>1. /\ pc = "send" /\ res.multi /\ left > 0 /\ pipe = "open" /\ left' = left - 1
      /\ UNCHANGED <<diskVars, pc, file, stat, res, spoiled, pipe>>
  BY DEF Transfer
<1>2. InodeInv' /\ SingleInv'
  BY <1>1 DEF BodyInv, InodeInv, SingleInv, diskVars
<1>3. /\ DOMAIN got = DOMAIN res.parts /\ \A i \in DOMAIN res.parts : Beginning(i)
      /\ writer.todo \subseteq DOMAIN res.parts /\ writer \in Writers
      /\ DOMAIN res.parts \subseteq Nat /\ IsFiniteSet(DOMAIN res.parts)
  BY <1>1 DEF BodyInv, PartsInv, SourceInv, PipeInv
<1>4. CASE writer.pc = "header"
  <2>1. UNCHANGED got /\ left = Owed(writer.todo) + 1
        /\ \A i \in DOMAIN res.parts :
               IF i \in writer.todo THEN got[i] = <<>> ELSE Complete(i)
    BY <1>1, <1>4 DEF Transfer, BodyInv, PipeInv
  <2>2. SourceInv' /\ PartsInv'
    BY <1>1, <2>1 DEF BodyInv, SourceInv, PartsInv, Beginning, diskVars
  <2>3. CASE writer.todo = {}
    <3>1. writer' = NoWriter /\ left' = 0
      BY <1>1, <1>4, <2>1, <2>3, OwedNothing DEF Transfer
    <3>2. writer' \in Writers /\ writer'.pc = "none" /\ writer'.todo = {}
      BY <3>1, StaticAssumption DEF NoWriter, Writers, Bytes
    <3>3. \A i \in DOMAIN res'.parts : Complete(i)'
      BY <1>1, <2>1, <2>3 DEF Complete
    <3>4. PipeInv'
      BY <1>1, <1>3, <3>1, <3>2, <3>3 DEF PipeInv
    <3> QED
      BY <1>1, <1>2, <2>2, <3>4 DEF BodyInv, AnswerAsDeclared
  <2>4. CASE writer.todo # {}
    <3>1. /\ writer' \in Writers /\ writer'.pc = "read" /\ writer'.n = 0
          /\ writer'.todo = writer.todo
      BY <1>1, <1>3, <1>4, <2>4 DEF Transfer, BodyInv, PipeInv, Writers
    <3>2. First(writer.todo) \in writer.todo
      BY <1>3, <2>4, FirstIn
    <3>3. Owed(writer.todo)' = Owed(writer.todo) /\ Owed(writer.todo) \in Nat
      BY <1>1, <1>4, <3>1, OwedMore DEF Owed, Units
    <3>4. res.parts[First(writer.todo)].length \in Nat /\ Len(got[First(writer.todo)]) = 0
      BY <1>3, <2>1, <3>2 DEF Beginning
    <3>5. \A i \in DOMAIN res'.parts :
              IF i = First(writer.todo)' THEN Len(got'[i]) = writer'.n
              ELSE IF i \in writer'.todo THEN got'[i] = <<>> ELSE Complete(i)'
      BY <1>1, <2>1, <3>1, <3>4 DEF Complete, First
    <3>6. left' = Owed(writer.todo)' - writer'.n
      BY <1>1, <2>1, <3>1, <3>3
    <3>7. PipeInv'
      BY <1>1, <1>3, <2>4, <3>1, <3>4, <3>5, <3>6 DEF PipeInv, First
    <3> QED
      BY <1>1, <1>2, <2>2, <3>7 DEF BodyInv, AnswerAsDeclared
  <2> QED
    BY <2>3, <2>4
<1>5. CASE writer.pc = "write"
  <2> PICK f : f = First(writer.todo)
      OBVIOUS
  <2>1. /\ got' = [got EXCEPT ![f] = Append(@, writer.byte)]
        /\ writer' = [writer EXCEPT !.pc = "read", !.n = @ + 1]
    BY <1>5 DEF Transfer
  <2>2. /\ writer' \in Writers /\ writer'.pc = "read" /\ writer'.n = writer.n + 1
        /\ writer'.todo = writer.todo /\ writer.n \in Nat
    <3>1. writer.n \in Nat /\ writer = [pc |-> writer.pc, n |-> writer.n,
                                        byte |-> writer.byte, todo |-> writer.todo]
      BY <1>3 DEF Writers
    <3>2. writer' = [pc |-> "read", n |-> writer.n + 1, byte |-> writer.byte,
                     todo |-> writer.todo]
      BY <2>1, <3>1
    <3> QED
      BY <1>3, <3>1, <3>2 DEF Writers
  <2>3. /\ f \in writer.todo /\ f \in DOMAIN res.parts /\ Owed(writer.todo) \in Nat
    BY <1>1, <1>3, <1>5, OwedMore
  <2>4. /\ left = Owed(writer.todo) - writer.n /\ writer.n < res.parts[f].length
        /\ \A i \in DOMAIN res.parts :
              IF i = f THEN Len(got[i]) = writer.n
              ELSE IF i \in writer.todo THEN got[i] = <<>> ELSE Complete(i)
        /\ ~spoiled => writer.byte = [v |-> res.v, pos |-> res.parts[f].start + writer.n]
    BY <1>1, <1>5 DEF BodyInv, PipeInv
  <2>5. Beginning(f) /\ writer.byte \in Bytes
    BY <1>3, <2>3 DEF Writers
  <2>6. /\ got'[f] = Append(got[f], writer.byte) /\ Len(got'[f]) = writer.n + 1
        /\ got'[f] \in Seq(Bytes) /\ DOMAIN got' = DOMAIN got
        /\ \A i \in DOMAIN got : i # f => got'[i] = got[i]
        /\ \A k \in 1 .. Len(got'[f]) :
              got'[f][k] = IF k = writer.n + 1 THEN writer.byte ELSE got[f][k]
    BY <1>3, <2>1, <2>3, <2>4, <2>5 DEF Beginning
  <2>7. Beginning(f)'
    <3>1. Len(got'[f]) <= res.parts[f].length
      BY <2>2, <2>4, <2>5, <2>6 DEF Beginning
    <3>2. ASSUME ~spoiled, NEW k \in 1 .. Len(got'[f])
          PROVE  got'[f][k] = [v |-> res.v, pos |-> res.parts[f].start + k - 1]
      <4>1. Len(got[f]) = writer.n /\ writer.n \in Nat /\ res.parts[f].start \in Nat
        BY <2>2, <2>3, <2>4, <2>5 DEF Beginning
      <4>2. CASE k = writer.n + 1
        BY <2>4, <2>6, <3>2, <4>1, <4>2
      <4>3. CASE k # writer.n + 1
        BY <2>5, <2>6, <3>2, <4>1, <4>3 DEF Beginning
      <4> QED
        BY <4>2, <4>3
    <3> QED
      BY <1>1, <2>5, <2>6, <3>1, <3>2 DEF Beginning
  <2>8. \A i \in DOMAIN res.parts : Beginning(i)'
    <3>1. ASSUME NEW i \in DOMAIN res.parts, i # f PROVE Beginning(i)'
      BY <1>1, <1>3, <2>6, <3>1 DEF Beginning
    <3> QED
      BY <2>7, <3>1
  <2>9. SourceInv' /\ PartsInv'
    BY <1>1, <1>3, <2>6, <2>8 DEF BodyInv, SourceInv, PartsInv, diskVars
  <2>10. Owed(writer.todo)' = Owed(writer.todo) /\ f = First(writer.todo)'
    BY <1>1, <2>2 DEF Owed, Units, First
  <2>11. \A i \in DOMAIN res'.parts :
             IF i = f THEN Len(got'[i]) = writer'.n
             ELSE IF i \in writer'.todo THEN got'[i] = <<>> ELSE Complete(i)'
    BY <1>1, <1>3, <2>2, <2>4, <2>6 DEF Complete
  <2>12. left' = Owed(writer.todo) - writer'.n /\ writer'.n <= res'.parts[f].length
    BY <1>1, <2>2, <2>3, <2>4, <2>5 DEF Beginning
  <2>13. PipeInv'
    BY <1>1, <1>3, <2>2, <2>3, <2>10, <2>11, <2>12 DEF PipeInv
  <2> QED
    BY <1>1, <1>2, <2>9, <2>13 DEF BodyInv, AnswerAsDeclared
<1> QED
  BY <1>4, <1>5 DEF Transfer

\* The goroutine reads a byte of the open file, comes to the end of a part, or
\* breaks off.
LEMMA ReadBody == ASSUME TypeOK, BodyInv, WriterRead PROVE BodyInv'
<1>1. /\ writer.pc = "read" /\ res.multi /\ pc \in {"send", "done"}
      /\ UNCHANGED <<diskVars, pc, file, stat, res, got, left, spoiled>>
  BY DEF WriterRead, TypeOK, bodyVars
<1>2. InodeInv' /\ PartsInv' /\ SourceInv' /\ SingleInv' /\ AnswerAsDeclared'
  BY <1>1 DEF BodyInv, InodeInv, PartsInv, Beginning, SourceInv, SingleInv,
     AnswerAsDeclared, diskVars
<1>3. ASSUME pc = "send" PROVE PipeInv'
  <2> PICK f : f = First(writer.todo)
      OBVIOUS
  <2>1. /\ pipe = "open" /\ left = Owed(writer.todo) - writer.n
        /\ writer.n <= res.parts[f].length
        /\ \A i \in DOMAIN res.parts :
              IF i = f THEN Len(got[i]) = writer.n
              ELSE IF i \in writer.todo THEN got[i] = <<>> ELSE Complete(i)
    BY <1>1, <1>3 DEF BodyInv, PipeInv
  <2>2. /\ writer \in Writers /\ writer.todo \subseteq DOMAIN res.parts
        /\ DOMAIN res.parts \subseteq Nat /\ IsFiniteSet(DOMAIN res.parts)
        /\ writer.todo # {} /\ writer.n \in Nat
    BY <1>1, <1>3 DEF BodyInv, PipeInv, Writers
  <2>3. /\ f \in writer.todo /\ left > 0
        /\ Owed(writer.todo) = Owed(writer.todo \ {f}) + res.parts[f].length + 1
        /\ Owed(writer.todo \ {f}) \in Nat
    BY <1>1, <1>3, OwedMore
  <2>4. Beginning(f)
    BY <1>1, <1>3, <2>2, <2>3 DEF BodyInv, PartsInv, SourceInv
  <2> DEFINE pos == res.parts[f].start + writer.n
  <2>5. CASE writer.n = res.parts[f].length
    <3>1. UNCHANGED pipe /\ writer' = [NoWriter EXCEPT !.pc = "header",
                                                       !.todo = writer.todo \ {f}]
      <4>1. f = First(writer.todo) /\ WriterRead
        BY DEF WriterRead
      <4>2. ~(writer.n < res.parts[f].length)
        BY <2>2, <2>5
      <4> QED
        BY <2>5, <4>1, <4>2 DEF WriterRead
    <3>2. writer' = [pc |-> "header", n |-> 0, byte |-> [v |-> 0, pos |-> 0],
                     todo |-> writer.todo \ {f}]
      BY <3>1 DEF NoWriter
    <3>3. [v |-> 0, pos |-> 0] \in Bytes
      BY StaticAssumption DEF Bytes
    <3>4. /\ writer' \in Writers /\ writer'.pc = "header" /\ writer'.n = 0
          /\ writer'.todo = writer.todo \ {f}
      BY <2>2, <3>2, <3>3 DEF Writers
    <3>5. Owed(writer.todo)' = Owed(writer.todo \ {f})
      BY <1>1, <3>4 DEF Owed, Units
    <3>6. left' = Owed(writer.todo)' + 1
      BY <1>1, <2>1, <2>2, <2>3, <2>4, <2>5, <3>5 DEF Beginning
    <3>7. \A i \in DOMAIN res'.parts :
              IF i \in writer'.todo THEN got'[i] = <<>> ELSE Complete(i)'
      BY <1>1, <2>1, <2>5, <3>4 DEF Complete
    <3>8. pipe' = "open" /\ DOMAIN res'.parts = DOMAIN res.parts
          /\ writer'.todo \subseteq DOMAIN res'.parts
      BY <1>1, <2>1, <2>2, <3>1, <3>4
    <3> QED
      BY <2>2, <3>4, <3>6, <3>7, <3>8 DEF PipeInv
  <2>6. CASE writer.n < res.parts[f].length /\ AtEnd(pos)
    <3>1. writer' = NoWriter /\ pipe' = "error"
      BY <2>1, <2>6 DEF WriterRead
    <3>2. [v |-> 0, pos |-> 0] \in Bytes
      BY StaticAssumption DEF Bytes
    <3>3. writer' \in Writers /\ writer'.pc = "none" /\ writer'.todo = {}
      BY <3>1, <3>2 DEF NoWriter, Writers
    <3> QED
      BY <1>1, <2>2, <2>3, <3>1, <3>3 DEF PipeInv
  <2>7. CASE writer.n < res.parts[f].length /\ ~AtEnd(pos)
    <3>1. UNCHANGED pipe /\ writer' = [writer EXCEPT !.pc = "write", !.byte = ByteAt(pos)]
      BY <2>2, <2>4, <2>7 DEF WriterRead, Beginning
    <3>2. file \in Inodes /\ (spoiled \/ disk[file].v = res.v)
      BY <1>1, <1>3, StaticAssumption DEF BodyInv, SourceInv, TypeOK, Inodes
    <3>3. /\ pos \in Nat /\ ByteAt(pos) \in Bytes
          /\ ~spoiled => ByteAt(pos) = [v |-> res.v, pos |-> pos]
      BY <2>2, <2>4, <3>2 DEF ByteAt, Bytes, Beginning, TypeOK, Versions
    <3>4. writer = [pc |-> writer.pc, n |-> writer.n, byte |-> writer.byte,
                    todo |-> writer.todo]
      BY <2>2 DEF Writers
    <3> HIDE DEF pos
    <3>5. writer' = [pc |-> "write", n |-> writer.n, byte |-> ByteAt(pos),
                     todo |-> writer.todo]
      BY <3>1, <3>4
    <3>6. /\ writer' \in Writers /\ writer'.pc = "write" /\ writer'.n = writer.n
          /\ writer'.byte = ByteAt(pos) /\ writer'.todo = writer.todo
      BY <2>2, <3>3, <3>5 DEF Writers
    <3>7. Owed(writer.todo)' = Owed(writer.todo) /\ f = First(writer.todo)'
      BY <1>1, <3>6 DEF Owed, Units, First
    <3>8. \A i \in DOMAIN res'.parts :
              IF i = f THEN Len(got'[i]) = writer'.n
              ELSE IF i \in writer'.todo THEN got'[i] = <<>> ELSE Complete(i)'
      BY <1>1, <2>1, <3>6 DEF Complete
    <3>9. /\ left' = Owed(writer.todo)' - writer'.n
          /\ writer'.n < res'.parts[f].length /\ writer'.n <= res'.parts[f].length
          /\ ~spoiled' => writer'.byte =
                [v |-> res'.v, pos |-> res'.parts[f].start + writer'.n]
      BY <1>1, <2>1, <2>7, <3>3, <3>6, <3>7 DEF pos
    <3>10. /\ pipe' = "open" /\ DOMAIN res'.parts = DOMAIN res.parts
           /\ writer'.todo \subseteq DOMAIN res'.parts /\ writer'.todo # {}
      BY <1>1, <2>1, <2>2, <3>1, <3>6
    <3> QED
      BY <2>2, <3>6, <3>7, <3>8, <3>9, <3>10 DEF PipeInv
  <2> QED
    BY <2>1, <2>2, <2>4, <2>5, <2>6, <2>7 DEF Beginning
<1>4. ASSUME pc = "done" PROVE PipeInv'
  BY <1>1, <1>4 DEF PipeInv
<1> QED
  BY <1>1, <1>2, <1>3, <1>4 DEF BodyInv

\* A new version in some inode, which is the open file only if it is spoiled.
LEMMA DeployBody ==
    ASSUME TypeOK, BodyInv, NEW i \in Inodes, i <= Len(dates) + 1,
           Len(dates') = Len(dates) + 1,
           \A j \in Inodes : j # i => disk'[j] = disk[j],
           \A m \in Nodes : tree'[m] \in {0, i, tree[m]},
           spoiled \/ file = i => spoiled',
           UNCHANGED <<pc, file, stat, res, got, left, writer, pipe>>
    PROVE  BodyInv'
<1>1. Len(dates) \in Nat
  BY DEF TypeOK
<1>2. InodeInv'
  BY <1>1 DEF BodyInv, InodeInv, Inodes, TypeOK
<1>3. PartsInv'
  <2>1. ASSUME NEW j, Beginning(j) PROVE Beginning(j)'
    BY <2>1 DEF Beginning
  <2> QED
    BY <2>1 DEF BodyInv, PartsInv
<1>4. SourceInv'
  <2>1. pc \in {"opened", "index", "content", "list", "send"} => file \in Inodes
    BY StaticAssumption DEF TypeOK, Inodes
  <2> QED
    BY <2>1 DEF BodyInv, SourceInv
<1>5. SingleInv'
  BY DEF BodyInv, SingleInv
<1>6. PipeInv'
  <2>1. UNCHANGED <<Owed(writer.todo), First(writer.todo)>>
    BY DEF Owed, Units, First
  <2> QED
    BY <2>1 DEF BodyInv, PipeInv, Complete
<1>7. AnswerAsDeclared'
  BY DEF BodyInv, AnswerAsDeclared
<1> QED
  BY <1>2, <1>3, <1>4, <1>5, <1>6, <1>7 DEF BodyInv

\* A step of the client, or of the handler before it sends anything.
LEMMA BodyNext ==
    ASSUME TypeOK, Dated, ClientInv, BodyInv, [Next]_vars PROVE BodyInv'
<1> USE StaticAssumption
<1>1. CASE Client
  <2>1. PICK r : Ask(r)
    BY <1>1, ClientAsks
  <2>2. InodeInv'
    BY <2>1 DEF Ask, BodyInv, InodeInv, diskVars
  <2> QED
    BY <2>1, <2>2, BodyBefore DEF Ask
<1>2. CASE Receive
  <2>1. InodeInv'
    BY <1>2 DEF Receive, BodyInv, InodeInv, diskVars
  <2> QED
    BY <1>2, <2>1, BodyBefore DEF Receive
<1>3. CASE Open
  <2>1. CASE req.form = "index"
    BY <1>3, <2>1, BodyAnswer DEF Open
  <2>2. CASE req.form # "index"
    <3>1. /\ pc' \in {"opened", "plain"} /\ UNCHANGED diskVars
          /\ file' \in {0, tree["gz"]}
          /\ pc' = "opened" => stat' = disk[file']
      BY <1>3, <2>2 DEF Open
    <3>2. InodeInv'
      BY <3>1 DEF BodyInv, InodeInv, Nodes, diskVars, TypeOK
    <3> QED
      BY <3>1, <3>2, BodyBefore DEF diskVars
  <2> QED
    BY <2>1, <2>2
<1>3a. CASE TwinFails
  <2>1. CASE pc' = "plain"
    <3>1. UNCHANGED <<diskVars, file, stat>>
      BY <1>3a, <2>1 DEF TwinFails, Answer
    <3>2. InodeInv'
      BY <3>1 DEF BodyInv, InodeInv, diskVars
    <3> QED
      BY <2>1, <3>1, <3>2, BodyBefore DEF diskVars
  <2>2. CASE pc' # "plain"
    BY <1>3a, <2>2, BodyAnswer DEF TwinFails
  <2> QED
    BY <2>1, <2>2
<1>4. CASE OpenPlain
  <2>1. CASE pc' = "opened"
    <3>1. UNCHANGED diskVars /\ file' = tree["x"] /\ stat' = disk[file']
      BY <1>4, <2>1 DEF OpenPlain, Answer
    <3>2. InodeInv'
      BY <3>1 DEF BodyInv, InodeInv, Nodes, diskVars
    <3> QED
      BY <2>1, <3>1, <3>2, BodyBefore DEF diskVars
  <2>2. CASE pc' # "opened"
    BY <1>4, <2>2, BodyAnswer DEF OpenPlain
  <2> QED
    BY <2>1, <2>2
<1>5. CASE Opened
  <2>1. ASSUME NEW to, Answer(301, 0, to) PROVE BodyInv'
    BY <1>5, <2>1, BodyAnswer DEF Opened
  <2>2. ASSUME pc' \in {"index", "content"}, UNCHANGED <<file, res, bodyVars, pipeVars>>
        PROVE  BodyInv'
    <3>1. UNCHANGED <<diskVars, stat>> /\ pc = "opened"
      BY <1>5 DEF Opened
    <3>2. InodeInv' /\ (spoiled' \/ disk'[file'].v = stat'.v)
      BY <2>2, <3>1 DEF BodyInv, InodeInv, SourceInv, diskVars, bodyVars
    <3> QED
      BY <2>2, <3>2, BodyBefore
  <2> QED
    BY <1>5, <2>1, <2>2 DEF Opened
<1>6. CASE OpenIndex
  <2>1. InodeInv' /\ (spoiled' \/ disk'[file'].v = stat'.v)
    BY <1>6 DEF OpenIndex, BodyInv, InodeInv, SourceInv, diskVars, bodyVars, Nodes
  <2>2. pc' \in {"content", "list"}
    BY <1>6 DEF OpenIndex
  <2> QED
    BY <2>1, <2>2, BodyBefore
<1>7. CASE List
  BY <1>7, BodyAnswer DEF List
<1>8. CASE ServeContent
  <2>1. RangeReq(req, stat.mtime) \in Seq(Specs)
    BY DEF RangeReq, ClientInv
  <2> QED
    BY <1>8, <2>1, BodyAnswer, ServeBody DEF ServeContent
<1>9. CASE Send \/ Transfer
  BY <1>9, SendBody, TransferBody
<1>10. CASE Finish \/ Drop
  <2>1. /\ pc = "send" /\ pc' = "done" /\ file' = 0
        /\ UNCHANGED <<diskVars, res, got, left, spoiled>>
    BY <1>10 DEF Finish, Drop, Return, bodyVars
  <2> QED
    BY <2>1, BodyDone
<1>11. CASE WriterRead
  BY <1>11, ReadBody
<1>12. CASE WriterFails
  <2>1. /\ writer.pc \in {"header", "write"} /\ pipe = "closed"
        /\ UNCHANGED <<diskVars, pc, file, stat, res, got, left, spoiled>>
    BY <1>12 DEF WriterFails, bodyVars
  <2>2. pc = "done" /\ pc' = "done"
    BY <2>1 DEF TypeOK, BodyInv, PipeInv
  <2>3. InodeInv' /\ SourceInv' /\ SingleInv' /\ PipeInv'
    BY <2>1, <2>2 DEF BodyInv, InodeInv, SourceInv, SingleInv, PipeInv, diskVars
  <2>4. PartsInv'
    BY <2>1, <2>2 DEF BodyInv, PartsInv, Beginning
  <2>5. AnswerAsDeclared'
    BY <2>1, <2>2 DEF BodyInv, AnswerAsDeclared
  <2> QED
    BY <2>3, <2>4, <2>5 DEF BodyInv
<1>13. CASE RemoveTwin
  <2>1. UNCHANGED <<disk, dates, pc, file, stat, res, got, left, spoiled, writer, pipe>>
        /\ \A m \in Nodes : tree'[m] \in {0, tree[m]}
    BY <1>13 DEF RemoveTwin, bodyVars, pipeVars, TypeOK
  <2>2. InodeInv'
    BY <2>1 DEF BodyInv, InodeInv, TypeOK
  <2>3. UNCHANGED <<Owed(writer.todo), First(writer.todo)>>
    BY <2>1 DEF Owed, Units, First
  <2>4. PipeInv'
    BY <2>1, <2>3 DEF BodyInv, PipeInv, Complete
  <2> QED
    BY <2>1, <2>2, <2>4 DEF BodyInv, PartsInv, Beginning, SourceInv, SingleInv,
       AnswerAsDeclared
<1>14. ASSUME NEW n \in Nodes, Place(n) PROVE BodyInv'
  <2>1. /\ Len(dates) \in Nat /\ Len(dates) + 1 \in Inodes
        /\ UNCHANGED <<pc, file, stat, res, got, left, spoiled, writer, pipe>>
    BY <1>14 DEF Place, TypeOK, Inodes, bodyVars, pipeVars
  <2>2. /\ \A m \in Nodes : tree'[m] \in {0, Len(dates) + 1, tree[m]}
        /\ \A j \in Inodes : j # Len(dates) + 1 => disk'[j] = disk[j]
        /\ Len(dates') = Len(dates) + 1
    BY <1>14 DEF Place, TypeOK
  <2>3. file # Len(dates) + 1 /\ file <= Len(dates)
    BY <2>1 DEF BodyInv, InodeInv, TypeOK
  <2>4. file = Len(dates) + 1 => FALSE
    BY <2>1, <2>3
  <2> QED
    BY <2>1, <2>2, <2>4, DeployBody
<1>15. ASSUME NEW n \in Nodes, Overwrite(n) PROVE BodyInv'
  <2>1. /\ Len(dates) \in Nat /\ tree[n] \in Inodes /\ tree[n] <= Len(dates) + 1
        /\ UNCHANGED <<tree, pc, file, stat, res, got, left, writer, pipe>>
        /\ spoiled' = (spoiled \/ file = tree[n])
    BY <1>15 DEF Overwrite, TypeOK, Inodes, pipeVars, BodyInv, InodeInv
  <2>2. /\ \A j \in Inodes : j # tree[n] => disk'[j] = disk[j]
        /\ Len(dates') = Len(dates) + 1 /\ file <= Len(dates)
    BY <1>15 DEF Overwrite, TypeOK, BodyInv, InodeInv
  <2> QED
    BY <2>1, <2>2, DeployBody
<1>16. CASE UNCHANGED vars
  <2>1. UNCHANGED <<disk, tree, dates, pc, file, stat, res, got, left, spoiled, writer, pipe>>
    BY <1>16 DEF vars, diskVars, bodyVars, pipeVars
  <2>2. UNCHANGED <<Owed(writer.todo), First(writer.todo)>>
    BY <2>1 DEF Owed, Units, First
  <2>3. PipeInv'
    BY <2>1, <2>2 DEF BodyInv, PipeInv, Complete
  <2> QED
    BY <2>1, <2>3 DEF BodyInv, InodeInv, PartsInv, Beginning, SourceInv, SingleInv,
       AnswerAsDeclared
<1> QED
  BY <1>1, <1>2, <1>3, <1>3a, <1>4, <1>5, <1>6, <1>7, <1>8, <1>9, <1>10, <1>11,
     <1>12, <1>13, <1>14, <1>15, <1>16 DEF Next, Handler, Writer, Deploy

-----------------------------------------------------------------------------
(* The invariant of the copy.                                              *)

LEMMA CopyInit == Init => CopyInv
<1> SUFFICES ASSUME Init PROVE CopyInv
    OBVIOUS
<1>1. ClientInv
  <2>1. req = Bare("plain", <<>>) /\ copy = NoCopy /\ res = NoRes
        /\ gzip \in BOOLEAN /\ spoiled = FALSE
    BY DEF Init
  <2>3. req.form = "plain" /\ req.range = <<>> /\ req.resume = FALSE
    BY <2>1 DEF Bare
  <2>4. res.to = "plain"
    BY <2>1 DEF NoRes
  <2>5. req.range \in Seq(Specs) /\ {req.form, res.to} \subseteq Forms
    BY <2>3, <2>4 DEF Forms
  <2>6. copy \in Copies
    <3>1. <<>> \in Seq(Bytes)
      OBVIOUS
    <3> QED
      BY <2>1, <3>1, StaticAssumption DEF NoCopy, Copies, Forms, Times
  <2>7. gzip \in BOOLEAN /\ spoiled \in BOOLEAN /\ ~req.resume
    BY <2>1, <2>3
  <2> QED
    BY <2>5, <2>6, <2>7 DEF ClientInv
<1>2. SizeInv /\ FormInv /\ OrderInv /\ ServedInv
  BY DEF Init, SizeInv, FormInv, OrderInv, ServedInv, NoFile, NoCopy, Bare
<1>3. CopyPure
  BY DEF Init, CopyPure, NoCopy
<1> QED
  BY <1>1, <1>2, <1>3 DEF CopyInv

LEMMA SameDates == UNCHANGED dates => UNCHANGED <<Twins, Backward>>
BY DEF Twins, Backward

\* A copy that is left alone stays as pure as it was.
LEMMA CopyKept ==
    ASSUME CopyPure, UNCHANGED <<copy, gzip>>, Twins => Twins', Backward => Backward'
    PROVE  CopyPure'
BY DEF CopyPure

LEMMA SizeKept ==
    ASSUME SizeInv, UNCHANGED <<disk, copy>>, stat'.v = 0 \/ UNCHANGED stat
    PROVE  SizeInv'
BY DEF SizeInv

\* What was just opened has the size it is known by.
LEMMA SizeOpened ==
    ASSUME SizeInv, UNCHANGED <<disk, copy>>, NEW i \in Inodes, stat' = disk[i]
    PROVE  SizeInv'
BY DEF SizeInv

LEMMA CopyAsk ==
    ASSUME CopyInv, NEW r, Ask(r), r.range \in Seq(Specs), r.form \in Forms,
           r.resume => AsksRest'
    PROVE  CopyInv'
<1>1. /\ UNCHANGED <<diskVars, gzip, copy, stat, res>> /\ req' = r /\ pc' = "open"
      /\ spoiled' = FALSE
  BY DEF Ask
<1>2. ClientInv'
  BY <1>1 DEF CopyInv, ClientInv
<1>3. SizeInv' /\ CopyPure'
  BY <1>1, SizeKept, CopyKept, SameDates DEF CopyInv, diskVars
<1>4. FormInv' /\ OrderInv' /\ ServedInv'
  BY <1>1 DEF CopyInv, FormInv, OrderInv, ServedInv, Since, NodeOf, diskVars
<1> QED
  BY <1>2, <1>3, <1>4 DEF CopyInv

LEMMA CopyClient == ASSUME CopyInv, Client PROVE CopyInv'
<1>1. CASE Fetch
  <2>1. PICK r \in Fetches : Ask(r)
    BY <1>1 DEF Fetch
  <2>2. r.range \in Seq(Specs) /\ r.form \in Forms /\ r.resume = FALSE
    <3>1. r.range = <<>> \/ r.range \in RangeHeaders
      BY <2>1 DEF Fetches, Bare
    <3>2. r.form \in Forms /\ r.resume = FALSE
      BY <2>1 DEF Fetches, Bare, Forms
    <3>3. <<>> \in Seq(Specs)
      OBVIOUS
    <3> QED
      BY <3>1, <3>2, <3>3, StaticAssumption
  <2> QED
    BY <2>1, <2>2, CopyAsk
<1>2. CASE Revalidate
  <2>1. PICK tag : Ask([Bare(copy.form, <<>>) EXCEPT !.ims = copy.mtime, !.noneMatch = tag])
    BY <1>2 DEF Revalidate
  <2>2. copy.form \in Forms /\ <<>> \in Seq(Specs)
    BY DEF CopyInv, ClientInv, Copies
  <2>3. PICK r : /\ r = [Bare(copy.form, <<>>) EXCEPT !.ims = copy.mtime,
                                                       !.noneMatch = tag]
                 /\ Ask(r)
    BY <2>1
  <2>4. r.range = <<>> /\ r.form = copy.form /\ r.resume = FALSE
    BY <2>3 DEF Bare
  <2> QED
    BY <2>2, <2>3, <2>4, CopyAsk
<1>3. CASE Resume
  <2> DEFINE spec == [kind |-> "from", a |-> Len(copy.bytes), b |-> 0]
             rest == [Bare(copy.form, <<spec>>) EXCEPT !.resume = TRUE]
  <2>1. copy.mtime # 0 /\ Len(copy.bytes) < copy.total /\ UNCHANGED copy
    BY <1>3 DEF Resume, Ask
  <2>2. copy.form \in Forms /\ <<spec>> \in Seq(Specs)
    <3>1. Len(copy.bytes) \in Nat
      BY DEF CopyInv, ClientInv, Copies
    <3>2. spec \in Specs
      BY <3>1 DEF Specs
    <3> QED
      BY <3>2 DEF CopyInv, ClientInv, Copies
  <2>3. ASSUME NEW r, Ask(r), r.range = <<spec>>, r.form = copy.form,
               \/ r.ir = "date" /\ r.irDate = copy.mtime
               \/ r.ir = "tag"
               \/ r.ir = "none" /\ r.match = "none" /\ r.ius = copy.mtime
               \/ r.match = "tag"
        PROVE  CopyInv'
    <3>1. req' = r
      BY <2>3 DEF Ask
    <3>2. AsksRest'
      BY <2>1, <2>3, <3>1 DEF AsksRest
    <3> QED
      BY <2>2, <2>3, <3>2, CopyAsk
  <2>4. CASE Ask([rest EXCEPT !.ir = "date", !.irDate = copy.mtime])
    BY <2>3, <2>4 DEF Bare
  <2>5. CASE Ask([rest EXCEPT !.ir = "tag"])
    BY <2>3, <2>5 DEF Bare
  <2>6. CASE Ask([rest EXCEPT !.ius = copy.mtime])
    BY <2>3, <2>6 DEF Bare
  <2>7. CASE Ask([rest EXCEPT !.match = "tag"])
    BY <2>3, <2>7 DEF Bare
  <2> QED
    BY <1>3, <2>4, <2>5, <2>6, <2>7 DEF Resume
<1> QED
  BY <1>1, <1>2, <1>3 DEF Client

\* An answer without content.
LEMMA CopyAnswer ==
    ASSUME CopyInv, NEW status, status # 206, NEW v, NEW to \in Forms,
           Answer(status, v, to), UNCHANGED <<diskVars, clientVars>>,
           UNCHANGED stat
    PROVE  CopyInv'
<1>1. /\ UNCHANGED <<tree, disk, dates, gzip, copy, req, spoiled>> /\ pc' = "done"
      /\ res'.status = status /\ res'.parts = <<>> /\ res'.size = 0 /\ res'.to = to
  BY DEF Answer, diskVars, clientVars, bodyVars, NoRes
<1>2. ClientInv'
  BY <1>1 DEF CopyInv, ClientInv, AsksRest
<1>3. SizeInv' /\ CopyPure'
  BY <1>1, SizeKept, CopyKept, SameDates DEF CopyInv
<1>4. FormInv' /\ OrderInv' /\ ServedInv'
  BY <1>1 DEF CopyInv, FormInv, OrderInv, ServedInv, Since, NodeOf
<1> QED
  BY <1>2, <1>3, <1>4 DEF CopyInv

\* A step of the handler before it answers: what is left is the file it has open.
LEMMA CopyStep ==
    ASSUME CopyInv, UNCHANGED <<diskVars, clientVars, res, spoiled>>,
           SizeInv', FormInv', OrderInv',
           pc' \in {"plain", "opened", "index", "content", "list"}
    PROVE  CopyInv'
<1>1. ClientInv'
  BY DEF CopyInv, ClientInv, AsksRest, clientVars
<1>2. CopyPure'
  BY CopyKept, SameDates DEF CopyInv, diskVars, clientVars
<1> QED
  BY <1>1, <1>2 DEF CopyInv, ServedInv

\* A step that only sends, or ends sending.
LEMMA CopySend ==
    ASSUME CopyInv, UNCHANGED <<diskVars, clientVars, stat, res, spoiled>>,
           pc' = pc \/ (pc = "send" /\ pc' = "done")
    PROVE  CopyInv'
<1>1. ClientInv'
  BY DEF CopyInv, ClientInv, AsksRest, clientVars
<1>2. UNCHANGED <<Twins, Backward>>
  BY SameDates DEF diskVars
<1>3. SizeInv' /\ CopyPure'
  BY <1>2, SizeKept, CopyKept DEF CopyInv, diskVars, clientVars
<1>4. FormInv' /\ OrderInv'
  BY DEF CopyInv, FormInv, OrderInv, Since, NodeOf, diskVars, clientVars
<1>5. ServedInv'
  BY <1>2 DEF CopyInv, ServedInv, clientVars
<1> QED
  BY <1>1, <1>3, <1>4, <1>5 DEF CopyInv

\* What the client keeps of an answer: nothing, what it had, a new copy, or its
\* copy with the rest that it asked for.
LEMMA CopyReceive == ASSUME TypeOK, Dated, BodyInv, CopyInv, Receive PROVE CopyInv'
<1>1. /\ pc = "done" /\ copy' = Kept /\ UNCHANGED <<tree, disk, dates, gzip>>
      /\ stat'.v = 0 /\ res' = NoRes /\ spoiled' = FALSE /\ pc' \in {"open", "idle"}
      /\ req' = Bare(IF res.status = 301 THEN res.to ELSE "plain", <<>>)
  BY DEF Receive, diskVars, NoFile
<1>2. /\ req'.range = <<>> /\ req'.resume = FALSE /\ req'.form \in Forms
      /\ res'.to \in Forms /\ gzip \in BOOLEAN
  BY <1>1 DEF Bare, NoRes, CopyInv, ClientInv, Forms
<1>3. ASSUME copy' \in Copies PROVE ClientInv'
  <2>1. req'.range \in Seq(Specs)
    BY <1>2
  <2>2. {req'.form, res'.to} \subseteq Forms
    BY <1>2, <1>3
  <2> QED
    BY <1>1, <1>2, <1>3, <2>1, <2>2 DEF ClientInv
<1>4. FormInv' /\ ServedInv'
  BY <1>1 DEF FormInv, ServedInv
<1>5. UNCHANGED <<Twins, Backward>>
  BY <1>1, SameDates
<1>6. CASE UNCHANGED copy
  <2>1. SizeInv' /\ CopyPure'
    BY <1>1, <1>5, <1>6, SizeKept, CopyKept DEF CopyInv
  <2>2. OrderInv'
    BY <1>1, <1>2, <1>6 DEF CopyInv, OrderInv, Since, NodeOf
  <2>3. ClientInv'
    BY <1>3, <1>6 DEF CopyInv, ClientInv
  <2> QED
    BY <1>4, <2>1, <2>2, <2>3 DEF CopyInv
<1>7. CASE copy' = NoCopy
  <2>1. copy'.v = 0 /\ copy'.total = 0 /\ copy'.bytes = <<>> /\ copy'.form = "plain"
        /\ copy'.loose = FALSE /\ copy'.spoiled = FALSE
    BY <1>7 DEF NoCopy
  <2>2. SizeInv' /\ OrderInv' /\ CopyPure'
    BY <1>1, <1>2, <2>1 DEF CopyInv, SizeInv, OrderInv, CopyPure
  <2>3. copy' \in Copies
    <3>1. <<>> \in Seq(Bytes)
      OBVIOUS
    <3> QED
      BY <1>7, <3>1, StaticAssumption DEF NoCopy, Copies, Forms, Times
  <2>4. ClientInv'
    BY <1>3, <2>3
  <2> QED
    BY <1>4, <2>2, <2>4 DEF CopyInv
<1>8. CASE res.status = 200
  <2>1. /\ copy'.v = res.v /\ copy'.form = req.form /\ copy'.total = res.size
        /\ copy'.bytes = IF res.parts = <<>> THEN <<>> ELSE got[1]
        /\ copy'.loose = FALSE /\ copy'.spoiled = spoiled
    BY <1>1, <1>8 DEF Kept
  <2>2. stat.v # 0 /\ res.v = stat.v /\ stat.size \in Nat
    BY <1>1, <1>8 DEF Dated, TypeOK, Versions
  <2>3. \/ res.parts = <<>> /\ res.size = 0
        \/ /\ res.parts = [i \in {1} |-> [start |-> 0, length |-> stat.size]]
           /\ res.size = stat.size
    BY <1>1, <1>8 DEF CopyInv, ServedInv
  <2>4. /\ copy'.bytes \in Seq(Bytes) /\ Len(copy'.bytes) <= copy'.total
        /\ spoiled \/ \A i \in 1 .. Len(copy'.bytes) :
                         copy'.bytes[i] = [v |-> res.v, pos |-> i - 1]
    <3>1. CASE res.parts = <<>> /\ res.size = 0
      BY <2>1, <3>1
    <3>2. CASE /\ res.parts = [i \in {1} |-> [start |-> 0, length |-> stat.size]]
               /\ res.size = stat.size
      <4>1. 1 \in DOMAIN res.parts /\ res.parts[1].start = 0
            /\ res.parts[1].length = stat.size
        BY <3>2
      <4>2. Beginning(1) /\ res.parts # <<>>
        BY <1>1, <1>8, <4>1 DEF BodyInv, PartsInv
      <4>3. /\ got[1] \in Seq(Bytes) /\ Len(got[1]) <= stat.size
            /\ ~spoiled => \A k \in 1 .. Len(got[1]) :
                              got[1][k] = [v |-> res.v, pos |-> 0 + k - 1]
        BY <4>1, <4>2 DEF Beginning
      <4>4. \A k \in 1 .. Len(got[1]) : 0 + k - 1 = k - 1
        BY <4>3
      <4> QED
        BY <2>1, <3>2, <4>2, <4>3, <4>4
    <3> QED
      BY <2>3, <3>1, <3>2
  <2>5. SizeInv'
    BY <1>1, <2>1, <2>2, <2>3 DEF CopyInv, SizeInv
  <2>6. OrderInv'
    BY <1>1, <1>2, <1>8, <2>1, <2>2 DEF CopyInv, OrderInv, Since, NodeOf
  <2>7. CopyPure'
    BY <2>1, <2>4 DEF CopyPure
  <2>8. ClientInv'
    <3>1. PICK b : copy' = [v |-> res.v, form |-> req.form, mtime |-> stat.mtime,
                            total |-> res.size, bytes |-> b, loose |-> FALSE,
                            spoiled |-> spoiled]
      <4> DEFINE b == IF res.parts = <<>> THEN <<>> ELSE got[1]
      <4>1. Kept = [v |-> res.v, form |-> req.form, mtime |-> stat.mtime,
                    total |-> res.size, bytes |-> b, loose |-> FALSE,
                    spoiled |-> spoiled]
        BY <1>8 DEF Kept
      <4> HIDE DEF b
      <4> QED
        BY <1>1, <4>1
    <3>2. /\ res.v \in 0 .. MaxVersions /\ stat.mtime \in Times /\ res.size \in Nat
          /\ req.form \in Forms /\ spoiled \in BOOLEAN
      BY <2>2, <2>3 DEF CopyInv, ClientInv, TypeOK, Versions
    <3>3. copy' \in Copies
      <4>1. b \in Seq(Bytes)
        BY <2>4, <3>1
      <4> QED
        BY <3>1, <3>2, <4>1 DEF Copies
    <3> QED
      BY <1>3, <3>3
  <2> QED
    BY <1>4, <2>5, <2>6, <2>7, <2>8 DEF CopyInv
<1>9. CASE res.status = 206 /\ req.resume
  <2>1. /\ copy' = [copy EXCEPT !.bytes = @ \o got[1],
                                !.loose = @ \/ req.ius # None,
                                !.spoiled = @ \/ spoiled]
    BY <1>1, <1>9 DEF Kept
  <2>2. /\ AsksRest /\ res.v = stat.v /\ Len(copy.bytes) < stat.size
        /\ res.parts = [i \in {1} |-> [start  |-> Len(copy.bytes),
                                       length |-> stat.size - Len(copy.bytes)]]
        /\ \/ Twins \/ (req.ius # None /\ (Backward \/ gzip))
           \/ copy.v = stat.v
    BY <1>1, <1>9 DEF CopyInv, ClientInv, ServedInv
  <2>3. copy \in Copies
    BY DEF CopyInv, ClientInv
  <2>4. /\ copy'.v = copy.v /\ copy'.form = copy.form /\ copy'.total = copy.total
        /\ copy'.bytes = copy.bytes \o got[1]
        /\ copy'.loose = (copy.loose \/ req.ius # None)
        /\ copy'.spoiled = (copy.spoiled \/ spoiled)
    BY <2>1, <2>3 DEF Copies
  <2>5. copy.v # 0 /\ Len(copy.bytes) < copy.total /\ copy.bytes \in Seq(Bytes)
        /\ Len(copy.bytes) \in Nat
    BY <2>2, <2>3 DEF AsksRest, Dated, Copies
  <2>6. /\ got[1] \in Seq(Bytes) /\ Len(got[1]) <= stat.size - Len(copy.bytes)
        /\ ~spoiled => \A k \in 1 .. Len(got[1]) :
                          got[1][k] = [v |-> stat.v, pos |-> Len(copy.bytes) + k - 1]
    <3>1. 1 \in DOMAIN res.parts /\ res.parts[1].start = Len(copy.bytes)
          /\ res.parts[1].length = stat.size - Len(copy.bytes)
      BY <2>2
    <3>2. Beginning(1)
      BY <1>1, <1>9, <3>1 DEF BodyInv, PartsInv
    <3> QED
      BY <2>2, <3>1, <3>2 DEF Beginning
  <2>7. CopyPure'
    <3> SUFFICES ASSUME ~copy'.spoiled, ~Twins',
                        ~(copy'.loose /\ (Backward' \/ gzip'))
                 PROVE  /\ Len(copy'.bytes) <= copy'.total
                        /\ \A i \in DOMAIN copy'.bytes :
                              copy'.bytes[i] = [v |-> copy'.v, pos |-> i - 1]
        BY DEF CopyPure
    <3>1. ~copy.spoiled /\ ~spoiled /\ ~Twins /\ ~(copy.loose /\ (Backward \/ gzip))
          /\ copy.v = stat.v
      BY <1>1, <1>5, <2>2, <2>3, <2>4 DEF CopyInv, ClientInv, Copies
    <3>2. \A i \in 1 .. Len(copy.bytes) : copy.bytes[i] = [v |-> copy.v, pos |-> i - 1]
      <4>1. DOMAIN copy.bytes = 1 .. Len(copy.bytes)
        BY <2>5
      <4> QED
        BY <3>1, <4>1 DEF CopyInv, CopyPure
    <3>3. copy.total = stat.size
      BY <2>5, <3>1 DEF CopyInv, SizeInv
    <3>4. PICK m, n \in Nat : m = Len(copy.bytes) /\ n = Len(got[1])
      BY <2>5, <2>6
    <3>5. /\ Len(copy'.bytes) = m + n /\ DOMAIN copy'.bytes = 1 .. (m + n)
          /\ \A i \in 1 .. (m + n) : copy'.bytes[i] = IF i <= m THEN copy.bytes[i]
                                                                 ELSE got[1][i - m]
      <4> DEFINE b == copy.bytes
                 g == got[1]
      <4>1. b \in Seq(Bytes) /\ g \in Seq(Bytes) /\ copy'.bytes = b \o g
            /\ m = Len(b) /\ n = Len(g)
        BY <2>4, <2>5, <2>6, <3>4
      <4> HIDE DEF b, g
      <4>2. /\ Len(b \o g) = m + n /\ DOMAIN (b \o g) = 1 .. (m + n)
            /\ \A i \in 1 .. (m + n) : (b \o g)[i] = IF i <= m THEN b[i] ELSE g[i - m]
        BY <4>1
      <4> QED
        BY <4>1, <4>2 DEF b, g
    <3>6. ASSUME NEW i \in 1 .. (m + n)
          PROVE  copy'.bytes[i] = [v |-> copy'.v, pos |-> i - 1]
      <4>1. CASE i <= m
        BY <2>4, <3>2, <3>4, <3>5, <4>1
      <4>2. CASE i > m
        <5>1. i - m \in 1 .. n /\ m + (i - m) - 1 = i - 1
          BY <4>2
        <5>2. copy'.bytes[i] = got[1][i - m]
          BY <3>5, <4>2
        <5> QED
          BY <2>4, <2>6, <3>1, <3>4, <5>1, <5>2
      <4> QED
        BY <4>1, <4>2
    <3>7. m + n <= copy'.total
      <4>1. stat.size \in Nat
        BY DEF TypeOK, Versions
      <4>2. n <= stat.size - m
        BY <2>6, <3>4
      <4>3. copy'.total = stat.size
        BY <2>4, <3>3
      <4> QED
        BY <4>1, <4>2, <4>3
    <3> QED
      BY <3>5, <3>6, <3>7
  <2>8. SizeInv' /\ OrderInv'
    BY <1>1, <1>2, <2>4 DEF CopyInv, SizeInv, OrderInv, Since, NodeOf
  <2>9. copy'.bytes \in Seq(Bytes)
    BY <2>4, <2>5, <2>6
  <2>10. ClientInv'
    <3>1. copy' = [v |-> copy.v, form |-> copy.form, mtime |-> copy.mtime,
                   total |-> copy.total, bytes |-> copy'.bytes,
                   loose |-> copy'.loose, spoiled |-> copy'.spoiled]
      BY <2>1, <2>3 DEF Copies
    <3>2. copy'.loose \in BOOLEAN /\ copy'.spoiled \in BOOLEAN
      BY <2>4
    <3>3. copy' \in Copies
      BY <2>3, <2>9, <3>1, <3>2 DEF Copies
    <3> QED
      BY <1>3, <3>3
  <2> QED
    BY <1>4, <2>7, <2>8, <2>10 DEF CopyInv
<1> QED
  BY <1>1, <1>6, <1>7, <1>8, <1>9 DEF Kept

\* A resumed copy goes on with the version it began with: the header says which
\* date that had, or a tag that no version has.
LEMMA SameVersion ==
    ASSUME TypeOK, Dated, CopyInv, pc = "content", req.resume,
           CheckPreconditions(req, stat.mtime) = 200,
           RangeReq(req, stat.mtime) # <<>>
    PROVE  \/ Twins \/ (req.ius # None /\ (Backward \/ gzip))
           \/ copy.v = stat.v
<1> SUFFICES ASSUME ~Twins, req.ius # None => ~Backward /\ ~gzip
             PROVE  copy.v = stat.v
    BY DEF CopyInv, ClientInv
<1>1. AsksRest /\ copy.v # 0 /\ stat.v # 0
  BY DEF CopyInv, ClientInv, AsksRest, Dated, TypeOK
<1>2. /\ stat.v \in DOMAIN dates /\ copy.v \in DOMAIN dates
      /\ stat.mtime = dates[stat.v] /\ copy.mtime = dates[copy.v]
  BY <1>1 DEF Dated, Stamped
<1>3. DOMAIN dates \subseteq Nat /\ \A i \in DOMAIN dates : dates[i] \in Nat
  <2>1. dates \in Seq(Times)
    BY DEF TypeOK
  <2> QED
    BY <2>1, StaticAssumption DEF Times
<1>4. IfRange(req, stat.mtime) # "false" /\ req.match # "tag"
  BY DEF RangeReq, CheckPreconditions, IfMatch
<1>5. CASE req.ir = "date" /\ req.irDate = copy.mtime
  <2>1. stat.mtime = copy.mtime
    BY <1>4, <1>5 DEF IfRange
  <2>2. stat.v \in Nat /\ copy.v \in Nat /\ dates[stat.v] = dates[copy.v]
    BY <1>2, <1>3, <2>1
  <2>3. ~(stat.v < copy.v) /\ ~(copy.v < stat.v)
    BY <1>2, <2>2 DEF Twins
  <2> QED
    BY <2>2, <2>3
<1>6. CASE req.ir = "none" /\ req.match = "none" /\ req.ius = copy.mtime
  <2>1. req.ius # None
    BY <1>2, <1>3, <1>6 DEF None
  <2>2. IfUnmodifiedSince(req, stat.mtime) # "false"
    BY <1>6 DEF CheckPreconditions, IfMatch
  <2>3. stat.mtime <= copy.mtime
    BY <1>2, <1>3, <1>6, <2>1, <2>2 DEF IfUnmodifiedSince, IsZeroTime
  <2>4. copy.v <= stat.v
    BY <2>1 DEF CopyInv, OrderInv, ClientInv
  <2> QED
    BY <1>2, <1>3, <2>1, <2>3, <2>4 DEF Backward, Twins
<1>7. CASE req.ir = "tag"
  BY <1>4, <1>7 DEF IfRange
<1> QED
  BY <1>1, <1>4, <1>5, <1>6, <1>7 DEF AsksRest

LEMMA CopyServe ==
    ASSUME TypeOK, Dated, CopyInv, pc = "content", UNCHANGED <<diskVars, clientVars, stat>>,
           CheckPreconditions(req, stat.mtime) = 200,
           NEW header, header = RangeReq(req, stat.mtime),
           ~ParseFails(header, stat.size), Serve(header)
    PROVE  CopyInv'
<1>1. /\ UNCHANGED <<tree, disk, dates, gzip, copy, req, stat, spoiled>> /\ pc' = "send"
      /\ res'.status = IF Whole(header, stat.size) THEN 200 ELSE 206
      /\ res'.v = stat.v /\ res'.size = stat.size /\ res'.to = "plain"
      /\ res'.parts = Parts(header, stat.size)
  BY DEF Serve, diskVars, clientVars
<1>2. ClientInv'
  BY <1>1 DEF CopyInv, ClientInv, AsksRest, Forms
<1>3. SizeInv' /\ CopyPure'
  BY <1>1, SizeKept, CopyKept, SameDates DEF CopyInv
<1>4. FormInv' /\ OrderInv'
  BY <1>1 DEF CopyInv, FormInv, OrderInv, Since, NodeOf
<1>5. ASSUME res'.status = 206, req.resume
      PROVE  /\ Len(copy.bytes) < stat.size
             /\ res'.parts = [i \in {1} |-> [start  |-> Len(copy.bytes),
                                             length |-> stat.size - Len(copy.bytes)]]
             /\ \/ Twins \/ (req.ius # None /\ (Backward \/ gzip))
                \/ copy.v = stat.v
  <2> DEFINE spec == [kind |-> "from", a |-> Len(copy.bytes), b |-> 0]
  <2>1. ~Whole(header, stat.size) /\ Hits(header, stat.size) # {}
    BY <1>1, <1>5 DEF Whole, ParseRange
  <2>2. header # <<>>
    BY <2>1 DEF Hits
  <2>3. header = <<spec>>
    BY <1>5, <2>2 DEF RangeReq, CopyInv, ClientInv, AsksRest
  <2>4. DOMAIN header = {1} /\ header[1] = spec
    BY <2>3
  <2>5. Hits(header, stat.size) = {1} /\ ~Misses(spec, stat.size)
    BY <2>1, <2>4 DEF Hits
  <2>6. Len(copy.bytes) < stat.size
    BY <2>5 DEF Misses, CopyInv, ClientInv, Copies, TypeOK, Versions
  <2>7. res'.parts = [i \in {1} |-> RangeOf(spec, stat.size)]
    <3>1. res'.parts = [i \in Hits(header, stat.size) |-> RangeOf(header[i], stat.size)]
      BY <1>1, <2>1 DEF Parts, ParseRange
    <3>2. \A i \in {1} : RangeOf(header[i], stat.size) = RangeOf(spec, stat.size)
      BY <2>4
    <3> QED
      BY <2>5, <3>1, <3>2
  <2>8. RangeOf(spec, stat.size) = [start |-> Len(copy.bytes),
                                    length |-> stat.size - Len(copy.bytes)]
    BY DEF RangeOf
  <2> QED
    BY <1>5, <2>2, <2>6, <2>7, <2>8, SameVersion
<1>6. res'.status = 200 =>
          res'.parts = [i \in {1} |-> [start |-> 0, length |-> stat.size]]
  BY <1>1 DEF Parts
<1>7. ServedInv'
  BY <1>1, <1>5, <1>6, SameDates DEF ServedInv
<1> QED
  BY <1>2, <1>3, <1>4, <1>7 DEF CopyInv

\* A new version in some inode, newer than all that anybody has.
LEMMA CopyDeploy ==
    ASSUME TypeOK, Dated, CopyInv, NEW i \in Inodes, NEW dir, NEW size, NEW t \in Times,
           disk' = [disk EXCEPT ![i] = Version(dir, size, t)],
           dates' = Append(dates, t),
           \A m \in Nodes : tree'[m] \in {0, i, tree[m]},
           UNCHANGED <<clientVars, pc, stat, res>>, spoiled' \in BOOLEAN
    PROVE  CopyInv'
<1>1. /\ (Twins => Twins') /\ (Backward => Backward')
  BY Deployed
<1>2. Len(dates) \in Nat /\ DOMAIN dates = 1 .. Len(dates)
  BY DEF TypeOK
<1>3. /\ disk'[i].v = Len(dates) + 1
      /\ \A j \in Inodes : j # i => disk'[j] = disk[j]
  BY DEF TypeOK, Version
<1>4. /\ stat.v \in 0 .. Len(dates) /\ copy.v \in 0 .. Len(dates)
      /\ \A j \in Inodes : disk[j].v \in 0 .. Len(dates)
  BY <1>2 DEF Dated, Stamped, TypeOK, Versions
<1>5. ClientInv'
  BY DEF CopyInv, ClientInv, AsksRest, clientVars
<1>6. SizeInv'
  BY <1>2, <1>3, <1>4 DEF CopyInv, SizeInv, clientVars
<1>7. ASSUME NEW v \in 0 .. Len(dates), NEW n \in Nodes, Since(v, n) PROVE Since(v, n)'
  <2> SUFFICES ASSUME tree'[n] # 0 PROVE v <= disk'[tree'[n]].v
      BY DEF Since
  <2>1. tree[n] # 0 => tree[n] \in Inodes /\ v <= disk[tree[n]].v
    BY <1>7, StaticAssumption DEF TypeOK, Inodes, Since
  <2> QED
    BY <1>2, <1>3, <2>1
<1>8. OrderInv'
  <2>1. "x" \in Nodes /\ NodeOf(req.form) \in Nodes /\ NodeOf(copy.form) \in Nodes
    BY DEF Nodes, NodeOf
  <2>2. UNCHANGED <<NodeOf(req.form), NodeOf(copy.form)>>
    BY DEF NodeOf, clientVars
  <2>3. /\ Since(stat.v, "x") => Since(stat.v, "x")'
        /\ Since(stat.v, NodeOf(req.form)) => Since(stat.v, NodeOf(req.form))'
        /\ Since(copy.v, NodeOf(copy.form)) => Since(copy.v, NodeOf(copy.form))'
    BY <1>4, <1>7, <2>1, <2>2 DEF Since, clientVars
  <2> QED
    BY <2>3 DEF CopyInv, OrderInv, clientVars
<1>9. FormInv' /\ CopyPure'
  BY <1>1, CopyKept DEF CopyInv, FormInv, clientVars
<1>10. ServedInv'
  BY <1>1 DEF CopyInv, ServedInv, clientVars
<1> QED
  BY <1>5, <1>6, <1>8, <1>9, <1>10 DEF CopyInv

LEMMA CopyNext == ASSUME TypeOK, Dated, BodyInv, CopyInv, [Next]_vars PROVE CopyInv'
<1> USE StaticAssumption
<1>1. CASE Client
  BY <1>1, CopyClient
<1>2. CASE Receive
  BY <1>2, CopyReceive
<1>3. CASE Open
  <2>1. CASE req.form = "index"
    BY <1>3, <2>1, CopyAnswer DEF Open, Forms
  <2>2. CASE req.form # "index"
    <3>1. UNCHANGED <<diskVars, clientVars, res, spoiled>> /\ gzip \in BOOLEAN
      BY <1>3, <2>2 DEF Open, bodyVars, CopyInv, ClientInv
    <3>2. CASE gzip /\ tree["gz"] # 0
      <4>1. pc' = "opened" /\ tree["gz"] \in Inodes /\ stat' = disk[tree["gz"]]
        BY <1>3, <2>2, <3>2 DEF Open, TypeOK, Nodes, Inodes
      <4>2. SizeInv'
        BY <3>1, <4>1, SizeOpened DEF CopyInv, diskVars, clientVars
      <4>3. FormInv' /\ OrderInv'
        BY <2>2, <3>1, <3>2, <4>1 DEF FormInv, OrderInv, clientVars
      <4> QED
        BY <3>1, <4>1, <4>2, <4>3, CopyStep
    <3>3. CASE ~(gzip /\ tree["gz"] # 0)
      <4>1. pc' = "plain" /\ stat' = NoFile
        BY <1>3, <2>2, <3>3 DEF Open
      <4>2. SizeInv'
        BY <3>1, <4>1, SizeKept DEF CopyInv, diskVars, clientVars, NoFile
      <4>3. FormInv' /\ OrderInv'
        BY <2>2, <3>1, <4>1 DEF CopyInv, FormInv, OrderInv, Since, NodeOf, diskVars,
           clientVars
      <4> QED
        BY <3>1, <4>1, <4>2, <4>3, CopyStep
    <3> QED
      BY <3>2, <3>3
  <2> QED
    BY <2>1, <2>2
<1>3a. CASE TwinFails
  <2>1. CASE pc' = "plain"
    <3>1. /\ UNCHANGED <<diskVars, clientVars, stat, res, spoiled>>
          /\ gzip /\ req.form # "index"
      BY <1>3a, <2>1 DEF TwinFails, Answer, bodyVars
    <3>2. SizeInv'
      BY <3>1, SizeKept DEF CopyInv, diskVars, clientVars
    <3>3. FormInv' /\ OrderInv'
      BY <2>1, <3>1 DEF CopyInv, FormInv, OrderInv, Since, NodeOf, diskVars, clientVars
    <3> QED
      BY <2>1, <3>1, <3>2, <3>3, CopyStep
  <2>2. CASE pc' # "plain"
    BY <1>3a, <2>2, CopyAnswer DEF TwinFails, Forms
  <2> QED
    BY <2>1, <2>2
<1>4. CASE OpenPlain
  <2>1. CASE pc' = "opened"
    <3>1. /\ pc = "plain" /\ UNCHANGED <<diskVars, clientVars, res, spoiled>>
          /\ tree["x"] \in Inodes /\ stat' = disk[tree["x"]]
      BY <1>4, <2>1 DEF OpenPlain, Answer, bodyVars, TypeOK, Nodes, Inodes
    <3>2. SizeInv'
      BY <3>1, SizeOpened DEF CopyInv, diskVars, clientVars
    <3>3. FormInv'
      BY <2>1, <3>1 DEF CopyInv, FormInv, clientVars
    <3>4. Since(stat.v, "x")'
      BY <3>1 DEF Since, TypeOK, Versions, diskVars
    <3>5. req.resume /\ req.form = "plain" /\ ~gzip => copy.v <= stat'.v
      BY <3>1 DEF CopyInv, ClientInv, AsksRest, Copies, OrderInv, Since, NodeOf, Inodes
    <3>6. OrderInv'
      BY <2>1, <3>1, <3>4, <3>5 DEF CopyInv, OrderInv, Since, NodeOf, diskVars, clientVars
    <3> QED
      BY <2>1, <3>1, <3>2, <3>3, <3>6, CopyStep
  <2>2. CASE pc' # "opened"
    BY <1>4, <2>2, CopyAnswer DEF OpenPlain, Forms
  <2> QED
    BY <2>1, <2>2
<1>5. CASE Opened
  <2>1. ASSUME NEW to \in Forms, Answer(301, 0, to) PROVE CopyInv'
    BY <1>5, <2>1, CopyAnswer DEF Opened
  <2>2. ASSUME ~(stat.dir /\ req.form # "slash"), ~(~stat.dir /\ req.form = "slash"),
               pc' = (IF stat.dir THEN "index" ELSE "content"),
               UNCHANGED <<file, res, bodyVars, pipeVars>>
        PROVE  CopyInv'
    <3>1. UNCHANGED <<diskVars, clientVars, stat, res, spoiled>> /\ pc = "opened"
      BY <1>5, <2>2 DEF Opened, bodyVars
    <3>2. SizeInv'
      BY <3>1, SizeKept DEF CopyInv, diskVars, clientVars
    <3>3. FormInv' /\ OrderInv'
      BY <2>2, <3>1 DEF CopyInv, ClientInv, Forms, FormInv, OrderInv, Since, NodeOf,
         diskVars, clientVars
    <3> QED
      BY <2>2, <3>1, <3>2, <3>3, CopyStep
  <2>3. {"slash", "plain"} \subseteq Forms
    BY DEF Forms
  <2> QED
    BY <1>5, <2>1, <2>2, <2>3 DEF Opened
<1>6. CASE OpenIndex
  <2>1. UNCHANGED <<diskVars, clientVars, res, spoiled>> /\ pc = "index"
    BY <1>6 DEF OpenIndex, bodyVars
  <2>2. req.form = "slash"
    BY <2>1 DEF CopyInv, FormInv
  <2>3. CASE pc' = "content"
    <3>1. tree["index"] # 0 /\ tree["index"] \in Inodes /\ stat' = disk[tree["index"]]
      BY <1>6, <2>3 DEF OpenIndex, TypeOK, Nodes, Inodes
    <3>2. SizeInv'
      BY <2>1, <3>1, SizeOpened DEF CopyInv, diskVars, clientVars
    <3>3. Since(stat.v, "index")'
      BY <2>1, <3>1 DEF Since, TypeOK, Versions, diskVars
    <3>4. req.resume /\ ~gzip => copy.v <= stat'.v
      BY <2>2, <3>1 DEF CopyInv, ClientInv, AsksRest, Copies, OrderInv, Since, NodeOf,
         Inodes
    <3>5. FormInv' /\ OrderInv'
      BY <2>1, <2>2, <2>3, <3>1, <3>3, <3>4 DEF CopyInv, FormInv, OrderInv, Since, NodeOf,
         diskVars, clientVars
    <3> QED
      BY <2>1, <2>3, <3>1, <3>2, <3>5, CopyStep
  <2>4. CASE pc' = "list"
    <3>1. UNCHANGED stat
      BY <1>6, <2>4 DEF OpenIndex
    <3>2. SizeInv'
      BY <2>1, <3>1, SizeKept DEF CopyInv, diskVars, clientVars
    <3>3. FormInv' /\ OrderInv'
      BY <2>1, <2>2, <2>4, <3>1 DEF CopyInv, FormInv, OrderInv, Since, NodeOf, diskVars,
         clientVars
    <3> QED
      BY <2>1, <2>4, <3>1, <3>2, <3>3, CopyStep
  <2> QED
    BY <1>6, <2>3, <2>4 DEF OpenIndex
<1>7. CASE List
  BY <1>7, CopyAnswer DEF List, Forms
<1>8. CASE ServeContent
  <2>1. /\ pc = "content" /\ UNCHANGED <<diskVars, clientVars, stat>>
    BY <1>8 DEF ServeContent
  <2>2. CheckPreconditions(req, stat.mtime) \in {200, 304, 412} /\ "plain" \in Forms
    BY DEF CheckPreconditions, Forms
  <2>3. ASSUME NEW status \in {304, 412, 416}, Answer(status, stat.v, "plain")
        PROVE  CopyInv'
    BY <2>1, <2>2, <2>3, CopyAnswer
  <2> QED
    BY <1>8, <2>1, <2>2, <2>3, CopyServe DEF ServeContent
<1>9. CASE Send \/ Transfer \/ Finish \/ Drop \/ WriterRead \/ WriterFails
  <2>1. UNCHANGED <<diskVars, clientVars, stat, res, spoiled>>
    BY <1>9 DEF Send, Transfer, Finish, Drop, WriterRead, WriterFails, bodyVars
  <2>2. pc' = pc \/ (pc = "send" /\ pc' = "done")
    BY <1>9 DEF Send, Transfer, Finish, Drop, WriterRead, WriterFails, Return
  <2> QED
    BY <2>1, <2>2, CopySend
<1>10. CASE RemoveTwin
  <2>1. /\ UNCHANGED <<disk, dates, clientVars, pc, stat, res, spoiled>>
        /\ tree'["x"] = tree["x"] /\ tree'["index"] = tree["index"]
    BY <1>10 DEF RemoveTwin, bodyVars, TypeOK, Nodes
  <2>2. ClientInv'
    BY <2>1 DEF CopyInv, ClientInv, AsksRest, clientVars
  <2>3. UNCHANGED <<Twins, Backward>>
    BY <2>1, SameDates
  <2>4. SizeInv' /\ CopyPure'
    BY <2>1, <2>3, SizeKept, CopyKept DEF CopyInv, clientVars
  <2>5. FormInv' /\ OrderInv'
    BY <2>1 DEF CopyInv, FormInv, OrderInv, Since, NodeOf, clientVars
  <2>6. ServedInv'
    BY <2>1, <2>3 DEF CopyInv, ServedInv, clientVars
  <2> QED
    BY <2>2, <2>4, <2>5, <2>6 DEF CopyInv
<1>11. ASSUME NEW n \in Nodes, Place(n) PROVE CopyInv'
  <2>1. Len(dates) + 1 \in Inodes
    BY <1>11 DEF Place, TypeOK, Inodes
  <2>2. \A m \in Nodes : tree'[m] \in {0, Len(dates) + 1, tree[m]}
    BY <1>11 DEF Place
  <2>3. PICK dir \in BOOLEAN, size \in Sizes, t \in Times :
           /\ disk' = [disk EXCEPT ![Len(dates) + 1] = Version(dir, size, t)]
           /\ dates' = Append(dates, t)
    BY <1>11 DEF Place
  <2>4. UNCHANGED <<clientVars, pc, stat, res>> /\ spoiled' \in BOOLEAN
    BY <1>11 DEF Place, bodyVars, CopyInv, ClientInv
  <2> QED
    BY <2>1, <2>2, <2>3, <2>4, CopyDeploy
<1>12. ASSUME NEW n \in Nodes, Overwrite(n) PROVE CopyInv'
  <2>1. tree[n] \in Inodes
    BY <1>12 DEF Overwrite, TypeOK, Inodes
  <2>2. PICK size \in Sizes, t \in Times :
           /\ disk' = [disk EXCEPT ![tree[n]] = Version(FALSE, size, t)]
           /\ dates' = Append(dates, t)
    BY <1>12 DEF Overwrite
  <2>3. /\ UNCHANGED <<clientVars, pc, stat, res>> /\ spoiled' \in BOOLEAN
        /\ \A m \in Nodes : tree'[m] \in {0, tree[n], tree[m]}
    BY <1>12 DEF Overwrite
  <2> QED
    BY <2>1, <2>2, <2>3, CopyDeploy
<1>13. CASE UNCHANGED vars
  <2>1. UNCHANGED <<diskVars, clientVars, stat, res, spoiled, pc>>
    BY <1>13 DEF vars, bodyVars
  <2> QED
    BY <2>1, CopySend
<1> QED
  BY <1>1, <1>2, <1>3, <1>3a, <1>4, <1>5, <1>6, <1>7, <1>8, <1>9, <1>10, <1>11,
     <1>12, <1>13 DEF Next, Handler, Writer, Deploy

LEMMA BodyAndCopy == Spec => [](BodyInv /\ CopyInv)
<1>1. Init => TypeOK /\ Dated /\ BodyInv /\ CopyInv
  BY TypeInit, DatedInit, BodyInit, CopyInit
<1>2. TypeOK /\ Dated /\ BodyInv /\ CopyInv /\ [Next]_vars
          => (TypeOK /\ Dated /\ BodyInv /\ CopyInv)'
  <2>1. CopyInv => ClientInv
    BY DEF CopyInv
  <2> QED
    BY <2>1, TypeNext, DatedNext, BodyNext, CopyNext
<1> QED
  BY <1>1, <1>2, PTL DEF Spec

\* The ranges a header declares are inside the file, and a body that was sent to
\* its end is exactly these, of one version: also when a goroutine writes it while
\* files are replaced.
THEOREM AnswersAreWhole == Spec => []AnswerAsDeclared
<1>1. BodyInv => AnswerAsDeclared
  BY DEF BodyInv
<1> QED
  BY <1>1, BodyAndCopy, PTL

\* A copy is of one version, in order, without a hole, however many requests it
\* was put together from and whatever was deployed between them.
THEOREM CopiesArePure == Spec => []CopyPure
<1>1. CopyInv => CopyPure
  BY DEF CopyInv
<1> QED
  BY <1>1, BodyAndCopy, PTL
=============================================================================
