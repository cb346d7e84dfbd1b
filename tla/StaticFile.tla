----------------------------- MODULE StaticFile -----------------------------
(***************************************************************************)
(* The static file handler (web/HttpFs.go, registered by LoadStaticFs),    *)
(* one client that keeps a copy of what it was sent, and a disk on which   *)
(* files are deployed meanwhile.                                           *)
(*                                                                         *)
(* The path "x" is a file or a directory; it may have a compressed twin    *)
(* "x.gz" and, as a directory, a page "x/index.html".  Its URL has three   *)
(* forms: "plain" (/x), "slash" (/x/) and "index" (/x/index.html).  Every  *)
(* content a file ever had is a version with a number of its own, and a    *)
(* byte is a version and a position in it.                                 *)
(*                                                                         *)
(* GET is the only method: LoadStaticFs registers no other.                *)
(***************************************************************************)
EXTENDS Integers, Sequences, FiniteSets

CONSTANTS
    Sizes,         \* bound: the sizes of files
    RangeHeaders,  \* bound: the Range headers asked with, sequences of specs
    MaxVersions,   \* bound: how many versions are ever deployed
    MaxTime        \* bound: the modification times, in seconds

\* A spec of a Range header is "from" a byte to the end, a "span" of bytes, a
\* "suffix" of so many bytes, or "bad" (not a range).
Specs == [kind : {"from", "span", "suffix", "bad"}, a : Nat, b : Nat]

ASSUME StaticAssumption ==
    /\ Sizes \subseteq Nat /\ MaxVersions \in Nat /\ MaxTime \in Nat
    /\ RangeHeaders \subseteq Seq(Specs)

VARIABLES
    tree,     \* what a node names: an inode, or 0
    disk,     \* the version in each inode
    dates,    \* the modification time of every version so far
    gzip,     \* the client accepts gzip
    copy,     \* the client's copy
    req,      \* the request being answered
    pc,       \* where its handler is
    file,     \* the open file `f` of the handler, an inode or 0
    stat,     \* what Stat said of it, `d`
    res,      \* the response header, and where the body is to come from
    got,      \* the bytes of each part that were sent
    left,     \* what io.CopyN has still to send
    spoiled,  \* ghost: the open file was overwritten meanwhile
    writer,   \* the goroutine that writes a multipart body
    pipe      \* its io.Pipe: "open", "closed" by the handler, or "error"

diskVars   == <<tree, disk, dates>>
clientVars == <<gzip, copy, req>>
bodyVars   == <<got, left, spoiled>>
pipeVars   == <<writer, pipe>>
vars == <<diskVars, clientVars, pc, file, stat, res, bodyVars, pipeVars>>

Nodes  == {"x", "gz", "index"}
Inodes == 1 .. MaxVersions
Times  == 0 .. MaxTime
None   == -1
NoFile == [v |-> 0, dir |-> FALSE, size |-> 0, mtime |-> 0]

-----------------------------------------------------------------------------
(* Byte ranges.                                                            *)

Misses(s, size) == s.kind \in {"from", "span"} /\ s.a >= size

\* Mutant of RangeOf: the last byte of a range may be the one after the end.
RangeOfPastEnd(s, size) ==
    CASE s.kind = "suffix" -> LET n == IF s.a > size THEN size ELSE s.a
                              IN  [start |-> size - n, length |-> n]
      [] s.kind = "from"   -> [start |-> s.a, length |-> size - s.a]
      [] OTHER             -> LET e == IF s.b > size THEN size ELSE s.b
                              IN  [start |-> s.a, length |-> e - s.a + 1]

\* The range a spec stands for in a file of this size.
RangeOf(s, size) ==
    CASE s.kind = "suffix" -> LET n == IF s.a > size THEN size ELSE s.a
                              IN  [start |-> size - n, length |-> n]
      [] s.kind = "from"   -> [start |-> s.a, length |-> size - s.a]
      [] OTHER             -> LET e == IF s.b >= size THEN size - 1 ELSE s.b
                              IN  [start |-> s.a, length |-> e - s.a + 1]

\* The end of a span is looked at only when its start is inside the file.
Invalid(s, size) == s.kind = "bad" \/ (s.kind = "span" /\ s.a < size /\ s.b < s.a)

Hits(header, size) == {i \in DOMAIN header : ~Misses(header[i], size)}

\* parseRange: the ranges by their position in the header.
ParseRange(header, size) ==
    [i \in Hits(header, size) |-> RangeOf(header[i], size)]

ParseFails(header, size) ==
    \/ \E i \in DOMAIN header : Invalid(header[i], size)
    \/ header # <<>> /\ Hits(header, size) = {}

\* The bytes of all ranges, each counted as often as it is asked for.
SumRangesSize(ranges) ==
    Cardinality(UNION {{i} \X (1 .. ranges[i].length) : i \in DOMAIN ranges})

\* One unit for the header of each part, and one for the end.
RangesMIMESize(ranges) == SumRangesSize(ranges) + Cardinality(DOMAIN ranges) + 1

-----------------------------------------------------------------------------
(* Preconditions.  No handler sets an Etag, so a tag the client got from   *)
(* elsewhere matches nothing.  A request carries dates or None, and "tag", *)
(* "any" (a star) or "none" for its conditions on tags.                    *)

IsZeroTime(t) == t = 0

IfMatch(r) == CASE r.match = "any" -> "true" [] r.match = "tag" -> "false"
                [] OTHER -> "none"

IfUnmodifiedSince(r, t) ==
    IF r.ius = None \/ IsZeroTime(t) THEN "none"
    ELSE IF t <= r.ius THEN "true" ELSE "false"

IfNoneMatch(r) == CASE r.noneMatch = "any" -> "false"
                    [] r.noneMatch = "tag" -> "true" [] OTHER -> "none"

IfModifiedSince(r, t) ==
    IF r.ims = None \/ IsZeroTime(t) THEN "none"
    ELSE IF t <= r.ims THEN "false" ELSE "true"

\* Mutant of IfRange: the date is an earliest time, as with the others.
IfRangeSince(r, t) ==
    IF r.ir = "none" THEN "none"
    ELSE IF r.ir = "date" /\ t >= r.irDate THEN "true" ELSE "false"

IfRange(r, t) ==
    IF r.ir = "none" THEN "none"
    ELSE IF r.ir = "date" /\ t = r.irDate THEN "true" ELSE "false"

\* checkPreconditions: 412, 304, or 200 to go on.
CheckPreconditions(r, t) ==
    LET ch == IF IfMatch(r) = "none" THEN IfUnmodifiedSince(r, t) ELSE IfMatch(r)
        same == \/ IfNoneMatch(r) = "false"
                \/ IfNoneMatch(r) = "none" /\ IfModifiedSince(r, t) = "false"
    IN  IF ch = "false" THEN 412 ELSE IF same THEN 304 ELSE 200

RangeReq(r, t) == IF IfRange(r, t) = "false" THEN <<>> ELSE r.range

-----------------------------------------------------------------------------
(* The client.                                                             *)

Bare(form, range) ==
    [form |-> form, range |-> range, resume |-> FALSE,
     match |-> "none", noneMatch |-> "none", ims |-> None, ius |-> None,
     ir |-> "none", irDate |-> None]

NoCopy == [v |-> 0, form |-> "plain", mtime |-> 0, total |-> 0,
           bytes |-> <<>>, loose |-> FALSE, spoiled |-> FALSE]
NoRes  == [status |-> 0, v |-> 0, to |-> "plain", parts |-> <<>>, size |-> 0,
           multi |-> FALSE]
NoWriter == [pc |-> "none", n |-> 0, byte |-> [v |-> 0, pos |-> 0], todo |-> {}]

Init ==
    /\ tree = [n \in Nodes |-> 0] /\ disk = [i \in Inodes |-> NoFile]
    /\ dates = <<>>
    /\ gzip \in BOOLEAN /\ copy = NoCopy /\ req = Bare("plain", <<>>)
    /\ pc = "idle" /\ file = 0 /\ stat = NoFile /\ res = NoRes
    /\ got = <<>> /\ left = 0 /\ spoiled = FALSE
    /\ writer = NoWriter /\ pipe = "closed"

Ask(r) ==
    /\ pc = "idle"
    /\ req' = r /\ pc' = "open" /\ spoiled' = FALSE
    /\ UNCHANGED <<diskVars, gzip, copy, file, stat, res, got, left, pipeVars>>

\* (Bound: a Range header only with the plain form.)
Fetches == {Bare(form, <<>>) : form \in {"plain", "slash", "index"}}
               \cup {Bare("plain", range) : range \in RangeHeaders}

Fetch == \E r \in Fetches : Ask(r)

\* Is my copy still good?  Its date is all the server gave to ask with.
Revalidate ==
    /\ copy.mtime # 0
    /\ \E tag \in {"none", "tag", "any"} :
           Ask([Bare(copy.form, <<>>)
                   EXCEPT !.ims = copy.mtime, !.noneMatch = tag])

\* The rest of a copy that was cut short, on one of four conditions.
Resume ==
    /\ copy.mtime # 0 /\ Len(copy.bytes) < copy.total
    /\ LET rest == [Bare(copy.form,
                         <<[kind |-> "from", a |-> Len(copy.bytes), b |-> 0]>>)
                       EXCEPT !.resume = TRUE]
       IN  \/ Ask([rest EXCEPT !.ir = "date", !.irDate = copy.mtime])
           \/ Ask([rest EXCEPT !.ir = "tag"])
           \/ Ask([rest EXCEPT !.ius = copy.mtime])
           \/ Ask([rest EXCEPT !.match = "tag"])

\* What the client makes of the answer.
Kept ==
    CASE res.status = 200 ->
           [v |-> res.v, form |-> req.form, mtime |-> stat.mtime, total |-> res.size,
            bytes |-> IF res.parts = <<>> THEN <<>> ELSE got[1],
            loose |-> FALSE, spoiled |-> spoiled]
      [] res.status = 206 /\ req.resume ->
           [copy EXCEPT !.bytes = @ \o got[1],
                        !.loose = @ \/ req.ius # None,
                        !.spoiled = @ \/ spoiled]
      [] res.status = 304 \/ (res.status = 206 /\ ~req.resume) -> copy
      [] OTHER -> NoCopy

\* A redirect is followed, afresh.  (Bound: when the goroutine has ended.)
Receive ==
    /\ pc = "done" /\ writer.pc = "none"
    /\ copy' = Kept
    /\ IF res.status = 301
       THEN pc' = "open" /\ req' = Bare(res.to, <<>>)
       ELSE pc' = "idle" /\ req' = Bare("plain", <<>>)
    /\ stat' = NoFile /\ res' = NoRes /\ got' = <<>> /\ left' = 0
    /\ spoiled' = FALSE
    /\ UNCHANGED <<diskVars, gzip, file, pipeVars>>

-----------------------------------------------------------------------------
(* The handler.                                                            *)

\* Mutant of Return: the pipe is not closed.
ReturnPipeOpen == pc' = "done" /\ file' = 0 /\ UNCHANGED pipe

\* The handler returns: its deferred calls close the pipe and the file.
Return ==
    /\ pc' = "done" /\ file' = 0
    /\ pipe' = IF res.multi THEN "closed" ELSE pipe

\* An answer without content.
Answer(status, v, to) ==
    /\ pc' = "done" /\ file' = 0
    /\ res' = [NoRes EXCEPT !.status = status, !.v = v, !.to = to]
    /\ UNCHANGED <<bodyVars, pipeVars>>

\* ServeHTTP, and serveFile up to the file: redirect ".../index.html", else
\* open the compressed twin for a client that accepts it, ...
Open ==
    /\ pc = "open"
    /\ UNCHANGED <<diskVars, clientVars>>
    /\ IF req.form = "index"
       THEN Answer(301, 0, "slash") /\ UNCHANGED stat
       ELSE LET twin == IF gzip THEN tree["gz"] ELSE 0
            IN  /\ pc' = IF twin # 0 THEN "opened" ELSE "plain"
                /\ file' = twin
                /\ stat' = IF twin # 0 THEN disk[twin] ELSE NoFile
                /\ UNCHANGED <<res, bodyVars, pipeVars>>

\* ... which may be there and not open, or open and not tell its size, ...
TwinFails ==
    /\ pc = "open" /\ req.form # "index" /\ gzip /\ tree["gz"] # 0
    /\ UNCHANGED <<diskVars, clientVars, stat>>
    /\ \/ pc' = "plain" /\ UNCHANGED <<file, res, bodyVars, pipeVars>>
       \/ \E status \in {403, 500} : Answer(status, 0, "plain")

\* ... or the name itself.  An error is a 404, a 403 or, otherwise, a 500.
OpenPlain ==
    /\ pc = "plain"
    /\ UNCHANGED <<diskVars, clientVars>>
    /\ \/ /\ tree["x"] # 0
          /\ pc' = "opened" /\ file' = tree["x"] /\ stat' = disk[file']
          /\ UNCHANGED <<res, bodyVars, pipeVars>>
       \/ /\ tree["x"] = 0
          /\ Answer(404, 0, "plain") /\ UNCHANGED stat
       \/ /\ \E status \in {403, 500} : Answer(status, 0, "plain")
          /\ UNCHANGED stat

\* Mutant of Opened: a directory is redirected to where it was asked for.
OpenedInPlace ==
    /\ pc = "opened"
    /\ UNCHANGED <<diskVars, clientVars, stat>>
    /\ CASE stat.dir /\ req.form # "slash" -> Answer(301, 0, "plain")
         [] ~stat.dir /\ req.form = "slash" -> Answer(301, 0, "plain")
         [] OTHER -> /\ pc' = IF stat.dir THEN "index" ELSE "content"
                     /\ UNCHANGED <<file, res, bodyVars, pipeVars>>

\* Redirect to the canonical URL: only a directory's ends in a slash.
Opened ==
    /\ pc = "opened"
    /\ UNCHANGED <<diskVars, clientVars, stat>>
    /\ CASE stat.dir /\ req.form # "slash" -> Answer(301, 0, "slash")
         [] ~stat.dir /\ req.form = "slash" -> Answer(301, 0, "plain")
         [] OTHER -> /\ pc' = IF stat.dir THEN "index" ELSE "content"
                     /\ UNCHANGED <<file, res, bodyVars, pipeVars>>

\* Mutant of OpenIndex: the page is served with the dates of its directory.
OpenIndexOldStat ==
    /\ pc = "index"
    /\ \/ /\ tree["index"] # 0 /\ pc' = "content"
          /\ file' = tree["index"]
          /\ stat' = [disk[file'] EXCEPT !.mtime = stat.mtime]
       \/ pc' = "list" /\ UNCHANGED <<file, stat>>
    /\ UNCHANGED <<diskVars, clientVars, res, bodyVars, pipeVars>>

\* The page of a directory takes its place, with its own size and date, unless
\* it is not there, does not open, or does not tell them.
OpenIndex ==
    /\ pc = "index"
    /\ \/ /\ tree["index"] # 0 /\ pc' = "content"
          /\ file' = tree["index"] /\ stat' = disk[file']
       \/ pc' = "list" /\ UNCHANGED <<file, stat>>
    /\ UNCHANGED <<diskVars, clientVars, res, bodyVars, pipeVars>>

\* The listing of a directory without one, or that it did not change, or that
\* it cannot be read.
List ==
    /\ pc = "list"
    /\ UNCHANGED <<diskVars, clientVars, stat>>
    /\ IF IfModifiedSince(req, stat.mtime) = "false"
       THEN Answer(304, stat.v, "plain")
       ELSE Answer(200, stat.v, "plain") \/ Answer(500, 0, "plain")

\* Ranges that add up to more than the file are ignored, as is no range.
Whole(header, size) ==
    LET asked == ParseRange(header, size)
    IN  DOMAIN asked = {} \/ SumRangesSize(asked) > size

\* The parts of the body, and whether it is a multipart body.
Parts(header, size) ==
    IF Whole(header, size) THEN [i \in {1} |-> [start |-> 0, length |-> size]]
                           ELSE ParseRange(header, size)

Multi(parts) == Cardinality(DOMAIN parts) > 1

\* serveContent after the preconditions: the header, and where the body is to
\* come from, the file itself or a goroutine that writes several ranges.
Serve(header) ==
    LET parts == Parts(header, stat.size)
    IN  /\ pc' = "send"
        /\ res' = [status |-> IF Whole(header, stat.size) THEN 200 ELSE 206,
                   v |-> stat.v, to |-> "plain", parts |-> parts,
                   size |-> stat.size, multi |-> Multi(parts)]
        /\ got' = [i \in DOMAIN parts |-> <<>>]
        /\ UNCHANGED <<file, spoiled>>
        /\ IF Multi(parts)
           THEN /\ left' = RangesMIMESize(parts) /\ pipe' = "open"
                /\ writer' = [NoWriter EXCEPT !.pc = "header", !.todo = DOMAIN parts]
           ELSE left' = SumRangesSize(parts) /\ UNCHANGED pipeVars

ServeContent ==
    /\ pc = "content"
    /\ UNCHANGED <<diskVars, clientVars, stat>>
    /\ LET status == CheckPreconditions(req, stat.mtime)
           header == RangeReq(req, stat.mtime)
       IN  IF status # 200 THEN Answer(status, stat.v, "plain")
           ELSE IF ParseFails(header, stat.size) THEN Answer(416, stat.v, "plain")
           ELSE Serve(header)

\* The byte at a position of the open file, as it is now.
ByteAt(pos)  == [v |-> disk[file].v, pos |-> pos]
AtEnd(pos)   == file = 0 \/ pos >= disk[file].size
First(parts) == CHOOSE i \in parts : \A j \in parts : i <= j

\* io.CopyN straight from the file, until the file ends.
Send ==
    /\ pc = "send" /\ ~res.multi /\ left > 0
    /\ \E i \in DOMAIN got :
        LET pos == res.parts[i].start + Len(got[i])
        IN  IF AtEnd(pos)
            THEN Return /\ UNCHANGED <<got, left>>
            ELSE /\ got' = [got EXCEPT ![i] = Append(@, ByteAt(pos))]
                 /\ left' = left - 1
                 /\ UNCHANGED <<pc, file, pipe>>
    /\ UNCHANGED <<diskVars, clientVars, stat, res, spoiled, writer>>

\* io.CopyN from the pipe: a unit passes when both sides are ready for it, the
\* header of a part, a byte, or the end.
Transfer ==
    /\ pc = "send" /\ res.multi /\ left > 0 /\ pipe = "open"
    /\ left' = left - 1
    /\ \/ /\ writer.pc = "header"
          /\ writer' = IF writer.todo = {} THEN NoWriter
                                           ELSE [writer EXCEPT !.pc = "read"]
          /\ UNCHANGED got
       \/ /\ writer.pc = "write"
          /\ writer' = [writer EXCEPT !.pc = "read", !.n = @ + 1]
          /\ got' = [got EXCEPT ![First(writer.todo)] = Append(@, writer.byte)]
    /\ UNCHANGED <<diskVars, clientVars, pc, file, stat, res, spoiled, pipe>>

\* Everything was sent, or the pipe broke.
Finish ==
    /\ pc = "send" /\ (left = 0 \/ (res.multi /\ pipe = "error"))
    /\ Return
    /\ UNCHANGED <<diskVars, clientVars, stat, res, bodyVars, writer>>

\* The client goes away: the next write to it fails.
Drop ==
    /\ pc = "send" /\ left > 0
    /\ Return
    /\ UNCHANGED <<diskVars, clientVars, stat, res, bodyVars, writer>>

-----------------------------------------------------------------------------
(* The goroutine.                                                          *)

\* The next byte of the part it is at, or the next part; at the end of the
\* file, or when the handler closed it, the pipe breaks.
WriterRead ==
    /\ writer.pc = "read"
    /\ LET i   == First(writer.todo)
           pos == res.parts[i].start + writer.n
       IN  CASE writer.n = res.parts[i].length ->
                  /\ writer' = [NoWriter EXCEPT !.pc = "header",
                                                !.todo = writer.todo \ {i}]
                  /\ UNCHANGED pipe
             [] writer.n < res.parts[i].length /\ AtEnd(pos) ->
                  /\ writer' = NoWriter
                  /\ pipe' = IF pipe = "open" THEN "error" ELSE pipe
             [] OTHER ->
                  /\ writer' = [writer EXCEPT !.pc = "write", !.byte = ByteAt(pos)]
                  /\ UNCHANGED pipe
    /\ UNCHANGED <<diskVars, clientVars, pc, file, stat, res, bodyVars>>

\* A write to a pipe whose reader is gone fails.
WriterFails ==
    /\ writer.pc \in {"header", "write"} /\ pipe = "closed"
    /\ writer' = NoWriter
    /\ UNCHANGED <<diskVars, clientVars, pc, file, stat, res, bodyVars, pipe>>

-----------------------------------------------------------------------------
(* The disk.                                                               *)

Version(dir, size, mtime) ==
    [v |-> Len(dates) + 1, dir |-> dir, size |-> size, mtime |-> mtime]

\* A file is moved into place; its date may be one it had before.
Place(n) ==
    \E dir \in BOOLEAN, size \in Sizes, mtime \in Times :
        /\ Len(dates) < MaxVersions
        /\ dir => n = "x" /\ size = 0
        /\ n = "gz" => gzip           \* it is not looked at otherwise
        /\ n = "index" => tree["x"] # 0 /\ disk[tree["x"]].dir
        /\ tree' = [m \in Nodes |-> IF m = n THEN Len(dates) + 1
                                    ELSE IF <<m, n>> = <<"index", "x">> THEN 0
                                    ELSE tree[m]]
        /\ disk' = [disk EXCEPT ![Len(dates) + 1] = Version(dir, size, mtime)]
        /\ dates' = Append(dates, mtime)
        /\ UNCHANGED <<clientVars, pc, file, stat, res, bodyVars, pipeVars>>

\* A file is written over in place.
Overwrite(n) ==
    \E size \in Sizes, mtime \in Times :
        /\ Len(dates) < MaxVersions
        /\ tree[n] # 0 /\ ~disk[tree[n]].dir
        /\ disk' = [disk EXCEPT ![tree[n]] = Version(FALSE, size, mtime)]
        /\ dates' = Append(dates, mtime)
        /\ spoiled' = (spoiled \/ file = tree[n])
        /\ UNCHANGED <<tree, clientVars, pc, file, stat, res, got, left, pipeVars>>

RemoveTwin ==
    /\ tree["gz"] # 0
    /\ tree' = [tree EXCEPT !["gz"] = 0]
    /\ UNCHANGED <<disk, dates, clientVars, pc, file, stat, res, bodyVars, pipeVars>>

-----------------------------------------------------------------------------

Client  == Fetch \/ Revalidate \/ Resume
Handler == \/ Open \/ TwinFails \/ OpenPlain \/ Opened \/ OpenIndex \/ List
           \/ ServeContent \/ Send \/ Transfer \/ Finish
Writer  == WriterRead \/ WriterFails
Deploy  == RemoveTwin \/ \E n \in Nodes : Place(n) \/ Overwrite(n)

Next == Client \/ Receive \/ Handler \/ Writer \/ Drop \/ Deploy

\* A handler and its goroutine run to their ends; nobody has to ask, to go
\* away, or to deploy.
Spec == /\ Init /\ [][Next]_vars
        /\ WF_vars(Receive) /\ WF_vars(Handler) /\ WF_vars(Writer)

-----------------------------------------------------------------------------
(* Properties.                                                             *)

Versions == [v : 0 .. MaxVersions, dir : BOOLEAN, size : Nat, mtime : Times]

\* The handler has a file open, or a pipe, exactly while it uses one.
TypeOK ==
    /\ tree \in [Nodes -> 0 .. MaxVersions] /\ disk \in [Inodes -> Versions]
    /\ dates \in Seq(Times) /\ Len(dates) <= MaxVersions
    /\ pc \in {"idle", "open", "plain", "opened", "index", "content", "list",
               "send", "done"}
    /\ file \in 0 .. MaxVersions /\ stat \in Versions
    /\ (file # 0) = (pc \in {"opened", "index", "content", "list", "send"})
    /\ writer.pc # "none" => res.multi /\ pc \in {"send", "done"}
    /\ pipe = "open" => pc = "send" /\ res.multi

\* Two versions with the same date, or a version older than one before it.
Twins    == \E i, j \in DOMAIN dates : i < j /\ dates[i] = dates[j]
Backward == \E i, j \in DOMAIN dates : i < j /\ dates[i] > dates[j]

\* A copy is of one version, in order, without a hole: also when it was put
\* together over several requests while files were replaced.  The date can
\* only tell versions apart whose dates differ, and If-Unmodified-Since only
\* those of one file that did not go back.  A file overwritten under its
\* reader is mixed.
CopyPure ==
    \/ copy.spoiled \/ Twins \/ (copy.loose /\ (Backward \/ gzip))
    \/ /\ Len(copy.bytes) <= copy.total
       /\ \A i \in DOMAIN copy.bytes : copy.bytes[i] = [v |-> copy.v, pos |-> i - 1]

\* A 304 never hides a newer version than the client has, provided the dates
\* went forward with the versions.  (A star asks for no version.)
NotModifiedCurrent ==
    pc = "done" /\ res.status = 304 /\ req.noneMatch # "any" =>
        Twins \/ Backward \/ res.v <= copy.v

\* The ranges a header declares are inside the file, and a body that was sent to
\* its end is exactly these, of one version, whoever of the handler and the
\* goroutine was quicker.
AnswerAsDeclared ==
    pc = "done" /\ res.status \in {200, 206} =>
        \A i \in DOMAIN res.parts :
            LET r == res.parts[i]
            IN  /\ r.start + r.length <= res.size
                /\ left = 0 /\ ~spoiled => got[i] = [k \in 1 .. r.length |->
                                [v |-> res.v, pos |-> r.start + k - 1]]

\* Every request is answered, through whatever redirects, and the goroutine of a
\* multipart body ends (Receive waits for it), also when nobody reads it; unless
\* a twin next to a directory opens and fails in turns: the twin's name has no
\* slash and the directory's has one.
RequestEnds == <>[][~TwinFails]_vars => (pc # "idle" ~> pc = "idle")
=============================================================================
