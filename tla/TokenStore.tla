----------------------------- MODULE TokenStore -----------------------------
(***************************************************************************)
(* TokenManager with its file: the goroutine that saves the cache every    *)
(* 10 s (Init, saveCacheToFile), and the process dying and starting again  *)
(* from the file (loadFromFile).                                           *)
(*                                                                         *)
(* The saver walks the cache while requests go on changing it, entry by    *)
(* entry in an order that depends on the keys' hashes, and then overwrites *)
(* the one file in place.  The write may fail; nobody looks at its error.  *)
(***************************************************************************)
EXTENDS TokenManager

CONSTANTS
    MaxCrashes,   \* bound: how often the process dies
    Unreadable    \* a file that is missing, cut short, or not JSON

\* Unreadable is not a map of the keys.
ASSUME StoreAssumption == Unreadable # [key \in Keys |-> Unreadable[key]]

VARIABLES
    file,      \* sec_token.bin: a map of all keys, or Unreadable
    saver,     \* where the saver is: "asleep", "iterating" or "writing"
    items,     \* local variable `items` of saveCacheToFile
    todo,      \* the keys the iterator has still to visit
    evicted,   \* an entry was evicted since the iterator started
    seen,      \* ghost: every key and value the cache held during this save
    saved,     \* ghost: what the last completed save wrote; Unreadable if there
               \* was none, or a later write was cut short by a crash or an error
    crashes

storeVars == <<file, saver, items, todo, evicted, seen, saved, crashes>>
allVars   == <<vars, storeVars>>

Empty    == [key \in Keys |-> None]
Pairs(m) == {<<key, m[key]>> : key \in Keys}

StoreInit ==
    /\ Init
    /\ file = Unreadable /\ saver = "asleep"
    /\ items = Empty /\ todo = {} /\ evicted = FALSE
    /\ seen = {} /\ saved = Unreadable /\ crashes = 0

-----------------------------------------------------------------------------

\* What the saver sees of the steps of the others.
Observe == seen' = IF saver = "iterating" THEN seen \cup Pairs(cache') ELSE seen

ServeOrTick ==
    /\ Serve \/ Tick
    /\ Observe
    /\ UNCHANGED <<file, saver, items, todo, evicted, saved, crashes>>

EvictEntry ==
    /\ \E key \in Keys : Evict(key)
    /\ Observe
    /\ evicted' = (saver = "iterating")
    /\ UNCHANGED <<file, saver, items, todo, saved, crashes>>

\* Mutant of SaveBegin: the file is opened for writing first.
SaveBeginTruncates ==
    /\ saver = "asleep"
    /\ saver' = "iterating"
    /\ items' = Empty /\ todo' = Keys
    /\ seen' = Pairs(cache) /\ evicted' = FALSE
    /\ file' = Unreadable
    /\ UNCHANGED <<vars, saved, crashes>>

\* The saver wakes up and starts its iterator.
SaveBegin ==
    /\ saver = "asleep"
    /\ saver' = "iterating"
    /\ items' = Empty /\ todo' = Keys
    /\ seen' = Pairs(cache) /\ evicted' = FALSE
    /\ UNCHANGED <<vars, file, saved, crashes>>

\* SetNext and Value for one entry; an absent one is not visited at all.
SaveEntry(key) ==
    /\ saver = "iterating" /\ key \in todo
    /\ items' = [items EXCEPT ![key] = cache[key]]
    /\ todo' = todo \ {key}
    /\ UNCHANGED <<vars, file, saver, evicted, seen, saved, crashes>>

\* Mutant of SaveFail: the error ends the loop, not the function.
SaveFailWrites ==
    /\ saver = "iterating" /\ evicted
    /\ file' = Unreadable
    /\ saver' = "writing"
    /\ evicted' = FALSE
    /\ UNCHANGED <<vars, items, todo, seen, saved, crashes>>

\* Mutant of SaveFail: the error ends the goroutine.
SaveFailEnds ==
    /\ saver = "iterating" /\ evicted
    /\ saver' = "ended"
    /\ UNCHANGED <<vars, file, items, todo, evicted, seen, saved, crashes>>

\* Value fails on an entry that was evicted: saveCacheToFile gives up until
\* the next round.
SaveFail ==
    /\ saver = "iterating" /\ evicted
    /\ saver' = "asleep"
    /\ items' = Empty /\ todo' = {} /\ seen' = {} /\ evicted' = FALSE
    /\ UNCHANGED <<vars, file, saved, crashes>>

\* os.WriteFile does not get to open the file, and the file stays as it was.  Its
\* error is returned, and dropped: the saver sleeps until the next round.
SaveOpenFails ==
    /\ saver = "iterating" /\ todo = {}
    /\ saver' = "asleep"
    /\ items' = Empty /\ seen' = {} /\ evicted' = FALSE
    /\ UNCHANGED <<vars, file, todo, saved, crashes>>

\* os.WriteFile truncates the file ...
SaveTruncate ==
    /\ saver = "iterating" /\ todo = {}
    /\ file' = Unreadable
    /\ saver' = "writing"
    /\ evicted' = FALSE
    /\ UNCHANGED <<vars, items, todo, seen, saved, crashes>>

\* ... and then fills it ...
SaveWrite ==
    /\ saver = "writing"
    /\ file' = items /\ saved' = items
    /\ saver' = "asleep"
    /\ items' = Empty /\ seen' = {}
    /\ UNCHANGED <<vars, todo, evicted, crashes>>

\* ... or fails to, the disk being full for instance, and leaves it cut short.
SaveWriteFails ==
    /\ saver = "writing"
    /\ saved' = Unreadable
    /\ saver' = "asleep"
    /\ items' = Empty /\ seen' = {}
    /\ UNCHANGED <<vars, file, todo, evicted, crashes>>

\* The process dies and starts again: Init makes a new cache, fills it from the
\* file if it holds JSON, and starts a new saver.
Crash ==
    /\ crashes < MaxCrashes
    /\ crashes' = crashes + 1
    /\ cache' = IF file = Unreadable THEN Empty ELSE file
    /\ pc' = [p \in Procs |-> "idle"]
    /\ call' = [p \in Procs |-> NoCall]
    /\ saver' = "asleep"
    /\ items' = Empty /\ todo' = {} /\ seen' = {} /\ evicted' = FALSE
    /\ saved' = IF saver = "writing" THEN Unreadable ELSE saved
    /\ UNCHANGED <<clock, issued, disturbed, file>>

Saver ==
    \/ SaveBegin \/ (\E key \in Keys : SaveEntry(key)) \/ SaveFail
    \/ SaveOpenFails \/ SaveTruncate \/ SaveWrite \/ SaveWriteFails

StoreNext == ServeOrTick \/ EvictEntry \/ Saver \/ Crash

StoreSpec == StoreInit /\ [][StoreNext]_allVars /\ WF_allVars(Saver)

-----------------------------------------------------------------------------
(* Properties.                                                             *)

\* A save writes, for every key, a value the cache held at some time since the
\* save began: no entry revoked before it comes back from the file, no entry
\* left alone during it is missing, although requests kept changing the cache.
SnapshotOfThisSave ==
    [][SaveWrite => \A key \in Keys : <<key, file'[key]>> \in seen]_allVars

\* When the cache stops changing and the saver's writes stop failing, the file ends
\* up equal to the cache, whatever the saver was doing when the last change was made
\* and whatever a failed write or a crash had made of the file.
EventuallySaved ==
    <>[][cache' = cache /\ ~SaveOpenFails /\ ~SaveWriteFails]_allVars
        => <>[](file = cache \/ saver = "writing")

\* A process that dies finds, when it starts again, the whole of the last save, and
\* has all those sessions back, also when later saves gave up or could not open the
\* file.  The exceptions are a death inside the write of the file, which truncates
\* the only copy first, and one after a write that failed half-way.
RestartRestoresUnlessTorn ==
    [][crashes' # crashes /\ saved # Unreadable /\ saver # "writing" =>
        cache' = saved]_allVars
=============================================================================
