------------------------------ MODULE Preflight ------------------------------
(* /preflight/run: has the tree changed since the last run?                  *)
(* (router.dispatch, preflight.Run, diff.Detect and its two providers.)      *)
(*                                                                           *)
(* Each provider compares the tree with a base of its own, kept in a file:   *)
(* zfs the name of its last snapshot (zfs.lastsnap), generic the signature   *)
(* of the tree (main.sig).  A run saves the new base before the router sets  *)
(* the dirty flag, and a provider that fails hands over to the next one.     *)
(* Requests run concurrently, the process may die between two steps, and the *)
(* code drops the errors of reading and of writing a base: a base that       *)
(* cannot be read counts as none, and a failed write leaves an empty file.   *)
(*                                                                           *)
(* The tree is a version number that grows with every edit; a signature is   *)
(* the version it was computed from.                                         *)
EXTENDS Integers, FiniteSets

CONSTANTS
  Requests,     \* the requests that can be under way at the same time
  OnZfs,        \* whether the tree may be on a zfs dataset, or not on one
  Faults,       \* the calls that may fail, and "crash"
  MaxVersion,   \* bound: the last version of the tree
  MaxSecond,    \* bound: the last second
  MaxMishaps    \* bound: how many kinds of mishap a behaviour has, each any number of times

\* save and register: the open of main.sig and of zfs.lastsnap; write: the write into
\* the open file.  The other calls by their names.
Calls == {"list", "read", "snapshot", "diff", "destroy", "walk",
          "save", "register", "write", "flag"}

\* The mishaps that can lose an edit: with them a base is replaced, emptied or passed
\* over before what it differs from has been reported.
Harmful == {"overlap", "crash", "read", "diff", "register", "write", "flag"}

ASSUME PreflightAssumption ==
  /\ OnZfs \subseteq BOOLEAN
  /\ Faults \subseteq Calls \cup {"crash"}
  /\ MaxVersion \in Nat /\ MaxSecond \in Nat /\ MaxMishaps \in Nat

VARIABLES
  zfs,          \* whether the tree is on a zfs dataset
  tree,         \* the version of the tree under mainRoot
  second,       \* time.Now().Unix()
  snaps,        \* the snapshots: a function from their second to their version
  base,         \* base[p]: what the file of provider p holds, 0 if it is absent or empty
  requests,     \* requests[h]: what request h is doing
  first,        \* history: the version of the first base that was saved, or 0
  reported,     \* history: the latest version for which the dirty flag was set
  sound,        \* history: nothing harmful since somebody last began to run alone
  trusted,      \* history: the version of the first base saved since then, or 0
  mishaps       \* history: the calls that have failed, "crash", and "overlap" of requests

history == <<sound, trusted, mishaps>>
runVars == <<zfs, tree, second, snaps, base, requests, first, reported, history>>

Providers == {"zfs", "generic"}
Stages    == {"idle", "snapshot", "diff", "destroy", "open", "walk",
              "truncate", "write", "report"}

\* A request: the base it has read, the one it will save, the version that is one
\* stands for, the verdict so far, and whether its provider has failed.
NoRequest == [stage |-> "idle", via |-> "generic", prev |-> 0, new |-> 0,
         version |-> 0, changed |-> FALSE, failed |-> FALSE]

\* Request h has done what its stage asks for, and goes on like this.
GoesOn(h, stage, r) == requests' = [requests EXCEPT ![h] = r]
                       /\ requests[h].stage = stage

To(r, stage)    == [r EXCEPT !.stage = stage]
Fallback        == To(NoRequest, "open")
NobodyRuns      == \A h \in Requests : requests[h].stage = "idle"

\* These kinds of mishaps happen; sofar says whether all was sound before.
Mishaps(kinds, sofar) ==
  LET harmless == kinds \cap Harmful = {}
  IN  /\ mishaps' = mishaps \cup kinds /\ Cardinality(mishaps') <= MaxMishaps
      /\ sound' = (sofar /\ harmless)
      /\ trusted' = IF harmless THEN trusted ELSE 0

Fails(call) == call \in Faults /\ Mishaps({call}, sound)

-----------------------------------------------------------------------------
RunInit ==
  /\ zfs \in OnZfs
  /\ tree = 1
  /\ second = 1
  /\ snaps = [s \in {} |-> 0]
  /\ base = [p \in Providers |-> 0]
  /\ requests = [h \in Requests |-> NoRequest]
  /\ first = 0
  /\ reported = 0
  /\ sound = TRUE
  /\ trusted = 0
  /\ mishaps = {}

\* A file is added, modified or removed.
Edit ==
  /\ tree < MaxVersion
  /\ tree' = tree + 1
  /\ UNCHANGED <<zfs, second, snaps, base, requests, first, reported, history>>

Tick ==
  /\ second < MaxSecond
  /\ second' = second + 1
  /\ UNCHANGED <<zfs, tree, snaps, base, requests, first, reported, history>>

\* What readText makes of provider p's file: nothing, if it cannot be read.
Text(p, readable) == IF readable THEN base[p] ELSE 0
ReadError(readable) == IF readable THEN {} ELSE {"read"}

\* Request h begins, and these kinds of mishaps with it.
Begins(h, r, kinds) ==
  /\ GoesOn(h, "idle", r)
  /\ IF NobodyRuns THEN Mishaps(kinds, TRUE) ELSE Mishaps(kinds \cup {"overlap"}, sound)
  /\ kinds \subseteq Faults

\* diff.Detect begins.  zfs: Available, then read zfs.lastsnap; it is passed over
\* without zfs, or when zfs list fails.
Detect(h) ==
  /\ \/ zfs /\ \E readable \in BOOLEAN :
          Begins(h, [NoRequest EXCEPT !.stage = "snapshot", !.via = "zfs",
                                      !.prev = Text("zfs", readable)], ReadError(readable))
     \/ Begins(h, Fallback, IF zfs THEN {"list"} ELSE {})
  /\ UNCHANGED <<zfs, tree, second, snaps, base, first, reported>>

\* zfs snapshot, named by the second.  A name that is taken, or a failure, makes
\* way for the next provider.
Snapshot(h) ==
  LET r == requests[h]
      next == IF r.prev = 0 THEN "truncate" ELSE "diff"
  IN  /\ \/ /\ second \notin DOMAIN snaps
            /\ snaps' = [s \in DOMAIN snaps \cup {second} |->
                           IF s = second THEN tree ELSE snaps[s]]
            /\ GoesOn(h, "snapshot", [To(r, next) EXCEPT !.new = second, !.version = tree])
            /\ UNCHANGED history
         \/ /\ second \in DOMAIN snaps \/ "snapshot" \in Faults
            /\ GoesOn(h, "snapshot", Fallback)
            /\ UNCHANGED snaps
            /\ Mishaps({"snapshot"}, sound)
      /\ UNCHANGED <<zfs, tree, second, base, first, reported>>

\* zfs diff, which needs both snapshots.
Diff(h) ==
  LET r == requests[h]
      both == {r.prev, r.new} \subseteq DOMAIN snaps
  IN  /\ \/ /\ both
            /\ GoesOn(h, "diff", [To(r, "destroy") EXCEPT !.changed =
                                     snaps[r.prev] # snaps[r.new]])
            /\ UNCHANGED history
         \/ /\ both => "diff" \in Faults
            /\ GoesOn(h, "diff", [To(r, "destroy") EXCEPT !.failed = TRUE])
            /\ Mishaps({"diff"}, sound)
      /\ UNCHANGED <<zfs, tree, second, snaps, base, first, reported>>

\* Wrong: the old snapshot is kept.
DestroyNothing(h) ==
  /\ GoesOn(h, "destroy", To(requests[h], "truncate"))
  /\ UNCHANGED <<zfs, tree, second, snaps, base, first, reported, history>>

\* Wrong: the new snapshot is destroyed.
DestroyNew(h) ==
  LET r == requests[h]
  IN  /\ GoesOn(h, "destroy", To(r, "truncate"))
      /\ snaps' = [s \in DOMAIN snaps \ {r.new} |-> snaps[s]]
      /\ UNCHANGED <<zfs, tree, second, base, first, reported, history>>

\* zfs destroy of the old snapshot; a failure is ignored.
Destroy(h) ==
  LET r == requests[h]
  IN  /\ GoesOn(h, "destroy", To(r, "truncate"))
      /\ \/ /\ snaps' = [s \in DOMAIN snaps \ {r.prev} |-> snaps[s]]
            /\ UNCHANGED history
         \/ Fails("destroy") /\ UNCHANGED snaps
      /\ UNCHANGED <<zfs, tree, second, base, first, reported>>

\* generic: read main.sig.
ReadSignature(h) ==
  /\ \E readable \in BOOLEAN :
       /\ GoesOn(h, "open", [To(requests[h], "walk") EXCEPT !.prev = Text("generic", readable)])
       /\ IF readable THEN UNCHANGED history ELSE Fails("read")
  /\ UNCHANGED <<zfs, tree, second, snaps, base, first, reported>>

\* generic: compute the signature.  Without a base nothing counts as changed; a
\* failure ends the request with an error.
Walk(h) ==
  LET r == requests[h]
  IN  /\ \/ /\ GoesOn(h, "walk", [To(r, "truncate") EXCEPT !.new = tree, !.version = tree,
                                    !.changed = r.prev # 0 /\ tree # r.prev])
            /\ UNCHANGED history
         \/ Fails("walk") /\ GoesOn(h, "walk", NoRequest)
      /\ UNCHANGED <<zfs, tree, second, snaps, base, first, reported>>

\* The end of a provider: a failed zfs diff makes way for generic.
Concluded(r) == IF r.failed THEN Fallback ELSE To(r, "report")

\* os.WriteFile of the new base, first half: the file is empty now.  The error of a
\* file that cannot be opened is ignored.
TruncateBase(h) ==
  LET r == requests[h]
  IN  /\ \/ /\ GoesOn(h, "truncate", To(r, "write"))
            /\ base' = [base EXCEPT ![r.via] = 0]
            /\ UNCHANGED history
         \/ /\ Fails(IF r.via = "zfs" THEN "register" ELSE "save")
            /\ GoesOn(h, "truncate", Concluded(r))
            /\ UNCHANGED base
      /\ UNCHANGED <<zfs, tree, second, snaps, first, reported>>

\* Request h writes b into the file of its base.
Writes(h, b) ==
  LET r == requests[h]
  IN  /\ GoesOn(h, "write", Concluded(r))
      /\ base' = [base EXCEPT ![r.via] = b]
      /\ first' = IF first = 0 THEN r.version ELSE first
      /\ trusted' = IF sound /\ trusted = 0 THEN r.version ELSE trusted
      /\ UNCHANGED <<zfs, tree, second, snaps, reported, sound, mishaps>>

\* Wrong: the base is the tree of now, not the one that was compared.
WriteNow(h) ==
  LET r == requests[h]
  IN  Writes(h, IF r.via = "zfs" THEN r.new ELSE tree)

\* Wrong: a signature that exists is kept.
WriteOnce(h) ==
  LET r == requests[h]
  IN  Writes(h, IF r.via = "generic" /\ r.prev # 0 THEN r.prev ELSE r.new)

\* Second half: its contents are written, or the error is ignored and the file stays
\* as it is.  (A base fits into one block: it is written as a whole or not at all.)
WriteBase(h) ==
  \/ Writes(h, requests[h].new)
  \/ /\ GoesOn(h, "write", Concluded(requests[h]))
     /\ Fails("write")
     /\ UNCHANGED <<zfs, tree, second, snaps, base, first, reported>>

\* The router sets the dirty flag of a tree that has changed, and replies; it
\* ignores the error of PendingSet, which does nothing as long as nobody has given
\* the instance a pending store.
Report(h) ==
  LET r == requests[h]
  IN  /\ GoesOn(h, "report", NoRequest)
      /\ \/ /\ reported' = IF r.changed /\ r.version > reported THEN r.version ELSE reported
            /\ UNCHANGED history
         \/ r.changed /\ Fails("flag") /\ UNCHANGED reported
      /\ UNCHANGED <<zfs, tree, second, snaps, base, first>>

\* The process dies and is started again; files and snapshots stay.
Die ==
  /\ ~ NobodyRuns
  /\ Fails("crash")
  /\ requests' = [h \in Requests |-> NoRequest]
  /\ UNCHANGED <<zfs, tree, second, snaps, base, first, reported>>

Run(h) ==
  \/ Detect(h) \/ Snapshot(h) \/ Diff(h) \/ Destroy(h) \/ ReadSignature(h) \/ Walk(h)
  \/ TruncateBase(h) \/ WriteBase(h) \/ Report(h)

RunNext == Edit \/ Tick \/ Die \/ \E h \in Requests : Run(h)

RunSpec == RunInit /\ [][RunNext]_runVars

-----------------------------------------------------------------------------
\* Request h will report version v, or save a base that v differs from.
Carries(h, v) ==
  LET r == requests[h]
  IN  /\ ~ r.failed
      /\ \/ r.stage \in {"destroy", "truncate", "write", "report"}
            /\ r.changed /\ v <= r.version
         \/ r.stage \in {"truncate", "write"} /\ r.version < v

\* A base that a later run can compare version v with.
Comparable(v) ==
  \/ base["generic"] \in 1..(v - 1)
  \/ base["zfs"] \in DOMAIN snaps /\ snaps[base["zfs"]] < v

\* An edit made after version from has set the dirty flag, is about to, or still
\* differs from the base of some provider.
KeptSince(from) ==
  from # 0 => \A v \in (from + 1)..tree :
    v <= reported \/ Comparable(v) \/ \E h \in Requests : Carries(h, v)

\* What preflight.go says of its goal ("to ensure we don't lose local changes"), of
\* every edit made after the first base was saved.
ChangesKept == KeptSince(first)

\* What the code does keep.  An edit can be lost to a harmful mishap, but whatever has
\* gone wrong before, and whatever it has left of bases and snapshots: once a run has
\* saved its base alone and without one, every later edit is kept until the next.
\* Failures of zfs list, snapshot and destroy, of the walk of the tree and of opening
\* main.sig lose nothing.
NoChangeLost == KeptSince(trusted)

Spared(kinds) == mishaps \cap kinds = {}

\* A snapshot is the base of the next run, or belongs to a run that is under way:
\* runs do not pile up snapshots on the dataset, as long as they do not overlap, the
\* process lives, zfs destroy works and no base is read or saved in vain.
SnapshotsTended ==
  Spared({"overlap", "crash", "destroy", "read", "register", "write"}) =>
    \A s \in DOMAIN snaps :
      \/ s = base["zfs"]
      \/ \E h \in Requests : requests[h].via = "zfs" /\ s \in {requests[h].prev, requests[h].new}

\* An edit sets the dirty flag once: as long as one provider does all the runs and
\* can open its base, no run reports a version that was reported before, crashes and
\* failed reads and writes included (the base is replaced before the flag is set).
AlarmedOnce ==
  Spared({"overlap", "list", "snapshot", "diff", "save", "register"}) =>
    \A h \in Requests :
      requests[h].stage = "report" /\ requests[h].changed => requests[h].version > reported

\* zfs.lastsnap names a snapshot that is there, or a request is about to empty it:
\* however requests overlap and whichever reads and writes fail, none is left with a
\* base that another has destroyed.
BaseUsable ==
  Spared({"crash", "register"}) =>
    \/ base["zfs"] \in DOMAIN snaps \cup {0}
    \/ \E h \in Requests : requests[h].via = "zfs" /\ requests[h].stage = "truncate"
=============================================================================
