----------------------------- MODULE PendingStore -----------------------------
(* The dirty flag of one node (src/internal/pendingstore/pendingstore.go)     *)
(* and the /pending/* handlers that read and write it.                       *)
(*                                                                           *)
(* Set writes <node>.json.tmp and renames it to <node>.json.  No lock keeps  *)
(* two handlers apart: they may hold the same file open, and a rename moves  *)
(* whatever file has the name.  The files are therefore modelled as inodes.  *)
EXTENDS Integers, FiniteSets

CONSTANTS
  Handlers,     \* the requests that can be under way at the same time
  Ops,          \* what they ask for
  Inodes,       \* room for the files that are named or open
  NoInode       \* "the file does not exist"

ASSUME PendingStoreAssumption ==
  /\ Ops \subseteq {"add", "set", "clear"}
  /\ NoInode \notin Inodes
  /\ IsFiniteSet(Inodes) /\ IsFiniteSet(Handlers)
  /\ Cardinality(Inodes) >= Cardinality(Handlers) + 2

VARIABLES
  content,      \* content[i]: what inode i holds
  tmp,          \* the inode named <node>.json.tmp, or NoInode
  file,         \* the inode named <node>.json, or NoInode
  handlers,     \* handlers[h]: what request h is doing
  since,        \* history: the values asked for since no request was under way
  overlap,      \* history: two requests were under way at once since then
  promised      \* history: a request has replied that the flag is set; withdrawn when
                \* a clear begins or requests overlap

vars == <<content, tmp, file, handlers, since, overlap, promised>>

\* A request: what it does and asks for, the flag it has read, the file that it has
\* open, and whether its read has failed.
Idle == [stage |-> "idle", op |-> "set", prev |-> FALSE, inode |-> NoInode, misread |-> FALSE]
Quiet == \A h \in Handlers : handlers[h].stage = "idle"
Value(op) == op # "clear"

\* Get: an absent file, and one that is no JSON, count as not dirty.
Dirty == file # NoInode /\ content[file] = "dirty"

\* The inodes without a name that nobody has open.  What they held is gone.
Free == Inodes \ ({tmp, file} \cup {handlers[h].inode : h \in Handlers})
Collected(c) == [i \in Inodes |-> IF i \in Free' THEN "empty" ELSE c[i]]

-----------------------------------------------------------------------------
Init ==
  /\ content = [i \in Inodes |-> "empty"]
  /\ tmp = NoInode
  /\ file = NoInode
  /\ handlers = [h \in Handlers |-> Idle]
  /\ since = {}
  /\ overlap = FALSE
  /\ promised = FALSE

\* /pending/add looks at the flag first; /pending/set, /pending/clear and
\* /preflight/run do not.
Begin(h, op) ==
  /\ handlers[h].stage = "idle"
  /\ handlers' = [handlers EXCEPT ![h] =
                    [Idle EXCEPT !.stage = IF op = "add" THEN "read" ELSE "open", !.op = op]]
  /\ since' = (IF Quiet THEN {} ELSE since) \cup {Value(op)}
  /\ overlap' = ~ Quiet
  /\ promised' = (promised /\ op # "clear" /\ Quiet)
  /\ UNCHANGED <<content, tmp, file>>

\* Wrong: a file that exists counts as dirty.
ReadExists(h) ==
  /\ handlers[h].stage = "read"
  /\ handlers' = [handlers EXCEPT ![h].stage = "open", ![h].prev = file # NoInode]
  /\ UNCHANGED <<content, tmp, file, since, overlap, promised>>

\* PendingGet.  The handler drops its error and goes on as if the flag were clear.
Read(h) ==
  /\ handlers[h].stage = "read"
  /\ \E failed \in BOOLEAN :
       handlers' = [handlers EXCEPT ![h].stage = "open", ![h].misread = failed,
                                    ![h].prev = ~ failed /\ Dirty]
  /\ UNCHANGED <<content, tmp, file, since, overlap, promised>>

\* The inode that opening <node>.json.tmp for writing yields.
Opened == IF tmp = NoInode THEN CHOOSE i \in Free : TRUE ELSE tmp

\* Handler h has opened inode i, which is empty now.
Truncates(h, i, next) ==
  /\ handlers[h].stage = "open"
  /\ handlers' = [handlers EXCEPT ![h].stage = next, ![h].inode = i]
  /\ content' = [content EXCEPT ![i] = "empty"]
  /\ UNCHANGED <<file, since, overlap, promised>>

\* Wrong: the handler renames the file without having written it.
OpenAndSkip(h) == Truncates(h, Opened, "rename") /\ tmp' = Opened

\* Wrong: a file that exists is rewritten in place.
OpenInPlace(h) ==
  IF file = NoInode THEN Truncates(h, Opened, "write") /\ tmp' = Opened
                    ELSE Truncates(h, file, "write") /\ UNCHANGED tmp

\* os.WriteFile, first half: the file is created, or the one that is there emptied.
Open(h) == Truncates(h, Opened, "write") /\ tmp' = Opened

\* The record of a clear flag is shorter than that of a dirty one: written over
\* it, it leaves a tail that is no JSON.
Overwritten(old, op) ==
  IF Value(op) THEN "dirty" ELSE IF old \in {"dirty", "garbage"} THEN "garbage" ELSE "clean"

\* Second half: the record is written from the start of the open file.
Write(h) ==
  LET r == handlers[h]
  IN  /\ r.stage = "write"
      /\ handlers' = [handlers EXCEPT ![h].stage = "rename", ![h].inode = NoInode]
      /\ UNCHANGED <<tmp, file, since, overlap, promised>>
      /\ content' = Collected([content EXCEPT ![r.inode] = Overwritten(@, r.op)])

\* os.Rename, and the reply.  Without a tmp file it fails, and so does the request.
Rename(h) ==
  LET r == handlers[h]
  IN  /\ r.stage = "rename"
      /\ handlers' = [handlers EXCEPT ![h] = Idle]
      /\ IF tmp # NoInode
         THEN /\ file' = tmp
              /\ tmp' = NoInode
              /\ promised' = (promised \/ (Value(r.op) /\ ~ overlap))
         ELSE UNCHANGED <<file, tmp, promised>>
      /\ content' = Collected(content)
      /\ UNCHANGED <<since, overlap>>

\* os.WriteFile or os.Rename fails, and the request is answered with an error:
\* whether it has had an effect is open.
Fail(h) ==
  /\ handlers[h].stage \in {"open", "write", "rename"}
  /\ handlers' = [handlers EXCEPT ![h] = Idle]
  /\ since' = BOOLEAN
  /\ UNCHANGED <<tmp, file, overlap, promised>>
  /\ content' = Collected(content)

\* The process dies and is started again; the files stay.
Crash ==
  /\ ~ Quiet
  /\ handlers' = [h \in Handlers |-> Idle]
  /\ since' = {}
  /\ overlap' = FALSE
  /\ UNCHANGED <<tmp, file, promised>>
  /\ content' = Collected(content)

Next ==
  \/ Crash
  \/ \E h \in Handlers :
       \/ \E op \in Ops : Begin(h, op)
       \/ Read(h) \/ Open(h) \/ Write(h) \/ Rename(h) \/ Fail(h)

Spec == Init /\ [][Next]_vars

-----------------------------------------------------------------------------
\* Whatever the handlers did to each other's files, when none is left the flag has
\* the value they asked for, if they all asked for the same and none failed.
SettledFlag ==
  Quiet => (since = {TRUE} => Dirty) /\ (since = {FALSE} => ~ Dirty)

\* "durable *flag*" (pendingstore.go): once a request has replied that the flag is
\* set, it reads as set until a clear begins, across crashes and failures, as long
\* as requests do not overlap.
FlagSurvives == promised => Dirty

\* What is left of what router.go says of /pending/add ("inserted" is the transition
\* false->true), with one request at a time and whatever crashed requests have left
\* behind: a reply without inserted comes from a flag that was set when the handler
\* set it, and one with inserted from a flag that was clear or could not be read.
InsertedIsTransition ==
  \A h \in Handlers :
    /\ handlers[h].op = "add" /\ handlers[h].stage \in {"open", "write", "rename"}
    /\ ~ overlap
    => IF handlers[h].misread THEN ~ handlers[h].prev ELSE handlers[h].prev <=> Dirty
=============================================================================
