------------------------- MODULE PendingStore_proofs -------------------------
(* Proofs about PendingStore and about Preflight, for every number of        *)
(* requests and every bound: the flag of a node, and the runs that set it.   *)
EXTENDS PendingStore, Preflight, FiniteSetTheorems, TLAPS

-----------------------------------------------------------------------------
(* The flag. *)

\* A handler: what it does, what it was asked for, the flag it has read, the file
\* it has open, and whether it could not read the flag.
Request == [stage : {"idle", "read", "open", "write", "rename"},
            op : {"add", "set", "clear"}, prev : BOOLEAN, inode : Inodes \cup {NoInode},
            misread : BOOLEAN]

\* The values of the variables.
TypeOK ==
  /\ content \in [Inodes -> {"empty", "dirty", "clean", "garbage"}]
  /\ tmp \in Inodes \cup {NoInode}
  /\ file \in Inodes \cup {NoInode}
  /\ handlers \in [Handlers -> Request]
  /\ overlap \in BOOLEAN /\ promised \in BOOLEAN

\* One file has not two names, and a request has a file open just while it writes it.
NamesOK ==
  /\ tmp # NoInode => tmp # file
  /\ \A h \in Handlers : handlers[h].stage = "write" <=> handlers[h].inode # NoInode

\* Without an overlap one request is under way at most: the file that it has open is the
\* one named tmp, and holds its record once it is written.
AloneOK ==
  ~ overlap =>
    /\ \A g, h \in Handlers :
         handlers[g].stage # "idle" /\ handlers[h].stage # "idle" => g = h
    /\ \A h \in Handlers :
         /\ handlers[h].stage = "write" => handlers[h].inode = tmp /\ content[tmp] = "empty"
         /\ handlers[h].stage = "rename" =>
              tmp # NoInode /\ (content[tmp] = "dirty" <=> Value(handlers[h].op))

\* While the promise stands the flag is set, and no request is about to clear it.
PromiseOK ==
  promised =>
    /\ Dirty /\ ~ overlap
    /\ \A h \in Handlers : handlers[h].stage # "idle" => Value(handlers[h].op)

\* Inode i holds the value v, or will when those are done who have it open.
Settles(i, v) ==
  IF v THEN \/ content[i] = "dirty"
            \/ \E h \in Handlers : handlers[h].stage = "write" /\ handlers[h].inode = i
       ELSE content[i] # "dirty"

\* A request has opened <node>.json.tmp, or written it.
Touched == \E h \in Handlers : handlers[h].stage \in {"write", "rename"}

\* As long as nobody has failed and all ask for v, the file that the next rename
\* moves settles on v, and so does the file that the last one has moved.
AgreedOK ==
  /\ ~ Quiet => since # {}
  /\ \A v \in BOOLEAN : since = {v} =>
       /\ \A h \in Handlers : handlers[h].stage # "idle" => Value(handlers[h].op) = v
       /\ Quiet => tmp = NoInode
       /\ (Quiet \/ Touched) /\ tmp # NoInode => Settles(tmp, v)
       /\ (Quiet \/ Touched) /\ tmp = NoInode => file # NoInode /\ Settles(file, v)

\* The inductive invariant.  FlagSurvives follows from PromiseOK, SettledFlag
\* from AgreedOK when nobody is under way.
StoreInv ==
  TypeOK /\ NamesOK /\ AloneOK /\ PromiseOK /\ AgreedOK /\ InsertedIsTransition

-----------------------------------------------------------------------------
\* A handler without a request.
LEMMA IdleRequest ==
  /\ Idle \in Request /\ Idle.stage = "idle" /\ Idle.inode = NoInode
  /\ Idle.op = "set"
BY DEF Idle, Request

\* What a request asks for is a flag.
LEMMA ValueType == \A op \in {"add", "set", "clear"} : Value(op) \in BOOLEAN
BY DEF Value

\* There is always an inode for a request that has to create the file.
LEMMA FreeInode ==
  ASSUME TypeOK, NamesOK, tmp = NoInode
  PROVE  Free # {}
<1> DEFINE Inode[h \in Handlers] == handlers[h].inode
           open == {Inode[h] : h \in Handlers}
           used == {tmp, file} \cup {handlers[h].inode : h \in Handlers}
<1>1. open = {handlers[h].inode : h \in Handlers}
  OBVIOUS
<1>2. IsFiniteSet(open) /\ Cardinality(open) <= Cardinality(Handlers)
  <2>1. Inode \in Surjection(Handlers, open)
    BY DEF Surjection
  <2>2. IsFiniteSet(Handlers)
    BY PendingStoreAssumption
  <2> HIDE DEF open, Inode
  <2> QED BY <2>1, <2>2, FS_Surjection
<1> HIDE DEF open, Inode
<1>3. /\ IsFiniteSet({tmp, file}) /\ Cardinality({tmp, file}) \in Nat
      /\ Cardinality({tmp, file}) <= 2
  <2>1. IsFiniteSet({tmp}) /\ Cardinality({tmp}) = 1
    BY FS_Singleton
  <2>2. {tmp, file} = {tmp} \cup {file}
    OBVIOUS
  <2>3. IsFiniteSet({tmp} \cup {file}) /\ Cardinality({tmp} \cup {file}) <= 2
    BY <2>1, FS_AddElement
  <2> QED BY <2>2, <2>3, FS_CardinalityType
<1>4. used = {tmp, file} \cup open
  BY <1>1
<1> HIDE DEF used
<1>5. IsFiniteSet(used) /\ Cardinality(used) <= Cardinality(Handlers) + 2
  <2>1. IsFiniteSet({tmp, file} \cap open)
    BY <1>3, FS_Intersection
  <2>2. Cardinality({tmp, file} \cap open) \in Nat /\ Cardinality(open) \in Nat
        /\ Cardinality(Handlers) \in Nat
    BY <1>2, <2>1, FS_CardinalityType, PendingStoreAssumption
  <2>3. IsFiniteSet({tmp, file} \cup open)
        /\ Cardinality({tmp, file} \cup open)
             = Cardinality({tmp, file}) + Cardinality(open) - Cardinality({tmp, file} \cap open)
    BY <1>2, <1>3, FS_Union
  <2> QED BY <1>2, <1>3, <1>4, <2>2, <2>3
<1>6. SUFFICES ASSUME Free = {} PROVE FALSE
  OBVIOUS
<1>7. Inodes \cup {NoInode} \subseteq used
  BY <1>6 DEF Free, used
<1>8. IsFiniteSet(Inodes) /\ NoInode \notin Inodes
      /\ Cardinality(Inodes) >= Cardinality(Handlers) + 2
      /\ Cardinality(Inodes) \in Nat /\ Cardinality(Handlers) \in Nat
  BY PendingStoreAssumption, FS_CardinalityType
<1>9. Cardinality(Inodes \cup {NoInode}) = Cardinality(Inodes) + 1
  BY <1>8, FS_AddElement
<1>10. Cardinality(Inodes \cup {NoInode}) <= Cardinality(used)
  BY <1>5, <1>7, FS_Subset
<1> QED BY <1>5, <1>8, <1>9, <1>10, FS_CardinalityType

\* What opening <node>.json.tmp yields: the file of that name, or one that nobody uses.
LEMMA OpenedInode ==
  ASSUME TypeOK, NamesOK
  PROVE  /\ Opened \in Inodes /\ Opened # NoInode /\ Opened # file
         /\ tmp # NoInode => Opened = tmp
         /\ tmp = NoInode => \A h \in Handlers : handlers[h].inode # Opened
<1>0. NoInode \notin Inodes
  BY PendingStoreAssumption
<1>1. CASE tmp = NoInode
  <2>1. Opened \in Free
    BY <1>1, FreeInode DEF Opened
  <2> QED BY <1>0, <1>1, <2>1 DEF Free
<1>2. CASE tmp # NoInode
  BY <1>0, <1>2 DEF Opened, TypeOK, NamesOK
<1> QED BY <1>1, <1>2

\* Collecting keeps what has a name or is open.
LEMMA CollectedKeeps ==
  ASSUME NEW c \in [Inodes -> {"empty", "dirty", "clean", "garbage"}]
  PROVE  /\ Collected(c) \in [Inodes -> {"empty", "dirty", "clean", "garbage"}]
         /\ tmp' \in Inodes => Collected(c)[tmp'] = c[tmp']
         /\ file' \in Inodes => Collected(c)[file'] = c[file']
         /\ \A h \in Handlers : handlers'[h].inode \in Inodes =>
              Collected(c)[handlers'[h].inode] = c[handlers'[h].inode]
<1>1. tmp' \notin Free' /\ file' \notin Free'
      /\ \A h \in Handlers : handlers'[h].inode \notin Free'
  BY DEF Free
<1> QED BY <1>1 DEF Collected

-----------------------------------------------------------------------------
\* At first no file exists and nobody has asked for anything.
LEMMA StoreInvInit == Init => StoreInv
<1> SUFFICES ASSUME Init PROVE StoreInv
  OBVIOUS
<1>1. \A h \in Handlers : handlers[h] = Idle
  BY DEF Init
<1>2. TypeOK
  BY IdleRequest DEF Init, TypeOK
<1>3. NamesOK /\ AloneOK /\ PromiseOK
  BY <1>1, IdleRequest DEF Init, NamesOK, AloneOK, PromiseOK
<1>4. Quiet /\ since = {} /\ InsertedIsTransition
  BY <1>1, IdleRequest DEF Init, Quiet, InsertedIsTransition
<1>5. AgreedOK
  BY <1>4 DEF AgreedOK
<1> QED BY <1>2, <1>3, <1>4, <1>5 DEF StoreInv

\* A request begins: the histories start anew when it is alone.
LEMMA BeginStep ==
  ASSUME StoreInv, NEW h \in Handlers, NEW op \in Ops, Begin(h, op)
  PROVE  StoreInv'
<1> DEFINE r == [Idle EXCEPT !.stage = IF op = "add" THEN "read" ELSE "open", !.op = op]
<1>1. /\ r \in Request /\ r.stage \in {"read", "open"} /\ r.op = op /\ r.inode = NoInode
      /\ op \in {"add", "set", "clear"} /\ (op = "add" => r.stage = "read")
  BY IdleRequest, PendingStoreAssumption DEF Idle, Request
<1>2. handlers' = [handlers EXCEPT ![h] = r]
  BY DEF Begin
<1> HIDE DEF r
<1>3. /\ handlers \in [Handlers -> Request] /\ handlers[h].stage = "idle"
      /\ handlers'[h] = r /\ \A g \in Handlers : g # h => handlers'[g] = handlers[g]
      /\ ~ Quiet'
  BY <1>1, <1>2 DEF StoreInv, TypeOK, Begin, Quiet
<1>4. /\ content' = content /\ tmp' = tmp /\ file' = file /\ overlap' = ~ Quiet
      /\ (Dirty' <=> Dirty)
  BY DEF Begin, Dirty
<1>5. Quiet => \A g \in Handlers : g # h => handlers'[g].stage = "idle"
  BY <1>3 DEF Quiet
<1>6. TypeOK'
  BY <1>1, <1>2, <1>4 DEF StoreInv, TypeOK, Begin, Quiet
<1>7. NamesOK'
  BY <1>1, <1>3, <1>4 DEF StoreInv, NamesOK
<1>8. AloneOK'
  BY <1>1, <1>3, <1>4, <1>5 DEF AloneOK
<1>9. PromiseOK'
  BY <1>1, <1>3, <1>4, <1>5 DEF StoreInv, PromiseOK, Begin, Value
<1>10. AgreedOK'
  <2>1. since' = (IF Quiet THEN {} ELSE since) \cup {Value(op)}
    BY DEF Begin
  <2>2. since' # {}
    BY <2>1
  <2>3. ASSUME NEW v \in BOOLEAN, since' = {v}
        PROVE  /\ \A g \in Handlers : handlers'[g].stage # "idle" => Value(handlers'[g].op) = v
               /\ Touched' /\ tmp' # NoInode => Settles(tmp, v)'
               /\ Touched' /\ tmp' = NoInode => file' # NoInode /\ Settles(file, v)'
    <3>1. Value(op) = v
      BY <2>1, <2>3
    <3>2. CASE Quiet
      BY <1>1, <1>3, <1>5, <3>1, <3>2 DEF Touched
    <3>3. CASE ~ Quiet
      <4>1. since = {v}
        BY <2>1, <2>3, <3>3 DEF StoreInv, AgreedOK
      <4>2. Touched' => Touched
        BY <1>1, <1>3 DEF Touched
      <4>4. Settles(tmp, v) => Settles(tmp, v)'
        BY <1>1, <1>3, <1>4 DEF Settles
      <4>5. Settles(file, v) => Settles(file, v)'
        BY <1>1, <1>3, <1>4 DEF Settles
      <4> QED BY <1>1, <1>3, <1>4, <3>1, <4>1, <4>2, <4>4, <4>5 DEF StoreInv, AgreedOK
    <3> QED BY <3>2, <3>3
  <2> QED BY <1>3, <2>2, <2>3 DEF AgreedOK
<1>11. InsertedIsTransition'
  BY <1>1, <1>3, <1>4, <1>5 DEF InsertedIsTransition
<1> QED BY <1>6, <1>7, <1>8, <1>9, <1>10, <1>11 DEF StoreInv

\* PendingGet: the request has read the flag, or failed to.
LEMMA ReadStep ==
  ASSUME StoreInv, NEW h \in Handlers, Read(h)
  PROVE  StoreInv'
<1>a. PICK failed \in BOOLEAN :
        handlers' = [handlers EXCEPT ![h].stage = "open", ![h].misread = failed,
                                     ![h].prev = ~ failed /\ Dirty]
  BY DEF Read
<1> DEFINE r == [handlers[h] EXCEPT !.stage = "open", !.misread = failed,
                                    !.prev = ~ failed /\ Dirty]
<1>0. handlers \in [Handlers -> Request] /\ handlers[h].stage = "read"
  BY DEF StoreInv, TypeOK, Read
<1>1. /\ r \in Request /\ r.stage = "open" /\ r.op = handlers[h].op
      /\ r.inode = handlers[h].inode
      /\ IF r.misread THEN ~ r.prev ELSE r.prev <=> Dirty
  <2>1. Dirty \in BOOLEAN
    BY DEF Dirty
  <2>2. PICK b \in BOOLEAN : b = (~ failed /\ Dirty)
    BY <2>1
  <2>3. r = [handlers[h] EXCEPT !.stage = "open", !.misread = failed, !.prev = b]
    BY <2>2
  <2> HIDE DEF r
  <2>4. /\ r \in Request /\ r.stage = "open" /\ r.op = handlers[h].op
        /\ r.inode = handlers[h].inode /\ r.prev = b /\ r.misread = failed
    <3>1. r \in Request
      BY <1>0, <2>3 DEF Request
    <3>2. r.stage = "open" /\ r.op = handlers[h].op /\ r.inode = handlers[h].inode
      BY <1>0, <2>3 DEF Request
    <3>3. r.prev = b /\ r.misread = failed
      BY <1>0, <2>3, Zenon DEF Request
    <3> QED BY <3>1, <3>2, <3>3
  <2>5. IF failed THEN ~ b ELSE b <=> Dirty
    BY <2>2
  <2> QED BY <2>4, <2>5
<1>2. handlers' = [handlers EXCEPT ![h] = r]
  BY <1>a, <1>0 DEF Request
<1> HIDE DEF r
<1>3. /\ handlers'[h] = r /\ \A g \in Handlers : g # h => handlers'[g] = handlers[g]
      /\ ~ Quiet /\ ~ Quiet'
  BY <1>0, <1>1, <1>2 DEF Quiet
<1>4. /\ content' = content /\ tmp' = tmp /\ file' = file /\ overlap' = overlap
      /\ since' = since /\ promised' = promised /\ (Dirty' <=> Dirty)
  BY DEF Read, Dirty
<1>6. TypeOK'
  BY <1>1, <1>2, <1>4 DEF StoreInv, TypeOK
<1>7. NamesOK'
  BY <1>0, <1>1, <1>3, <1>4 DEF StoreInv, NamesOK
<1>8. AloneOK'
  BY <1>0, <1>1, <1>3, <1>4 DEF StoreInv, AloneOK
<1>9. PromiseOK'
  BY <1>0, <1>1, <1>3, <1>4 DEF StoreInv, PromiseOK
<1>10. AgreedOK'
  <2>1. Touched' => Touched
    BY <1>1, <1>3 DEF Touched
  <2>2. ASSUME NEW v \in BOOLEAN
        PROVE  /\ Settles(tmp, v) => Settles(tmp, v)'
               /\ Settles(file, v) => Settles(file, v)'
    BY <1>0, <1>3, <1>4 DEF Settles
  <2> QED BY <1>0, <1>1, <1>3, <1>4, <2>1, <2>2 DEF StoreInv, AgreedOK
<1>11. InsertedIsTransition'
  BY <1>0, <1>1, <1>3, <1>4 DEF StoreInv, InsertedIsTransition
<1> QED BY <1>6, <1>7, <1>8, <1>9, <1>10, <1>11 DEF StoreInv

\* os.WriteFile opens (and empties) the file named tmp, or creates it.
LEMMA OpenStep ==
  ASSUME StoreInv, NEW h \in Handlers, Open(h)
  PROVE  StoreInv'
<1> DEFINE i == Opened
           r == [handlers[h] EXCEPT !.stage = "write", !.inode = i]
<1>0. handlers \in [Handlers -> Request] /\ handlers[h].stage = "open"
  BY DEF StoreInv, TypeOK, Open, Truncates
<1>1. /\ i \in Inodes /\ i # NoInode /\ i # file /\ (tmp # NoInode => i = tmp)
      /\ tmp = NoInode => \A g \in Handlers : handlers[g].inode # i
  BY OpenedInode DEF StoreInv
<1>2. /\ handlers' = [handlers EXCEPT ![h] = r] /\ content' = [content EXCEPT ![i] = "empty"]
      /\ tmp' = i /\ file' = file /\ overlap' = overlap
      /\ since' = since /\ promised' = promised
  BY <1>0 DEF Open, Truncates, Request
<1> HIDE DEF i
<1>3. /\ r \in Request /\ r.stage = "write" /\ r.op = handlers[h].op
      /\ r.inode = i /\ r.prev = handlers[h].prev /\ r.misread = handlers[h].misread
  BY <1>0, <1>1 DEF Request
<1> HIDE DEF r
<1>4. /\ handlers'[h] = r /\ \A g \in Handlers : g # h => handlers'[g] = handlers[g]
      /\ ~ Quiet /\ ~ Quiet'
  BY <1>0, <1>2, <1>3 DEF Quiet
<1>5. /\ content'[i] = "empty" /\ \A j \in Inodes : j # i => content'[j] = content[j]
      /\ Dirty' <=> Dirty
  BY <1>1, <1>2 DEF StoreInv, TypeOK, Dirty
<1>6. TypeOK'
  BY <1>1, <1>2, <1>3 DEF StoreInv, TypeOK
<1>7. NamesOK'
  BY <1>0, <1>1, <1>2, <1>3, <1>4 DEF StoreInv, NamesOK
<1>8. AloneOK'
  BY <1>0, <1>1, <1>2, <1>3, <1>4, <1>5 DEF StoreInv, AloneOK
<1>9. PromiseOK'
  BY <1>0, <1>2, <1>3, <1>4, <1>5 DEF StoreInv, PromiseOK
<1>10. AgreedOK'
  <2>1. ASSUME NEW v \in BOOLEAN PROVE Settles(tmp, v)'
    BY <1>2, <1>3, <1>4, <1>5 DEF Settles
  <2> QED BY <1>0, <1>1, <1>2, <1>3, <1>4, <2>1 DEF StoreInv, AgreedOK
<1>11. InsertedIsTransition'
  BY <1>0, <1>2, <1>3, <1>4, <1>5 DEF StoreInv, InsertedIsTransition
<1> QED BY <1>6, <1>7, <1>8, <1>9, <1>10, <1>11 DEF StoreInv

\* It writes what it was asked for.  Several may have the same file open: then
\* they overlap.
LEMMA WriteStep ==
  ASSUME StoreInv, NEW h \in Handlers, Write(h)
  PROVE  StoreInv'
<1> DEFINE i == handlers[h].inode
           r == [handlers[h] EXCEPT !.stage = "rename", !.inode = NoInode]
           c == [content EXCEPT ![i] = Overwritten(@, handlers[h].op)]
           Held == {"empty", "dirty", "clean", "garbage"}
<1>0. handlers \in [Handlers -> Request] /\ handlers[h].stage = "write"
  BY DEF StoreInv, TypeOK, Write
<1>1. i \in Inodes /\ handlers[h].op \in {"add", "set", "clear"}
  BY <1>0 DEF StoreInv, NamesOK, Request
<1>2. /\ handlers' = [handlers EXCEPT ![h] = r] /\ content' = Collected(c)
      /\ tmp' = tmp /\ file' = file /\ overlap' = overlap
      /\ since' = since /\ promised' = promised
  BY <1>0 DEF Write, Request
<1>3. /\ r \in Request /\ r.stage = "rename" /\ r.op = handlers[h].op
      /\ r.inode = NoInode /\ r.prev = handlers[h].prev /\ r.misread = handlers[h].misread
  BY <1>0 DEF Request
<1> HIDE DEF r
<1>4. /\ handlers'[h] = r /\ \A g \in Handlers : g # h => handlers'[g] = handlers[g]
      /\ ~ Quiet /\ ~ Quiet'
  BY <1>0, <1>2, <1>3 DEF Quiet
<1>5. /\ c \in [Inodes -> Held] /\ \A j \in Inodes : j # i => c[j] = content[j]
      /\ c[i] = Overwritten(content[i], handlers[h].op)
      /\ c[i] = "dirty" <=> Value(handlers[h].op)
  BY <1>1 DEF StoreInv, TypeOK, Overwritten
<1> HIDE DEF c, i
<1>6. /\ content' \in [Inodes -> Held]
      /\ tmp \in Inodes => content'[tmp] = c[tmp]
      /\ file \in Inodes => content'[file] = c[file]
  BY <1>2, <1>5, CollectedKeeps
<1>t. tmp \in Inodes \cup {NoInode} /\ file \in Inodes \cup {NoInode}
  BY DEF StoreInv, TypeOK
<1>7. TypeOK'
  BY <1>2, <1>3, <1>6 DEF StoreInv, TypeOK
<1>8. NamesOK'
  BY <1>0, <1>2, <1>3, <1>4 DEF StoreInv, NamesOK
<1>9. ~ overlap => i = tmp /\ i # file /\ (Dirty' <=> Dirty)
  <2>1. ~ overlap => i = tmp /\ i # file
    BY <1>0, <1>1, PendingStoreAssumption DEF StoreInv, AloneOK, NamesOK, i
  <2> QED BY <1>2, <1>5, <1>6, <1>t, <2>1 DEF Dirty
<1>10. AloneOK'
  <2>1. ~ overlap => \A g \in Handlers : g # h => handlers'[g].stage = "idle"
    BY <1>0, <1>4 DEF StoreInv, AloneOK
  <2>2. ~ overlap => tmp # NoInode /\ (content'[tmp] = "dirty" <=> Value(handlers[h].op))
    BY <1>1, <1>5, <1>6, <1>9, PendingStoreAssumption
  <2> QED BY <1>2, <1>3, <1>4, <2>1, <2>2 DEF AloneOK
<1>11. PromiseOK'
  BY <1>0, <1>2, <1>3, <1>4, <1>9 DEF StoreInv, PromiseOK
<1>12. AgreedOK'
  <2>0. Touched
    BY <1>0 DEF Touched
  <2>1. ASSUME NEW v \in BOOLEAN, since = {v}, NEW j \in Inodes, Settles(j, v),
               content'[j] = c[j]
        PROVE  Settles(j, v)'
    <3>1. Value(handlers[h].op) = v
      BY <1>0, <2>1 DEF StoreInv, AgreedOK
    <3>2. CASE j = i
      BY <1>5, <2>1, <3>1, <3>2 DEF Settles
    <3>3. CASE j # i
      BY <1>0, <1>4, <1>5, <2>1, <3>3 DEF Settles, i
    <3> QED BY <3>2, <3>3
  <2>2. ASSUME NEW v \in BOOLEAN, since = {v}
        PROVE  /\ tmp # NoInode => Settles(tmp, v)'
               /\ tmp = NoInode => file # NoInode /\ Settles(file, v)'
    <3>1. /\ tmp # NoInode => Settles(tmp, v)
          /\ tmp = NoInode => file # NoInode /\ Settles(file, v)
      BY <2>0, <2>2 DEF StoreInv, AgreedOK
    <3>2. CASE tmp # NoInode
      <4>1. tmp \in Inodes /\ content'[tmp] = c[tmp] /\ Settles(tmp, v)
        BY <1>6, <1>t, <3>1, <3>2
      <4>2. \A j \in Inodes : content'[j] = c[j] /\ Settles(j, v) => Settles(j, v)'
        BY <2>1, <2>2
      <4>3. Settles(tmp, v)'
        BY <1>2, <4>1, <4>2 DEF Settles
      <4> QED BY <3>2, <4>3
    <3>3. CASE tmp = NoInode
      <4>1. file \in Inodes /\ content'[file] = c[file] /\ Settles(file, v)
        BY <1>6, <1>t, <3>1, <3>3
      <4>2. \A j \in Inodes : content'[j] = c[j] /\ Settles(j, v) => Settles(j, v)'
        BY <2>1, <2>2
      <4>3. Settles(file, v)'
        BY <1>2, <4>1, <4>2 DEF Settles
      <4> QED BY <3>1, <3>3, <4>3
    <3> QED BY <3>2, <3>3
  <2> QED BY <1>0, <1>2, <1>3, <1>4, <2>2 DEF StoreInv, AgreedOK
<1>13. InsertedIsTransition'
  BY <1>0, <1>2, <1>3, <1>4, <1>9 DEF StoreInv, InsertedIsTransition
<1> QED BY <1>7, <1>8, <1>10, <1>11, <1>12, <1>13 DEF StoreInv

\* os.Rename gives the name of the flag to what is named tmp by then.
LEMMA RenameStep ==
  ASSUME StoreInv, NEW h \in Handlers, Rename(h)
  PROVE  StoreInv'
<1>0. /\ handlers \in [Handlers -> Request] /\ handlers[h].stage = "rename"
      /\ content \in [Inodes -> {"empty", "dirty", "clean", "garbage"}]
      /\ tmp \in Inodes \cup {NoInode} /\ file \in Inodes \cup {NoInode}
  BY DEF StoreInv, TypeOK, Rename
<1>1. /\ handlers' = [handlers EXCEPT ![h] = Idle] /\ content' = Collected(content)
      /\ overlap' = overlap /\ since' = since
      /\ tmp' = NoInode /\ file' = IF tmp # NoInode THEN tmp ELSE file
      /\ promised' = IF tmp # NoInode
                       THEN promised \/ (Value(handlers[h].op) /\ ~ overlap) ELSE promised
  BY DEF Rename
<1>2. /\ handlers'[h].stage = "idle" /\ handlers'[h].inode = NoInode
      /\ \A g \in Handlers : g # h => handlers'[g] = handlers[g]
      /\ ~ Quiet /\ Touched
  BY <1>0, <1>1, IdleRequest DEF Quiet, Touched
<1>3. /\ content' \in [Inodes -> {"empty", "dirty", "clean", "garbage"}]
      /\ file' \in Inodes => content'[file'] = content[file']
  BY <1>0, <1>1, CollectedKeeps
<1>4. file' \in Inodes \cup {NoInode} /\ (file' = NoInode <=> tmp = NoInode /\ file = NoInode)
  BY <1>0, <1>1
<1>5. TypeOK'
  <2>1. promised' \in BOOLEAN
    BY <1>1 DEF StoreInv, TypeOK, Value
  <2>2. handlers' \in [Handlers -> Request]
    BY <1>0, <1>1, IdleRequest
  <2> QED BY <1>1, <1>3, <1>4, <2>1, <2>2 DEF StoreInv, TypeOK
<1>6. NamesOK'
  BY <1>0, <1>1, <1>2 DEF StoreInv, NamesOK
<1>7. ~ overlap => /\ \A g \in Handlers : handlers'[g].stage = "idle"
                   /\ tmp # NoInode /\ (Dirty' <=> Value(handlers[h].op))
  <2>1. ~ overlap => /\ \A g \in Handlers : g # h => handlers[g].stage = "idle"
                     /\ tmp # NoInode /\ (content[tmp] = "dirty" <=> Value(handlers[h].op))
    BY <1>0 DEF StoreInv, AloneOK
  <2> QED BY <1>0, <1>1, <1>2, <1>3, <2>1, PendingStoreAssumption DEF Dirty
<1>8. AloneOK' /\ InsertedIsTransition'
  BY <1>1, <1>7 DEF AloneOK, InsertedIsTransition
<1>9. PromiseOK'
  <2>1. promised' => ~ overlap /\ Value(handlers[h].op)
    BY <1>0, <1>1 DEF StoreInv, PromiseOK
  <2> QED BY <1>1, <1>7, <2>1 DEF PromiseOK
<1>10. AgreedOK'
  <2>1. since # {}
    BY <1>2 DEF StoreInv, AgreedOK
  <2>2. ASSUME NEW v \in BOOLEAN, since = {v}
        PROVE  /\ \A g \in Handlers : handlers'[g].stage # "idle" => Value(handlers'[g].op) = v
               /\ file' # NoInode /\ Settles(file, v)'
    <3>1. \A g \in Handlers : handlers[g].stage # "idle" => Value(handlers[g].op) = v
      BY <2>2 DEF StoreInv, AgreedOK
    <3>2. file' # NoInode /\ Settles(file', v)
      BY <1>1, <1>2, <1>4, <2>2 DEF StoreInv, AgreedOK
    <3>3. \A g \in Handlers : handlers[g].stage = "write" => handlers'[g] = handlers[g]
      BY <1>0, <1>2
    <3> QED BY <1>2, <1>3, <1>4, <3>1, <3>2, <3>3 DEF Settles
  <2> QED BY <1>1, <2>1, <2>2 DEF AgreedOK
<1> QED BY <1>5, <1>6, <1>8, <1>9, <1>10 DEF StoreInv

\* A request fails and gives up; what it left behind stays.
LEMMA FailStep ==
  ASSUME StoreInv, NEW h \in Handlers, Fail(h)
  PROVE  StoreInv'
<1>0. /\ handlers \in [Handlers -> Request] /\ handlers[h].stage # "idle"
      /\ content \in [Inodes -> {"empty", "dirty", "clean", "garbage"}]
      /\ tmp \in Inodes \cup {NoInode} /\ file \in Inodes \cup {NoInode}
  BY DEF StoreInv, TypeOK, Fail
<1>1. /\ handlers' = [handlers EXCEPT ![h] = Idle] /\ content' = Collected(content)
      /\ overlap' = overlap /\ since' = BOOLEAN
      /\ tmp' = tmp /\ file' = file /\ promised' = promised
  BY DEF Fail
<1>2. /\ handlers'[h].stage = "idle" /\ handlers'[h].inode = NoInode
      /\ \A g \in Handlers : g # h => handlers'[g] = handlers[g]
  BY <1>0, <1>1, IdleRequest
<1>3. /\ content' \in [Inodes -> {"empty", "dirty", "clean", "garbage"}]
      /\ file \in Inodes => content'[file] = content[file]
      /\ Dirty' <=> Dirty
  BY <1>0, <1>1, CollectedKeeps DEF Dirty
<1>4. ~ overlap => \A g \in Handlers : handlers'[g].stage = "idle"
  BY <1>0, <1>2 DEF StoreInv, AloneOK
<1>5. TypeOK'
  BY <1>0, <1>1, <1>3, IdleRequest DEF StoreInv, TypeOK
<1>6. NamesOK'
  BY <1>1, <1>2 DEF StoreInv, NamesOK
<1>7. AloneOK' /\ InsertedIsTransition'
  BY <1>1, <1>4 DEF AloneOK, InsertedIsTransition
<1>8. PromiseOK'
  BY <1>1, <1>3, <1>4 DEF StoreInv, PromiseOK
<1>9. AgreedOK'
  BY <1>1 DEF AgreedOK
<1> QED BY <1>5, <1>6, <1>7, <1>8, <1>9 DEF StoreInv

\* The process dies: nobody has a file open, and both names stay.
LEMMA CrashStep == StoreInv /\ Crash => StoreInv'
<1> SUFFICES ASSUME StoreInv, Crash PROVE StoreInv'
  OBVIOUS
<1>0. /\ content \in [Inodes -> {"empty", "dirty", "clean", "garbage"}]
      /\ tmp \in Inodes \cup {NoInode} /\ file \in Inodes \cup {NoInode}
  BY DEF StoreInv, TypeOK
<1>1. /\ handlers' = [h \in Handlers |-> Idle] /\ content' = Collected(content)
      /\ overlap' = FALSE /\ since' = {}
      /\ tmp' = tmp /\ file' = file /\ promised' = promised
  BY DEF Crash
<1>2. /\ content' \in [Inodes -> {"empty", "dirty", "clean", "garbage"}]
      /\ Dirty' <=> Dirty
  BY <1>0, <1>1, CollectedKeeps DEF Dirty
<1>3. \A h \in Handlers : handlers'[h].stage = "idle" /\ handlers'[h].inode = NoInode
  BY <1>1, IdleRequest
<1>4. TypeOK'
  BY <1>0, <1>1, <1>2, IdleRequest DEF StoreInv, TypeOK
<1>5. NamesOK' /\ AloneOK' /\ InsertedIsTransition'
  BY <1>1, <1>3 DEF StoreInv, NamesOK, AloneOK, InsertedIsTransition
<1>6. PromiseOK'
  BY <1>1, <1>2, <1>3 DEF StoreInv, PromiseOK
<1>7. AgreedOK'
  BY <1>1, <1>3 DEF AgreedOK, Quiet
<1> QED BY <1>4, <1>5, <1>6, <1>7 DEF StoreInv

\* Every step keeps the invariant.
LEMMA StoreInvStep == StoreInv /\ [Next]_vars => StoreInv'
<1> SUFFICES ASSUME StoreInv, [Next]_vars PROVE StoreInv'
  OBVIOUS
<1>1. CASE Crash
  BY <1>1, CrashStep
<1>2. CASE \E h \in Handlers : \E op \in Ops : Begin(h, op)
  BY <1>2, BeginStep
<1>3. CASE \E h \in Handlers : Read(h) \/ Open(h) \/ Write(h) \/ Rename(h) \/ Fail(h)
  BY <1>3, ReadStep, OpenStep, WriteStep, RenameStep, FailStep
<1>4. CASE UNCHANGED vars
  BY <1>4 DEF vars, StoreInv, TypeOK, NamesOK, AloneOK, PromiseOK, Dirty, AgreedOK, Quiet,
              Touched, Settles, InsertedIsTransition
<1> QED BY <1>1, <1>2, <1>3, <1>4 DEF Next

\* The invariant of PendingStore.
LEMMA StoreInvHolds == Spec => []StoreInv
BY StoreInvInit, StoreInvStep, PTL DEF Spec

\* "durable *flag*" (pendingstore.go): a flag that a request has reported as set
\* stays set until a clear begins or requests overlap (see FlagSurvives).  What
\* failures and crashes leave under the name <node>.json.tmp never becomes the
\* flag: the next request empties that file before it writes and renames it.
THEOREM FlagIsDurable == Spec => []FlagSurvives
<1>1. StoreInv => FlagSurvives
  BY DEF StoreInv, PromiseOK, FlagSurvives
<1> QED BY <1>1, StoreInvHolds, PTL

\* When no request is under way any more, the flag is what all of them asked for,
\* if they agreed and none failed (see SettledFlag): sharing the name
\* <node>.json.tmp does them no harm then.
THEOREM FlagSettles == Spec => []SettledFlag
<1>1. StoreInv => SettledFlag
  <2> SUFFICES ASSUME StoreInv, Quiet, NEW v \in BOOLEAN, since = {v}
               PROVE  Dirty <=> v
    BY DEF SettledFlag
  <2>1. file # NoInode /\ Settles(file, v)
    BY DEF StoreInv, AgreedOK
  <2>2. \A h \in Handlers : handlers[h].stage # "write"
    BY DEF Quiet
  <2> QED BY <2>1, <2>2 DEF Settles, Dirty
<1> QED BY <1>1, StoreInvHolds, PTL

\* While requests do not overlap, what an add has read of the flag is still so
\* when it writes it: a reply without inserted comes from a flag that was set, and
\* one with inserted from the transition false->true, or from a read whose error the
\* handler has dropped (see InsertedIsTransition; router.go, /pending/add).
THEOREM AddReportsTransition == Spec => []InsertedIsTransition
<1>1. StoreInv => InsertedIsTransition
  BY DEF StoreInv
<1> QED BY <1>1, StoreInvHolds, PTL

-----------------------------------------------------------------------------
(* The runs: what they see of a tree, its snapshots and their bases. *)

\* A request that is under way.
Working(h) == requests[h].stage # "idle"

\* It has taken a snapshot and not yet saved its name.
Unsaved(h) == requests[h].via = "zfs"
              /\ requests[h].stage \in {"diff", "destroy", "truncate", "write"}

\* A request of /preflight/run.
RunRecord == [stage : Stages, via : Providers, prev : Nat, new : Nat, version : Nat,
            changed : BOOLEAN, failed : BOOLEAN]

\* The values of the variables; times and versions are not ahead.
RunTypeOK ==
  /\ zfs \in BOOLEAN
  /\ tree \in Nat \ {0} /\ second \in Nat \ {0}
  /\ DOMAIN snaps \subseteq 1..second
  /\ \A s \in DOMAIN snaps : snaps[s] \in 1..tree
  /\ base \in [Providers -> Nat]
  /\ requests \in [Requests -> RunRecord]
  /\ first \in Nat /\ reported \in 0..tree
  /\ sound \in BOOLEAN /\ trusted \in Nat

\* Snapshots are taken in the order of their names.
SnapsOrdered == \A s, t \in DOMAIN snaps : s < t => snaps[s] <= snaps[t]

\* A name is a base, or the one to be replaced, only while it is in use, or in the
\* seconds after: it cannot be given away again.
SnapsNamed ==
  /\ base["zfs"] <= second
  /\ base["zfs"] = second => second \in DOMAIN snaps
  /\ \A h \in Requests :
       IF requests[h].via = "zfs"
       THEN /\ zfs
            /\ requests[h].prev <= second
            /\ requests[h].prev = second => second \in DOMAIN snaps
            /\ requests[h].stage \notin {"idle", "open", "walk"}
       ELSE requests[h].stage \notin {"snapshot", "diff", "destroy"}

\* A snapshot that is not yet saved is that of its request alone.
UnsavedOK ==
  \A h \in Requests : Unsaved(h) =>
    /\ requests[h].prev < requests[h].new
    /\ requests[h].new \in DOMAIN snaps
    /\ snaps[requests[h].new] = requests[h].version
    /\ base["zfs"] # requests[h].new
    /\ \A g \in Requests : requests[g].via = "zfs" => requests[g].prev # requests[h].new
    /\ \A g \in Requests \ {h} : Unsaved(g) => requests[g].new # requests[h].new

\* The verdict compares the version with that of the base.
VerdictOK ==
  /\ base["generic"] <= tree
  /\ \A h \in Requests :
       LET r == requests[h]
       IN  /\ r.version <= tree
           /\ r.stage \in {"snapshot", "diff"} => ~ r.changed
           /\ r.stage \in {"diff", "destroy"} => r.prev # 0
           /\ r.failed => r.stage \in {"destroy", "truncate", "write"}
           /\ r.via = "zfs" /\ ~ r.failed /\ r.stage \in {"destroy", "truncate"}
              /\ r.prev \in DOMAIN snaps => (r.changed <=> snaps[r.prev] # r.version)
           /\ r.via = "generic" /\ r.stage \in {"walk", "truncate"} => r.prev <= tree
           /\ r.via = "generic" /\ r.stage \in {"truncate", "write"} =>
                /\ r.new = r.version /\ r.version \in 1..tree /\ r.prev <= r.version
           /\ r.via = "generic" /\ r.stage = "truncate" =>
                 (r.changed <=> r.prev # 0 /\ r.version # r.prev)

\* Whatever a request has read of the file of its base is still there, and a file that
\* it has opened is empty.
Reads(h, none) ==
  LET r == requests[h]
  IN  /\ r.via = "zfs" /\ r.stage \in {"snapshot", "diff", "destroy", "truncate"}
         => r.prev = base["zfs"] \/ (none /\ r.prev = 0)
      /\ r.via = "generic" /\ r.stage \in {"walk", "truncate"}
         => r.prev = base["generic"] \/ (none /\ r.prev = 0)
      /\ r.stage = "write" => base[r.via] = 0

\* One request is under way at most.
AtMostOne == \A g, h \in Requests : Working(g) /\ Working(h) => g = h

\* Without an overlap one request is under way at most, and its base is that of the
\* file, or none if it could not be read.
RunAloneOK ==
  Spared({"overlap"}) => AtMostOne /\ \A h \in Requests : Reads(h, ~ Spared({"read"}))

\* The provider of a request fails after its snapshot only when zfs diff fails.
FailedOK == Spared({"diff"}) => \A h \in Requests : ~ requests[h].failed

\* While nothing harmful has happened to a run that began alone, it still is alone, its
\* base is that of the file, and what it has walked is no older than any snapshot.
SoundOK ==
  sound =>
    /\ AtMostOne
    /\ \A h \in Requests :
         /\ ~ requests[h].failed /\ Reads(h, FALSE)
         /\ requests[h].via = "generic" /\ requests[h].stage = "truncate" =>
              \A s \in DOMAIN snaps : snaps[s] <= requests[h].version

\* Some provider has a base, or a request is about to write one.
Anchored ==
  \/ base["generic"] # 0
  \/ base["zfs"] \in DOMAIN snaps
  \/ \E h \in Requests : \/ requests[h].stage = "write"
                         \/ requests[h].via = "zfs" /\ requests[h].stage = "truncate"

\* Since a base was saved by such a run, every edit is reported, carried by a request,
\* or differs from a base.
KeptOK ==
  trusted # 0 =>
    /\ sound /\ Anchored
    /\ \A v \in Nat : v > trusted =>
         v <= reported \/ Comparable(v) \/ \E h \in Requests : Carries(h, v)

\* The snapshots are the base and those that requests have taken; the old base is
\* gone when zfs.lastsnap is rewritten.
TendedOK ==
  Spared({"overlap", "crash", "destroy", "read", "register", "write"}) =>
    /\ \A s \in DOMAIN snaps :
         s = base["zfs"] \/ \E h \in Requests : Unsaved(h) /\ s = requests[h].new
    /\ \A h \in Requests :
         requests[h].via = "zfs" /\ requests[h].stage \in {"truncate", "write"} =>
           base["zfs"] \notin DOMAIN snaps

\* What has been reported is in the base, and in every version to come.
AlarmOK ==
  Spared({"overlap", "list", "snapshot", "diff", "save", "register"}) =>
    /\ \A h \in Requests : Working(h) => (zfs <=> requests[h].via = "zfs")
    /\ IF zfs THEN base["zfs"] \in DOMAIN snaps => reported <= snaps[base["zfs"]]
              ELSE base["generic"] # 0 => reported <= base["generic"]
    /\ \A h \in Requests :
         LET r == requests[h]
         IN  /\ r.stage \in {"diff", "destroy", "truncate", "write", "report"} =>
                  /\ reported <= r.version
                  /\ r.changed => reported < r.version
             /\ r.stage = "report" =>
                  IF zfs THEN base["zfs"] \in DOMAIN snaps => r.version <= snaps[base["zfs"]]
                         ELSE base["generic"] # 0 => r.version <= base["generic"]

\* The inductive invariant.  SnapsOrdered, SnapsNamed and UnsavedOK say whose
\* snapshots are; VerdictOK, RunAloneOK and SoundOK that a verdict is about the base
\* on file; the rest is what the theorems claim.
PreflightInv ==
  /\ RunTypeOK /\ SnapsOrdered /\ SnapsNamed /\ UnsavedOK /\ VerdictOK /\ RunAloneOK /\ FailedOK
  /\ SoundOK /\ BaseUsable /\ TendedOK /\ AlarmOK /\ KeptOK

\* A step with these kinds of mishaps (or none), other than the beginning of a run.
Passes(kinds) ==
  /\ mishaps' = mishaps \cup kinds
  /\ sound' = (sound /\ kinds \cap Harmful = {})
  /\ trusted' = IF kinds \cap Harmful = {} THEN trusted ELSE 0

-----------------------------------------------------------------------------
\* The records that the actions build are requests.
LEMMA Records ==
  /\ NoRequest \in RunRecord /\ NoRequest.stage = "idle" /\ NoRequest.via = "generic" /\ ~ NoRequest.failed
  /\ NoRequest.prev = 0 /\ NoRequest.new = 0 /\ NoRequest.version = 0 /\ ~ NoRequest.changed
  /\ Fallback \in RunRecord /\ Fallback.stage = "open" /\ Fallback.via = "generic"
  /\ Fallback.version = 0 /\ ~ Fallback.failed /\ ~ Fallback.changed
  /\ \A r \in RunRecord, s \in Stages :
       /\ To(r, s) \in RunRecord /\ To(r, s).stage = s /\ To(r, s).via = r.via
       /\ To(r, s).prev = r.prev /\ To(r, s).new = r.new /\ To(r, s).version = r.version
       /\ To(r, s).changed = r.changed /\ To(r, s).failed = r.failed
<1>1. NoRequest \in RunRecord
  BY DEF NoRequest, RunRecord, Stages, Providers
<1>2. \A r \in RunRecord, s \in Stages :
       /\ To(r, s) \in RunRecord /\ To(r, s).stage = s /\ To(r, s).via = r.via
       /\ To(r, s).prev = r.prev /\ To(r, s).new = r.new /\ To(r, s).version = r.version
       /\ To(r, s).changed = r.changed /\ To(r, s).failed = r.failed
  BY DEF To, RunRecord
<1>3. "open" \in Stages
  BY DEF Stages
<1>4. /\ NoRequest.stage = "idle" /\ NoRequest.via = "generic" /\ ~ NoRequest.failed
      /\ NoRequest.prev = 0 /\ NoRequest.new = 0 /\ NoRequest.version = 0 /\ ~ NoRequest.changed
  BY DEF NoRequest
<1> HIDE DEF NoRequest
<1> QED BY <1>1, <1>2, <1>3, <1>4 DEF Fallback

\* Request h turns to r, and the others go on as they were.
LEMMA OneRequest ==
  ASSUME RunTypeOK, NEW h \in Requests, NEW r \in RunRecord, NEW stage, GoesOn(h, stage, r)
  PROVE  /\ requests[h] \in RunRecord /\ requests[h].stage = stage
         /\ requests' \in [Requests -> RunRecord] /\ requests'[h] = r
         /\ \A g \in Requests : g # h => requests'[g] = requests[g]
BY DEF RunTypeOK, GoesOn

\* What is spared after a step was before.
LEMMA SparedBefore ==
  ASSUME NEW kinds, NEW new, mishaps' = mishaps \cup new, Spared(kinds)'
  PROVE  Spared(kinds) /\ new \cap kinds = {}
BY DEF Spared

\* What mishaps do to the histories.
LEMMA MishapsCases ==
  ASSUME trusted \in Nat, NEW kinds, NEW sofar \in BOOLEAN, Mishaps(kinds, sofar)
  PROVE  /\ mishaps' = mishaps \cup kinds /\ sound' \in BOOLEAN /\ trusted' \in Nat
         /\ kinds \cap Harmful = {} => sound' = sofar /\ trusted' = trusted
         /\ kinds \cap Harmful # {} => ~ sound' /\ trusted' = 0
<1>1. CASE kinds \cap Harmful = {}
  BY <1>1 DEF Mishaps
<1>2. CASE kinds \cap Harmful # {}
  BY <1>2 DEF Mishaps
<1> QED BY <1>1, <1>2

\* What a step does to the histories.
LEMMA PassesWhen ==
  ASSUME RunTypeOK, NEW kinds, Mishaps(kinds, sound) \/ (kinds = {} /\ UNCHANGED history)
  PROVE  Passes(kinds)
<1>1. {} \cap Harmful = {} /\ mishaps = mishaps \cup {}
  OBVIOUS
<1>2. UNCHANGED history => mishaps' = mishaps /\ sound' = sound /\ trusted' = trusted
  BY DEF history
<1>3. CASE Mishaps(kinds, sound)
  BY <1>3 DEF Mishaps, Passes
<1>4. CASE kinds = {} /\ UNCHANGED history
  BY <1>1, <1>2, <1>4 DEF Passes, RunTypeOK
<1> QED BY <1>3, <1>4

\* What is sound or trusted after it was so before, and it was harmless.
LEMMA PassesKeeps ==
  ASSUME RunTypeOK, NEW kinds, Passes(kinds)
  PROVE  /\ sound' \in BOOLEAN /\ trusted' \in Nat
         /\ sound' => sound /\ kinds \cap Harmful = {}
         /\ trusted' # 0 =>
              /\ trusted # 0 /\ trusted' = trusted /\ kinds \cap Harmful = {}
              /\ sound => sound'
BY DEF Passes, RunTypeOK

\* Which mishaps are harmful.
LEMMA HarmfulKinds ==
  /\ {"overlap", "crash", "read", "diff", "register", "write", "flag"} = Harmful
  /\ \A k \in {"list", "snapshot", "destroy", "walk", "save"} : {k} \cap Harmful = {}
BY DEF Harmful

\* At first there is no base and no snapshot.
LEMMA PreflightInvInit == RunInit => PreflightInv
<1> SUFFICES ASSUME RunInit PROVE PreflightInv
  OBVIOUS
<1>1. \A h \in Requests : requests[h] = NoRequest
  BY DEF RunInit
<1>2. DOMAIN snaps = {} /\ base["zfs"] = 0 /\ base["generic"] = 0
  BY DEF RunInit, Providers
<1>3. RunTypeOK
  BY <1>2, Records, PreflightAssumption DEF RunInit, RunTypeOK
<1>4. SnapsOrdered /\ SnapsNamed /\ UnsavedOK /\ VerdictOK
  BY <1>1, <1>2, Records DEF RunInit, Providers, SnapsOrdered, SnapsNamed, UnsavedOK, Unsaved, VerdictOK
<1>5. RunAloneOK /\ FailedOK /\ SoundOK
  BY <1>1, Records DEF RunInit, RunAloneOK, AtMostOne, Reads, Working, FailedOK, SoundOK
<1>6. BaseUsable /\ TendedOK /\ AlarmOK
  BY <1>1, <1>2, Records DEF RunInit, BaseUsable, TendedOK, AlarmOK, Working
<1>7. KeptOK
  BY DEF RunInit, KeptOK
<1> QED BY <1>3, <1>4, <1>5, <1>6, <1>7 DEF PreflightInv

\* The tree and the clock.
LEMMA EditStep == PreflightInv /\ Edit => PreflightInv'
<1> SUFFICES ASSUME PreflightInv, Edit PROVE PreflightInv'
  OBVIOUS
<1>1. tree' = tree + 1 /\ tree \in Nat
  BY DEF Edit, PreflightInv, RunTypeOK
<1>2. /\ zfs' = zfs /\ second' = second /\ snaps' = snaps /\ base' = base
      /\ requests' = requests /\ first' = first /\ reported' = reported
      /\ mishaps' = mishaps /\ sound' = sound /\ trusted' = trusted
  BY DEF Edit, history
<1>t. RunTypeOK'
  BY <1>1, <1>2 DEF PreflightInv, RunTypeOK
<1>3. VerdictOK'
  <2>1. base["generic"] \in Nat /\ \A h \in Requests : requests[h] \in RunRecord
    BY DEF PreflightInv, RunTypeOK, Providers
  <2> QED BY <1>1, <1>2, <2>1 DEF PreflightInv, VerdictOK, RunRecord
<1>4. SnapsOrdered' /\ SnapsNamed' /\ UnsavedOK' /\ FailedOK'
  BY <1>2 DEF PreflightInv, SnapsOrdered, SnapsNamed, UnsavedOK, Unsaved, FailedOK, Spared
<1>5. RunAloneOK' /\ SoundOK'
  BY <1>2 DEF PreflightInv, RunAloneOK, SoundOK, AtMostOne, Reads, Working, Spared
<1>6. BaseUsable' /\ TendedOK' /\ AlarmOK'
  BY <1>2 DEF PreflightInv, BaseUsable, TendedOK, AlarmOK, Unsaved, Working, Spared
<1>7. KeptOK'
  BY <1>2 DEF PreflightInv, KeptOK, Anchored, Comparable, Carries
<1> QED BY <1>t, <1>3, <1>4, <1>5, <1>6, <1>7 DEF PreflightInv

\* A second passes: from now on a snapshot gets another name.
LEMMA TickStep == PreflightInv /\ Tick => PreflightInv'
<1> SUFFICES ASSUME PreflightInv, Tick PROVE PreflightInv'
  OBVIOUS
<1>1. second' = second + 1 /\ second \in Nat
  BY DEF Tick, PreflightInv, RunTypeOK
<1>2. /\ zfs' = zfs /\ tree' = tree /\ snaps' = snaps /\ base' = base
      /\ requests' = requests /\ first' = first /\ reported' = reported
      /\ mishaps' = mishaps /\ sound' = sound /\ trusted' = trusted
  BY DEF Tick, history
<1>3. RunTypeOK' /\ SnapsNamed'
  BY <1>1, <1>2 DEF PreflightInv, RunTypeOK, SnapsNamed, RunRecord, Providers
<1>4. SnapsOrdered' /\ VerdictOK' /\ UnsavedOK' /\ FailedOK'
  BY <1>2 DEF PreflightInv, SnapsOrdered, VerdictOK, UnsavedOK, Unsaved, FailedOK, Spared
<1>5. RunAloneOK' /\ SoundOK'
  BY <1>2 DEF PreflightInv, RunAloneOK, SoundOK, AtMostOne, Reads, Working, Spared
<1>6. BaseUsable' /\ TendedOK' /\ AlarmOK'
  BY <1>2 DEF PreflightInv, BaseUsable, TendedOK, AlarmOK, Unsaved, Working, Spared
<1>7. KeptOK'
  BY <1>2 DEF PreflightInv, KeptOK, Anchored, Comparable, Carries
<1> QED BY <1>3, <1>4, <1>5, <1>6, <1>7 DEF PreflightInv

\* A request begins, and reads its base if it can.
LEMMA RunBegins ==
  ASSUME PreflightInv, NEW h \in Requests, Detect(h)
  PROVE  PreflightInv'
<1> DEFINE r == requests'[h]
           viaZfs(p) == [NoRequest EXCEPT !.stage = "snapshot", !.via = "zfs", !.prev = p]
<1>1. /\ base["zfs"] \in Nat
      /\ \A p \in Nat :
           /\ viaZfs(p) \in RunRecord /\ viaZfs(p).stage = "snapshot"
           /\ viaZfs(p).via = "zfs" /\ viaZfs(p).prev = p /\ viaZfs(p).version = 0
           /\ ~ viaZfs(p).failed /\ ~ viaZfs(p).changed
  BY DEF PreflightInv, RunTypeOK, NoRequest, RunRecord, Stages, Providers
<1>2. PICK kinds : /\ IF NobodyRuns THEN Mishaps(kinds, TRUE)
                                     ELSE Mishaps(kinds \cup {"overlap"}, sound)
                   /\ \/ /\ zfs
                         /\ \E p \in {0, base["zfs"]} :
                              /\ p = base["zfs"] \/ "read" \in kinds
                              /\ GoesOn(h, "idle", viaZfs(p))
                      \/ (zfs => "list" \in kinds) /\ GoesOn(h, "idle", Fallback)
  <2>1. CASE \E readable \in BOOLEAN :
               zfs /\ Begins(h, viaZfs(Text("zfs", readable)), ReadError(readable))
    <3>1. PICK readable \in BOOLEAN :
            zfs /\ Begins(h, viaZfs(Text("zfs", readable)), ReadError(readable))
      BY <2>1
    <3>2. /\ Text("zfs", readable) \in {0, base["zfs"]}
          /\ Text("zfs", readable) = base["zfs"] \/ "read" \in ReadError(readable)
      BY DEF Text, ReadError
    <3> QED BY <3>1, <3>2 DEF Begins
  <2>2. CASE Begins(h, Fallback, IF zfs THEN {"list"} ELSE {})
    BY <2>2 DEF Begins
  <2> QED BY <2>1, <2>2 DEF Detect
<1> HIDE DEF viaZfs
<1> DEFINE new == IF NobodyRuns THEN kinds ELSE kinds \cup {"overlap"}
<1>3. /\ requests[h] \in RunRecord /\ requests[h].stage = "idle"
      /\ requests' \in [Requests -> RunRecord]
      /\ \A g \in Requests : g # h => requests'[g] = requests[g]
      /\ requests[h].via = "generic"
      /\ \/ /\ zfs /\ r.prev \in {0, base["zfs"]} /\ r = viaZfs(r.prev)
            /\ r.prev = base["zfs"] \/ "read" \in new
         \/ (zfs => "list" \in new) /\ r = Fallback
  BY <1>1, <1>2, OneRequest, Records DEF PreflightInv, SnapsNamed, RunTypeOK, RunRecord, Providers
<1>4. /\ zfs' = zfs /\ tree' = tree /\ second' = second /\ snaps' = snaps /\ base' = base
      /\ first' = first /\ reported' = reported
  BY DEF Detect
<1>5. /\ mishaps' = mishaps \cup new
      /\ NobodyRuns \/ "overlap" \in new
      /\ sound' \in BOOLEAN /\ trusted' \in Nat
      /\ sound' => NobodyRuns /\ "read" \notin new
      /\ trusted' # 0 => trusted' = trusted /\ sound'
  <2>1. trusted \in Nat /\ sound \in BOOLEAN
    BY DEF PreflightInv, RunTypeOK
  <2>2. \A k : "read" \in k \/ "overlap" \in k => k \cap Harmful # {}
    BY HarmfulKinds
  <2>3. CASE NobodyRuns
    BY <1>2, <2>1, <2>2, <2>3, MishapsCases
  <2>4. CASE ~ NobodyRuns
    BY <1>2, <2>1, <2>2, <2>4, MishapsCases
  <2> QED BY <2>3, <2>4
<1> HIDE DEF new
<1>6. \A s : Spared(s)' => Spared(s) /\ new \cap s = {}
  BY <1>5, SparedBefore
<1>7. /\ r \in RunRecord /\ r.stage \in {"snapshot", "open"} /\ ~ r.failed /\ ~ r.changed
      /\ r.version = 0
      /\ r.stage = "snapshot" <=> r.via = "zfs"
      /\ r.via = "zfs" => /\ zfs /\ r.prev \in {0, base["zfs"]}
                          /\ r.prev = base["zfs"] \/ "read" \in new
      /\ r.via # "zfs" => r.via = "generic" /\ (zfs => "list" \in new)
  BY <1>1, <1>3, Records
<1>8. RunTypeOK' /\ SnapsOrdered'
  BY <1>3, <1>4, <1>5 DEF PreflightInv, RunTypeOK, SnapsOrdered
<1>9. SnapsNamed'
  BY <1>1, <1>3, <1>4, <1>7 DEF PreflightInv, SnapsNamed, RunTypeOK
<1>10. UnsavedOK'
  <2>1. ASSUME NEW g \in Requests, Unsaved(g)' PROVE Unsaved(g) /\ requests'[g] = requests[g]
    BY <1>3, <1>7, <2>1 DEF Unsaved
  <2>2. \A g \in Requests : Unsaved(g) => requests[g].new # 0 /\ requests[g].new # base["zfs"]
    BY DEF PreflightInv, UnsavedOK, RunTypeOK
  <2> QED BY <1>3, <1>4, <1>7, <2>1, <2>2 DEF PreflightInv, UnsavedOK
<1>11. VerdictOK'
  BY <1>3, <1>4, <1>7 DEF PreflightInv, VerdictOK, RunTypeOK
<1>12. NobodyRuns => AtMostOne' /\ \A g \in Requests : g # h => requests'[g].stage = "idle"
  BY <1>3 DEF NobodyRuns, AtMostOne, Working
<1>13. RunAloneOK' /\ FailedOK'
  <2>1. Spared({"overlap"})' => NobodyRuns
    BY <1>5, <1>6
  <2>2. "read" \in new => ~ Spared({"read"})'
    BY <1>6
  <2>3. RunAloneOK'
    BY <1>4, <1>7, <1>12, <2>1, <2>2 DEF RunAloneOK, Reads
  <2>4. FailedOK'
    BY <1>3, <1>6, <1>7 DEF PreflightInv, FailedOK
  <2> QED BY <2>3, <2>4
<1>14. SoundOK'
  <2> SUFFICES ASSUME sound' PROVE SoundOK'
    BY DEF SoundOK
  <2>1. NobodyRuns /\ "read" \notin new
    BY <1>5
  <2>2. \A g \in Requests : g # h => requests'[g].stage = "idle" /\ ~ requests'[g].failed
    BY <1>3, <1>12, <2>1 DEF PreflightInv, VerdictOK
  <2> QED BY <1>4, <1>7, <1>12, <2>1, <2>2 DEF SoundOK, Reads
<1>15. BaseUsable' /\ TendedOK'
  <2>1. \A g \in Requests : Unsaved(g) => Unsaved(g)' /\ requests'[g] = requests[g]
    BY <1>3 DEF Unsaved
  <2>2. BaseUsable'
    BY <1>3, <1>4, <1>6 DEF PreflightInv, BaseUsable
  <2>3. TendedOK'
    BY <1>3, <1>4, <1>6, <1>7, <2>1 DEF PreflightInv, TendedOK
  <2> QED BY <2>2, <2>3
<1>16. AlarmOK'
  BY <1>3, <1>4, <1>6, <1>7 DEF PreflightInv, AlarmOK, Working
<1>17. KeptOK'
  BY <1>3, <1>4, <1>5 DEF PreflightInv, KeptOK, Anchored, Comparable, Carries
<1> QED BY <1>8, <1>9, <1>10, <1>11, <1>13, <1>14, <1>15, <1>16, <1>17 DEF PreflightInv

\* A snapshot is taken.
LEMMA SnapshotTaken ==
  ASSUME PreflightInv, NEW h \in Requests, second \notin DOMAIN snaps,
         snaps' = [s \in DOMAIN snaps \cup {second} |-> IF s = second THEN tree ELSE snaps[s]],
         NEW next \in {"truncate", "diff"}, next = "truncate" <=> requests[h].prev = 0,
         GoesOn(h, "snapshot", [To(requests[h], next) EXCEPT !.new = second, !.version = tree]),
         UNCHANGED <<zfs, tree, second, base, first, reported, history>>
  PROVE  PreflightInv'
<1> DEFINE o == requests[h]
           r == requests'[h]
           t == To(o, next)
           u == [t EXCEPT !.new = second, !.version = tree]
<1>1. /\ tree \in Nat \ {0} /\ second \in Nat \ {0} /\ o \in RunRecord
      /\ DOMAIN snaps \subseteq 1..second
      /\ \A s \in DOMAIN snaps : snaps[s] \in 1..tree
  BY DEF PreflightInv, RunTypeOK
<1>t. /\ t \in RunRecord /\ t.stage = next /\ t.via = o.via /\ t.prev = o.prev
      /\ t.changed = o.changed /\ t.failed = o.failed
  BY <1>1, Records DEF Stages
<1> HIDE DEF t
<1>2. /\ u \in RunRecord /\ u.stage = next /\ u.via = o.via /\ u.prev = o.prev
      /\ u.new = second /\ u.version = tree /\ u.changed = o.changed /\ u.failed = o.failed
  BY <1>1, <1>t DEF RunRecord
<1> HIDE DEF u
<1>g. GoesOn(h, "snapshot", u)
  BY DEF u, t
<1>3. /\ r = u /\ o.stage = "snapshot" /\ requests' \in [Requests -> RunRecord]
      /\ \A g \in Requests : g # h => requests'[g] = requests[g]
  BY <1>2, <1>g, OneRequest DEF PreflightInv
<1>4. /\ DOMAIN snaps' = DOMAIN snaps \cup {second} /\ snaps'[second] = tree
      /\ \A s \in DOMAIN snaps : s < second /\ snaps'[s] = snaps[s] /\ snaps[s] <= tree
  BY <1>1
<1>5. /\ o.via = "zfs" /\ o.prev < second /\ base["zfs"] # second
      /\ \A g \in Requests : requests[g].via = "zfs" => requests[g].prev # second
  <2>1. base["zfs"] \in Nat /\ \A g \in Requests : requests[g].prev \in Nat
    BY DEF PreflightInv, RunTypeOK, Providers, RunRecord
  <2> QED BY <1>1, <1>3, <2>1 DEF PreflightInv, SnapsNamed, RunRecord, Providers
<1>h. mishaps' = mishaps /\ sound' = sound /\ trusted' = trusted
  BY DEF history
<1>6. RunTypeOK'
  BY <1>1, <1>3, <1>4, <1>h DEF PreflightInv, RunTypeOK
<1>7. SnapsOrdered'
  BY <1>1, <1>4 DEF PreflightInv, SnapsOrdered
<1>8. SnapsNamed'
  BY <1>2, <1>3, <1>4, <1>5 DEF PreflightInv, SnapsNamed
<1>9. UnsavedOK'
  <2>1. \A g \in Requests : g # h /\ Unsaved(g) => requests[g].new # second
    BY DEF PreflightInv, UnsavedOK
  <2> QED BY <1>2, <1>3, <1>4, <1>5, <2>1 DEF PreflightInv, UnsavedOK, Unsaved
<1>10. VerdictOK'
  <2>1. \A g \in Requests : g # h /\ requests[g].via = "zfs"
           /\ requests[g].prev \in DOMAIN snaps' => requests[g].prev \in DOMAIN snaps
    BY <1>4, <1>5
  <2>2. base["generic"] <= tree
    BY DEF PreflightInv, VerdictOK
  <2>3. next = "truncate" => r.prev \notin DOMAIN snaps'
    BY <1>1, <1>2, <1>3, <1>4
  <2> QED BY <1>1, <1>2, <1>3, <1>4, <1>5, <2>1, <2>2, <2>3 DEF PreflightInv, VerdictOK
<1>11. RunAloneOK' /\ SoundOK'
  <2>1. AtMostOne => AtMostOne'
    BY <1>3 DEF AtMostOne, Working
  <2>2. ASSUME NEW g \in Requests, NEW none, Reads(g, none) PROVE Reads(g, none)'
    BY <1>2, <1>3, <1>5, <2>2 DEF Reads
  <2>3. \A k : Spared(k)' <=> Spared(k)
    BY <1>h DEF Spared
  <2>4. RunAloneOK'
    BY <2>1, <2>2, <2>3 DEF PreflightInv, RunAloneOK
  <2>5. AtMostOne => \A g \in Requests : requests'[g].stage = "truncate" => g = h
    BY <1>3 DEF AtMostOne, Working
  <2>6. SoundOK'
    BY <1>2, <1>3, <1>5, <1>h, <2>1, <2>2, <2>5 DEF PreflightInv, SoundOK
  <2> QED BY <2>4, <2>6
<1>12. FailedOK'
  BY <1>2, <1>3, <1>h DEF PreflightInv, FailedOK, Spared
<1>13. BaseUsable'
  BY <1>2, <1>3, <1>4, <1>h DEF PreflightInv, BaseUsable, Spared
<1>14. TendedOK'
  <2> DEFINE kinds == {"overlap", "crash", "destroy", "read", "register", "write"}
  <2>1. \A g \in Requests : Unsaved(g) => g # h /\ Unsaved(g)'
    BY <1>2, <1>3 DEF Unsaved
  <2>2. Unsaved(h)' /\ requests'[h].new = second
    BY <1>2, <1>3, <1>5 DEF Unsaved
  <2>3. Spared(kinds)' =>
          /\ Spared(kinds)
          /\ \A g \in Requests : g # h => requests[g].stage = "idle"
          /\ o.prev = base["zfs"]
    BY <1>2, <1>3, <1>5, <1>h DEF PreflightInv, RunAloneOK, AtMostOne, Reads, Working, Spared
  <2>4. next = "truncate" => o.prev \notin DOMAIN snaps'
    BY <1>1, <1>4
  <2> QED BY <1>2, <1>3, <1>4, <1>5, <2>1, <2>2, <2>3, <2>4 DEF PreflightInv, TendedOK
<1>15. AlarmOK'
  <2>1. o.changed = FALSE
    BY <1>1, <1>3 DEF PreflightInv, VerdictOK, RunRecord
  <2> QED BY <1>1, <1>2, <1>3, <1>4, <1>5, <1>h, <2>1
          DEF PreflightInv, AlarmOK, Working, Spared, RunTypeOK
<1>16. KeptOK'
  BY <1>2, <1>3, <1>4, <1>5, <1>h DEF PreflightInv, KeptOK, Anchored, Comparable, Carries
<1> QED BY <1>6, <1>7, <1>8, <1>9, <1>10, <1>11, <1>12, <1>13, <1>14, <1>15, <1>16
        DEF PreflightInv

\* The snapshot could not be taken: the request falls back on the walk.
LEMMA SnapshotFails ==
  ASSUME PreflightInv, NEW h \in Requests, GoesOn(h, "snapshot", Fallback),
         Passes({"snapshot"}),
         UNCHANGED <<zfs, tree, second, snaps, base, first, reported>>
  PROVE  PreflightInv'
<1>1. /\ requests[h] \in RunRecord /\ requests[h].stage = "snapshot"
      /\ requests' \in [Requests -> RunRecord] /\ requests'[h] = Fallback
      /\ \A g \in Requests : g # h => requests'[g] = requests[g]
  BY OneRequest, Records DEF PreflightInv
<1>2. \A kinds : Spared(kinds)' => Spared(kinds) /\ "snapshot" \notin kinds
  <2>1. \A kinds : Spared(kinds)' => Spared(kinds) /\ {"snapshot"} \cap kinds = {}
    BY SparedBefore DEF Passes
  <2> QED BY <2>1
<1>3. /\ sound' \in BOOLEAN /\ trusted' \in Nat /\ (sound' => sound)
      /\ trusted' # 0 => trusted # 0 /\ trusted' = trusted /\ sound'
  BY PassesKeeps DEF PreflightInv, KeptOK
<1>4. RunTypeOK' /\ SnapsOrdered'
  BY <1>1, <1>3 DEF PreflightInv, RunTypeOK, SnapsOrdered
<1>5. SnapsNamed' /\ UnsavedOK'
  BY <1>1, Records DEF PreflightInv, SnapsNamed, UnsavedOK, Unsaved
<1>6. VerdictOK'
  BY <1>1, Records DEF PreflightInv, VerdictOK, RunTypeOK
<1>7. RunAloneOK' /\ SoundOK' /\ FailedOK'
  BY <1>1, <1>2, <1>3, Records DEF PreflightInv, RunAloneOK, SoundOK, AtMostOne, Reads, Working,
                                   FailedOK, Spared, Passes
<1>8. BaseUsable' /\ TendedOK' /\ AlarmOK'
  BY <1>1, <1>2, Records DEF PreflightInv, BaseUsable, TendedOK, Unsaved, AlarmOK
<1>9. KeptOK'
  BY <1>1, <1>3, Records DEF PreflightInv, KeptOK, Anchored, Comparable, Carries
<1> QED BY <1>4, <1>5, <1>6, <1>7, <1>8, <1>9 DEF PreflightInv

\* zfs snapshot.
LEMMA SnapshotStep ==
  ASSUME PreflightInv, NEW h \in Requests, Snapshot(h)
  PROVE  PreflightInv'
<1>1. requests[h].prev = 0 \/ requests[h].prev # 0
  OBVIOUS
<1>2. Mishaps({"snapshot"}, sound) => Passes({"snapshot"})
  BY PassesWhen DEF PreflightInv
<1> QED BY <1>1, <1>2, SnapshotTaken, SnapshotFails DEF Snapshot

\* zfs diff of the base and the new snapshot, or its failure.
LEMMA DiffStep ==
  ASSUME PreflightInv, NEW h \in Requests, Diff(h)
  PROVE  PreflightInv'
<1> DEFINE o == requests[h]
           r == requests'[h]
           t == To(o, "destroy")
           both == {o.prev, o.new} \subseteq DOMAIN snaps
           verdict == [t EXCEPT !.changed = snaps[o.prev] # snaps[o.new]]
           failure == [t EXCEPT !.failed = TRUE]
<1>1. o \in RunRecord /\ o.stage = "diff"
  BY DEF PreflightInv, RunTypeOK, Diff, GoesOn
<1>2. /\ t \in RunRecord /\ t.stage = "destroy" /\ t.via = o.via /\ t.prev = o.prev
      /\ t.new = o.new /\ t.version = o.version /\ t.changed = o.changed /\ t.failed = o.failed
  BY <1>1, Records DEF Stages
<1> HIDE DEF t
<1>3. \A u \in {verdict, failure} :
        /\ u \in RunRecord /\ u.stage = "destroy" /\ u.via = o.via /\ u.prev = o.prev
        /\ u.new = o.new /\ u.version = o.version
  BY <1>2 DEF RunRecord
<1>4. /\ (verdict.changed <=> snaps[o.prev] # snaps[o.new]) /\ verdict.failed = o.failed
      /\ failure.changed = o.changed /\ failure.failed
  BY <1>2 DEF RunRecord
<1>5. PICK new : /\ Passes(new)
                 /\ \/ both /\ GoesOn(h, "diff", verdict)
                    \/ "diff" \in new /\ GoesOn(h, "diff", failure)
  <2>1. /\ UNCHANGED history => Passes({})
        /\ Mishaps({"diff"}, sound) => Passes({"diff"})
    BY PassesWhen DEF PreflightInv
  <2> QED BY <2>1 DEF Diff, t
<1> HIDE DEF verdict, failure
<1>6. /\ requests' \in [Requests -> RunRecord]
      /\ \A g \in Requests : g # h => requests'[g] = requests[g]
      /\ \/ both /\ r = verdict
         \/ "diff" \in new /\ r = failure
  BY <1>3, <1>5, OneRequest DEF PreflightInv
<1>7. /\ \A kinds : Spared(kinds)' => Spared(kinds) /\ new \cap kinds = {}
      /\ sound' \in BOOLEAN /\ trusted' \in Nat
      /\ sound' => sound /\ "diff" \notin new
      /\ trusted' # 0 => trusted # 0 /\ trusted' = trusted /\ sound' /\ "diff" \notin new
  BY <1>5, SparedBefore, PassesKeeps, HarmfulKinds DEF PreflightInv, KeptOK, Passes
<1>8. /\ zfs' = zfs /\ tree' = tree /\ second' = second /\ snaps' = snaps /\ base' = base
      /\ first' = first /\ reported' = reported
  BY DEF Diff
<1>9. /\ r \in RunRecord /\ r.stage = "destroy" /\ r.via = o.via /\ r.prev = o.prev
      /\ r.new = o.new /\ r.version = o.version
  BY <1>3, <1>6
<1>10. o.via = "zfs" /\ ~ o.changed /\ Unsaved(h)
  BY <1>1 DEF PreflightInv, SnapsNamed, VerdictOK, Unsaved, RunRecord, Providers
<1>11. /\ o.prev < o.new /\ o.new \in DOMAIN snaps /\ snaps[o.new] = o.version
  BY <1>10 DEF PreflightInv, UnsavedOK
<1>12. \A kinds : "diff" \in kinds /\ Spared(kinds)' =>
         o.prev \in DOMAIN snaps /\ (r.changed <=> snaps[o.prev] # o.version) /\ r.failed = o.failed
  BY <1>4, <1>6, <1>7, <1>11
<1>13. RunTypeOK' /\ SnapsOrdered'
  BY <1>6, <1>7, <1>8 DEF PreflightInv, RunTypeOK, SnapsOrdered
<1>14. SnapsNamed' /\ UnsavedOK'
  BY <1>6, <1>8, <1>9, <1>10 DEF PreflightInv, SnapsNamed, UnsavedOK, Unsaved
<1>15. VerdictOK'
  <2>1. r.failed \/ (r.changed <=> snaps[o.prev] # o.version)
    BY <1>4, <1>6, <1>11
  <2>2. o.prev # 0
    BY <1>1 DEF PreflightInv, VerdictOK
  <2> QED BY <1>6, <1>8, <1>9, <1>10, <2>1, <2>2 DEF PreflightInv, VerdictOK
<1>16. RunAloneOK' /\ SoundOK' /\ FailedOK'
  <2>1. AtMostOne => AtMostOne'
    BY <1>1, <1>6 DEF AtMostOne, Working
  <2>2. ASSUME NEW g \in Requests, NEW none, Reads(g, none) PROVE Reads(g, none)'
    BY <1>1, <1>6, <1>8, <1>9, <1>10, <2>2 DEF Reads
  <2>3. Spared({"overlap"})' => AtMostOne /\ \A g \in Requests : Reads(g, ~ Spared({"read"})')
    <3>1. ~ Spared({"read"}) => ~ Spared({"read"})'
      BY <1>7
    <3> QED BY <1>7, <3>1 DEF PreflightInv, RunAloneOK, Reads
  <2>4. RunAloneOK'
    BY <2>1, <2>2, <2>3 DEF RunAloneOK
  <2>5. "diff" \notin new => r.failed = o.failed
    BY <1>4, <1>6
  <2>6. SoundOK'
    BY <1>6, <1>7, <1>8, <1>9, <2>1, <2>2, <2>5 DEF PreflightInv, SoundOK
  <2>7. FailedOK'
    BY <1>6, <1>7, <1>12 DEF PreflightInv, FailedOK
  <2> QED BY <2>4, <2>6, <2>7
<1>17. BaseUsable' /\ TendedOK'
  BY <1>1, <1>6, <1>7, <1>8, <1>9, <1>10 DEF PreflightInv, BaseUsable, TendedOK, Unsaved
<1>18. AlarmOK'
  <2> DEFINE kinds == {"overlap", "list", "snapshot", "diff", "save", "register"}
  <2>1. ASSUME Spared(kinds)'
        PROVE  reported <= o.version /\ (r.changed => reported < o.version)
    <3>1. reported <= o.version /\ o.prev \in DOMAIN snaps
          /\ (r.changed <=> snaps[o.prev] # o.version)
      BY <1>1, <1>7, <1>12, <2>1 DEF PreflightInv, AlarmOK
    <3>2. o.prev = base["zfs"] /\ zfs
      <4>1. Spared({"overlap"}) /\ o.prev # 0 /\ zfs
        BY <1>1, <1>7, <1>10, <2>1 DEF PreflightInv, VerdictOK, SnapsNamed, Spared
      <4> QED BY <1>1, <1>10, <4>1 DEF PreflightInv, RunAloneOK, Reads
    <3>3. reported <= snaps[o.prev]
      BY <1>7, <2>1, <3>1, <3>2 DEF PreflightInv, AlarmOK
    <3>4. snaps[o.prev] <= o.version
      BY <1>11, <3>1 DEF PreflightInv, SnapsOrdered
    <3>5. reported \in Int /\ o.version \in Int /\ snaps[o.prev] \in Int
      BY <1>1, <3>1 DEF PreflightInv, RunTypeOK, RunRecord
    <3> QED BY <3>1, <3>3, <3>4, <3>5
  <2> QED BY <1>1, <1>6, <1>7, <1>8, <1>9, <2>1 DEF PreflightInv, AlarmOK, Working
<1>19. KeptOK'
  BY <1>1, <1>6, <1>7, <1>8, <1>9 DEF PreflightInv, KeptOK, Anchored, Comparable, Carries
<1> QED BY <1>13, <1>14, <1>15, <1>16, <1>17, <1>18, <1>19 DEF PreflightInv

\* The old base is destroyed, or stays when zfs destroy fails.
LEMMA DestroyStep ==
  ASSUME PreflightInv, NEW h \in Requests, Destroy(h)
  PROVE  PreflightInv'
<1> DEFINE o == requests[h]
           r == requests'[h]
<1>1. o \in RunRecord /\ o.stage = "destroy"
  BY DEF PreflightInv, RunTypeOK, Destroy, GoesOn
<1>2. /\ To(o, "truncate") \in RunRecord /\ To(o, "truncate").stage = "truncate"
      /\ To(o, "truncate").via = o.via /\ To(o, "truncate").prev = o.prev
      /\ To(o, "truncate").new = o.new /\ To(o, "truncate").version = o.version
      /\ To(o, "truncate").changed = o.changed /\ To(o, "truncate").failed = o.failed
  BY <1>1, Records DEF Stages
<1>3. /\ r \in RunRecord /\ r.stage = "truncate" /\ r.via = o.via /\ r.prev = o.prev
      /\ r.new = o.new /\ r.version = o.version
      /\ r.changed = o.changed /\ r.failed = o.failed
      /\ requests' \in [Requests -> RunRecord]
      /\ \A g \in Requests : g # h => requests'[g] = requests[g]
  BY <1>2, OneRequest DEF Destroy, PreflightInv
<1>4. /\ zfs' = zfs /\ tree' = tree /\ second' = second /\ base' = base
      /\ first' = first /\ reported' = reported
  BY DEF Destroy
<1>5. PICK new : /\ Passes(new)
                 /\ \/ snaps' = [s \in DOMAIN snaps \ {o.prev} |-> snaps[s]]
                    \/ "destroy" \in new /\ snaps' = snaps
  <2>1. /\ UNCHANGED history => Passes({})
        /\ Mishaps({"destroy"}, sound) => Passes({"destroy"})
    BY PassesWhen DEF PreflightInv
  <2> QED BY <2>1 DEF Destroy, Fails
<1>6. /\ DOMAIN snaps' \subseteq DOMAIN snaps
      /\ \A s \in DOMAIN snaps' : snaps'[s] = snaps[s]
      /\ \A s \in DOMAIN snaps : s # o.prev => s \in DOMAIN snaps'
      /\ "destroy" \in new \/ o.prev \notin DOMAIN snaps'
  BY <1>5
<1>7. /\ \A kinds : Spared(kinds)' => Spared(kinds) /\ new \cap kinds = {}
      /\ sound' \in BOOLEAN /\ trusted' \in Nat /\ (sound' => sound)
      /\ trusted' # 0 => trusted # 0 /\ trusted' = trusted /\ sound /\ sound'
  BY <1>5, SparedBefore, PassesKeeps DEF PreflightInv, KeptOK, Passes
<1>8. o.via = "zfs" /\ Unsaved(h)
  BY <1>1 DEF PreflightInv, SnapsNamed, Unsaved, RunRecord, Providers
<1>9. /\ o.prev < o.new /\ o.new \in DOMAIN snaps /\ snaps[o.new] = o.version
      /\ o.prev # second
  <2>1. o.prev < o.new /\ o.new \in DOMAIN snaps /\ snaps[o.new] = o.version
    BY <1>8 DEF PreflightInv, UnsavedOK
  <2>2. o.new <= second /\ o.new \in Int /\ o.prev \in Int /\ second \in Int
    BY <1>1, <2>1 DEF PreflightInv, RunTypeOK, RunRecord
  <2> QED BY <2>1, <2>2
<1>10. RunTypeOK' /\ SnapsOrdered'
  BY <1>3, <1>4, <1>6, <1>7 DEF PreflightInv, RunTypeOK, SnapsOrdered
<1>11. SnapsNamed'
  BY <1>3, <1>4, <1>6, <1>8, <1>9 DEF PreflightInv, SnapsNamed
<1>12. UnsavedOK'
  <2>1. \A g \in Requests : Unsaved(g)' <=> Unsaved(g)
    BY <1>1, <1>3 DEF Unsaved
  <2>2. \A g \in Requests : Unsaved(g) => requests[g].new # o.prev
    BY <1>8 DEF PreflightInv, UnsavedOK
  <2> QED BY <1>3, <1>4, <1>6, <2>1, <2>2 DEF PreflightInv, UnsavedOK
<1>13. VerdictOK'
  BY <1>1, <1>3, <1>4, <1>6, <1>8 DEF PreflightInv, VerdictOK
<1>14. RunAloneOK' /\ SoundOK' /\ FailedOK'
  <2>1. AtMostOne => AtMostOne'
    BY <1>1, <1>3 DEF AtMostOne, Working
  <2>2. ASSUME NEW g \in Requests, NEW none, Reads(g, none) PROVE Reads(g, none)'
    BY <1>1, <1>3, <1>4, <1>8, <2>2 DEF Reads
  <2>3. Spared({"overlap"})' => AtMostOne /\ \A g \in Requests : Reads(g, ~ Spared({"read"})')
    <3>1. ~ Spared({"read"}) => ~ Spared({"read"})'
      BY <1>7
    <3> QED BY <1>7, <3>1 DEF PreflightInv, RunAloneOK, Reads
  <2>4. RunAloneOK'
    BY <2>1, <2>2, <2>3 DEF RunAloneOK
  <2>5. SoundOK'
    BY <1>3, <1>6, <1>7, <1>8, <2>1, <2>2 DEF PreflightInv, SoundOK
  <2>6. FailedOK'
    BY <1>3, <1>7 DEF PreflightInv, FailedOK
  <2> QED BY <2>4, <2>5, <2>6
<1>15. BaseUsable'
  BY <1>3, <1>8 DEF BaseUsable
<1>16. TendedOK'
  <2> DEFINE kinds == {"overlap", "crash", "destroy", "read", "register", "write"}
  <2>1. \A g \in Requests : (Unsaved(g)' <=> Unsaved(g)) /\ requests'[g].new = requests[g].new
    BY <1>1, <1>3 DEF Unsaved
  <2>2. Spared(kinds)' =>
          /\ Spared(kinds)
          /\ \A g \in Requests : g # h => requests[g].stage = "idle"
          /\ o.prev = base["zfs"] /\ o.prev \notin DOMAIN snaps'
    <3>1. Spared(kinds)' => Spared(kinds) /\ o.prev \notin DOMAIN snaps'
      BY <1>6, <1>7
    <3>2. Spared(kinds) =>
            /\ \A g \in Requests : g # h => requests[g].stage = "idle"
            /\ o.prev = base["zfs"]
      BY <1>1, <1>8 DEF PreflightInv, RunAloneOK, AtMostOne, Reads, Working, Spared
    <3> QED BY <3>1, <3>2
  <2> QED BY <1>3, <1>4, <1>6, <2>1, <2>2 DEF PreflightInv, TendedOK
<1>17. AlarmOK'
  BY <1>1, <1>3, <1>4, <1>6, <1>7 DEF PreflightInv, AlarmOK, Working
<1>18. KeptOK'
  <2> SUFFICES ASSUME trusted' # 0 PROVE KeptOK'
    BY DEF KeptOK
  <2>1. /\ trusted # 0 /\ trusted' = trusted /\ sound /\ sound'
        /\ o.prev = base["zfs"] /\ ~ o.failed
        /\ \A g \in Requests : g # h => requests[g].stage = "idle"
    <3>1. trusted # 0 /\ trusted' = trusted /\ sound /\ sound'
      BY <1>7
    <3> QED BY <1>1, <1>8, <3>1 DEF PreflightInv, SoundOK, AtMostOne, Reads, Working
  <2>2. ASSUME NEW v \in Nat, Comparable(v)
        PROVE  Comparable(v)' \/ Carries(h, v)'
    <3>1. CASE base["generic"] \in 1..(v - 1)
      BY <1>4, <3>1 DEF Comparable
    <3>2. CASE base["zfs"] \in DOMAIN snaps /\ snaps[base["zfs"]] < v
      <4>1. o.changed <=> snaps[o.prev] # o.version
        BY <1>1, <1>8, <2>1, <3>2 DEF PreflightInv, VerdictOK
      <4>2. o.version \in Nat /\ snaps[o.prev] \in Nat
        BY <1>1, <2>1, <3>2 DEF PreflightInv, RunTypeOK, RunRecord
      <4> QED BY <1>3, <2>1, <2>2, <3>2, <4>1, <4>2 DEF Carries
    <3> QED BY <2>2, <3>1, <3>2 DEF Comparable
  <2>3. ASSUME NEW v \in Nat, NEW g \in Requests, Carries(g, v)
        PROVE  Carries(g, v)'
    BY <1>1, <1>3, <2>3 DEF Carries
  <2>4. Anchored'
    BY <1>3, <1>8 DEF Anchored
  <2> QED BY <1>4, <2>1, <2>2, <2>3, <2>4 DEF PreflightInv, KeptOK
<1> QED BY <1>10, <1>11, <1>12, <1>13, <1>14, <1>15, <1>16, <1>17, <1>18 DEF PreflightInv

\* The generic provider reads its base, if it can.
LEMMA RunOpens ==
  ASSUME PreflightInv, NEW h \in Requests, ReadSignature(h)
  PROVE  PreflightInv'
<1>a. PICK readable \in BOOLEAN :
        /\ GoesOn(h, "open", [To(requests[h], "walk") EXCEPT !.prev = Text("generic", readable)])
        /\ IF readable THEN UNCHANGED history ELSE Fails("read")
  BY DEF ReadSignature
<1> DEFINE o == requests[h]
           r == requests'[h]
           p == Text("generic", readable)
           t == To(o, "walk")
           u == [t EXCEPT !.prev = p]
<1>1. /\ o \in RunRecord /\ o.stage = "open" /\ base["generic"] \in Nat
      /\ p \in {0, base["generic"]}
      /\ readable => p = base["generic"]
  BY <1>a DEF PreflightInv, RunTypeOK, GoesOn, Providers, Text
<1> HIDE DEF p
<1>2. /\ t \in RunRecord /\ t.stage = "walk" /\ t.via = o.via /\ t.failed = o.failed
      /\ t.version = o.version /\ t.changed = o.changed
  BY <1>1, Records DEF Stages
<1> HIDE DEF t
<1>3. /\ u \in RunRecord /\ u.stage = "walk" /\ u.via = o.via /\ u.failed = o.failed
      /\ u.prev = p /\ u.version = o.version
  BY <1>1, <1>2 DEF RunRecord
<1>4. GoesOn(h, "open", u)
  BY <1>a DEF t, p
<1> HIDE DEF u
<1>5. /\ r = u /\ requests' \in [Requests -> RunRecord]
      /\ \A g \in Requests : g # h => requests'[g] = requests[g]
  BY <1>3, <1>4, OneRequest DEF PreflightInv
<1>6. /\ zfs' = zfs /\ tree' = tree /\ second' = second /\ base' = base /\ snaps' = snaps
      /\ first' = first /\ reported' = reported
  BY DEF ReadSignature
<1>7. o.via = "generic" /\ ~ o.failed
  BY <1>1 DEF PreflightInv, SnapsNamed, VerdictOK, RunRecord, Providers
<1>8. PICK new : Passes(new) /\ (readable \/ "read" \in new)
  <2>1. /\ UNCHANGED history => Passes({})
        /\ Mishaps({"read"}, sound) => Passes({"read"})
    BY PassesWhen DEF PreflightInv
  <2> QED BY <1>a, <2>1 DEF Fails
<1>9. /\ \A kinds : Spared(kinds)' => Spared(kinds) /\ new \cap kinds = {}
      /\ sound' \in BOOLEAN /\ trusted' \in Nat
      /\ sound' => sound /\ "read" \notin new
      /\ trusted' # 0 => trusted # 0 /\ trusted' = trusted /\ sound'
  BY <1>8, SparedBefore, PassesKeeps, HarmfulKinds DEF PreflightInv, KeptOK, Passes
<1>10. RunTypeOK' /\ SnapsOrdered'
  BY <1>5, <1>6, <1>9 DEF PreflightInv, RunTypeOK, SnapsOrdered
<1>11. SnapsNamed' /\ UnsavedOK'
  BY <1>3, <1>5, <1>6, <1>7 DEF PreflightInv, SnapsNamed, UnsavedOK, Unsaved
<1>12. VerdictOK'
  <2>1. p <= tree
    BY <1>1 DEF PreflightInv, VerdictOK, RunTypeOK
  <2> QED BY <1>3, <1>5, <1>6, <1>7, <2>1 DEF PreflightInv, VerdictOK
<1>13. RunAloneOK' /\ SoundOK' /\ FailedOK'
  <2>1. AtMostOne => AtMostOne'
    BY <1>1, <1>5 DEF AtMostOne, Working
  <2>2. ASSUME NEW g \in Requests, NEW none, Reads(g, none), g # h PROVE Reads(g, none)'
    BY <1>5, <1>6, <2>2 DEF Reads
  <2>3. ASSUME NEW none, p = base["generic"] \/ none PROVE Reads(h, none)'
    BY <1>1, <1>3, <1>5, <1>6, <1>7, <2>3 DEF Reads
  <2>4. Spared({"overlap"})' => AtMostOne /\ \A g \in Requests : Reads(g, ~ Spared({"read"})')
    <3>1. ~ Spared({"read"}) => ~ Spared({"read"})'
      BY <1>9
    <3> QED BY <1>9, <3>1 DEF PreflightInv, RunAloneOK, Reads
  <2>5. readable \/ ~ Spared({"read"})'
    BY <1>8, <1>9
  <2>6. RunAloneOK'
    BY <1>1, <2>1, <2>2, <2>3, <2>4, <2>5 DEF RunAloneOK
  <2>7. SoundOK'
    <3> SUFFICES ASSUME sound' PROVE SoundOK'
      BY DEF SoundOK
    <3>1. sound /\ p = base["generic"]
      BY <1>1, <1>8, <1>9
    <3>2. \A g \in Requests : g # h => Reads(g, FALSE)'
      BY <2>2, <3>1 DEF PreflightInv, SoundOK
    <3>3. Reads(h, FALSE)'
      BY <2>3, <3>1
    <3> QED BY <1>3, <1>5, <1>6, <1>7, <2>1, <3>1, <3>2, <3>3 DEF PreflightInv, SoundOK
  <2>8. FailedOK'
    BY <1>3, <1>5, <1>7, <1>9 DEF PreflightInv, FailedOK
  <2> QED BY <2>6, <2>7, <2>8
<1>14. BaseUsable' /\ TendedOK' /\ AlarmOK'
  BY <1>1, <1>3, <1>5, <1>6, <1>7, <1>9 DEF PreflightInv, BaseUsable, TendedOK, Unsaved, AlarmOK,
                                            Working
<1>15. KeptOK'
  BY <1>1, <1>3, <1>5, <1>6, <1>9 DEF PreflightInv, KeptOK, Anchored, Comparable, Carries
<1> QED BY <1>10, <1>11, <1>12, <1>13, <1>14, <1>15 DEF PreflightInv

\* It walks it, and the version it has seen is compared with its base.
LEMMA WalkStep ==
  ASSUME PreflightInv, NEW h \in Requests, Walk(h)
  PROVE  PreflightInv'
<1> DEFINE o == requests[h]
           r == requests'[h]
           t == To(o, "truncate")
           u == [t EXCEPT !.new = tree, !.version = tree,
                          !.changed = o.prev # 0 /\ tree # o.prev]
<1>1. o \in RunRecord /\ o.stage = "walk" /\ tree \in Nat \ {0}
  BY DEF PreflightInv, RunTypeOK, Walk, GoesOn
<1>2. /\ t \in RunRecord /\ t.stage = "truncate" /\ t.via = o.via /\ t.prev = o.prev
      /\ t.failed = o.failed
  BY <1>1, Records DEF Stages
<1> HIDE DEF t
<1>3. /\ u \in RunRecord /\ u.stage = "truncate" /\ u.via = o.via /\ u.prev = o.prev
      /\ u.new = tree /\ u.version = tree /\ u.failed = o.failed
      /\ u.changed <=> o.prev # 0 /\ tree # o.prev
  BY <1>1, <1>2 DEF RunRecord
<1>4. PICK new : /\ Passes(new)
                 /\ GoesOn(h, "walk", u) \/ GoesOn(h, "walk", NoRequest)
  <2>1. /\ UNCHANGED history => Passes({})
        /\ Mishaps({"walk"}, sound) => Passes({"walk"})
    BY PassesWhen DEF PreflightInv
  <2> QED BY <2>1 DEF Walk, Fails, t
<1> HIDE DEF u
<1>5. /\ r = u \/ r = NoRequest
      /\ requests' \in [Requests -> RunRecord]
      /\ \A g \in Requests : g # h => requests'[g] = requests[g]
  BY <1>3, <1>4, OneRequest, Records DEF PreflightInv
<1>6. /\ zfs' = zfs /\ tree' = tree /\ second' = second /\ base' = base /\ snaps' = snaps
      /\ first' = first /\ reported' = reported
  BY DEF Walk
<1>7. /\ \A kinds : Spared(kinds)' => Spared(kinds) /\ new \cap kinds = {}
      /\ sound' \in BOOLEAN /\ trusted' \in Nat /\ (sound' => sound)
      /\ trusted' # 0 => trusted # 0 /\ trusted' = trusted /\ sound'
  BY <1>4, SparedBefore, PassesKeeps DEF PreflightInv, KeptOK, Passes
<1>8. o.via = "generic" /\ ~ o.failed
  BY <1>1 DEF PreflightInv, SnapsNamed, VerdictOK, RunRecord, Providers
<1>9. RunTypeOK' /\ SnapsOrdered'
  BY <1>5, <1>6, <1>7 DEF PreflightInv, RunTypeOK, SnapsOrdered
<1>10. SnapsNamed' /\ UnsavedOK'
  BY <1>3, <1>5, <1>6, <1>8, Records DEF PreflightInv, SnapsNamed, UnsavedOK, Unsaved
<1>11. VerdictOK'
  <2>1. o.prev <= tree
    BY <1>1, <1>8 DEF PreflightInv, VerdictOK
  <2> QED BY <1>1, <1>3, <1>5, <1>6, <1>8, <2>1, Records DEF PreflightInv, VerdictOK
<1>12. RunAloneOK' /\ SoundOK'
  <2>1. AtMostOne => AtMostOne'
    BY <1>1, <1>5 DEF AtMostOne, Working
  <2>2. ASSUME NEW g \in Requests, NEW none, Reads(g, none) PROVE Reads(g, none)'
    BY <1>1, <1>3, <1>5, <1>6, <1>8, <2>2, Records DEF Reads
  <2>3. Spared({"overlap"})' => AtMostOne /\ \A g \in Requests : Reads(g, ~ Spared({"read"})')
    <3>1. ~ Spared({"read"}) => ~ Spared({"read"})'
      BY <1>7
    <3> QED BY <1>7, <3>1 DEF PreflightInv, RunAloneOK, Reads
  <2>4. RunAloneOK'
    BY <2>1, <2>2, <2>3 DEF RunAloneOK
  <2>5. r.stage = "truncate" => \A s \in DOMAIN snaps' : snaps'[s] <= r.version
    BY <1>3, <1>5, <1>6, Records DEF PreflightInv, RunTypeOK
  <2>6. ~ r.failed
    BY <1>3, <1>5, <1>8, Records
  <2>7. SoundOK'
    BY <1>5, <1>6, <1>7, <2>1, <2>2, <2>5, <2>6 DEF PreflightInv, SoundOK
  <2> QED BY <2>4, <2>7
<1>13. FailedOK'
  BY <1>3, <1>5, <1>7, Records DEF PreflightInv, FailedOK
<1>14. BaseUsable' /\ TendedOK'
  BY <1>1, <1>3, <1>5, <1>6, <1>7, <1>8, Records
     DEF PreflightInv, BaseUsable, TendedOK, Unsaved
<1>15. AlarmOK'
  <2>1. ASSUME Spared({"overlap", "list", "snapshot", "diff", "save", "register"})', r = u
        PROVE  reported <= tree /\ (u.changed => reported < tree)
    <3>1. /\ reported \in Nat /\ reported <= tree /\ o.prev \in Nat
          /\ base["generic"] <= tree
      BY <1>1 DEF PreflightInv, RunTypeOK, VerdictOK, RunRecord
    <3>2. ~ zfs /\ o.prev \in {0, base["generic"]}
      <4>1. Spared({"overlap"})
        BY <1>7, <2>1 DEF Spared
      <4>2. o.prev \in {0, base["generic"]}
        BY <1>1, <1>8, <4>1 DEF PreflightInv, RunAloneOK, Reads
      <4>3. ~ zfs
        BY <1>1, <1>7, <1>8, <2>1 DEF PreflightInv, AlarmOK, Working
      <4> QED BY <4>2, <4>3
    <3>3. base["generic"] # 0 => reported <= base["generic"]
      BY <1>7, <2>1, <3>2 DEF PreflightInv, AlarmOK
    <3> QED BY <1>1, <1>3, <3>1, <3>2, <3>3
  <2> QED BY <1>1, <1>3, <1>5, <1>6, <1>7, <1>8, <2>1, Records
          DEF PreflightInv, AlarmOK, Working
<1>16. KeptOK'
  BY <1>1, <1>3, <1>5, <1>6, <1>7, Records
     DEF PreflightInv, KeptOK, Anchored, Comparable, Carries
<1> QED BY <1>9, <1>10, <1>11, <1>12, <1>13, <1>14, <1>15, <1>16 DEF PreflightInv

\* The end of a provider.
LEMMA ConcludedRequest ==
  ASSUME NEW o \in RunRecord
  PROVE  /\ Concluded(o) \in RunRecord
         /\ IF o.failed THEN Concluded(o) = Fallback
            ELSE LET r == Concluded(o)
                 IN  /\ r.stage = "report" /\ r.via = o.via /\ r.prev = o.prev
                     /\ r.version = o.version /\ r.changed = o.changed /\ ~ r.failed
BY Records DEF Concluded, Stages

\* The file of the base cannot be opened.
LEMMA SaveFails ==
  ASSUME PreflightInv, NEW h \in Requests, GoesOn(h, "truncate", Concluded(requests[h])),
         Passes({IF requests[h].via = "zfs" THEN "register" ELSE "save"}),
         UNCHANGED <<zfs, tree, second, snaps, base, first, reported>>
  PROVE  PreflightInv'
<1> DEFINE o == requests[h]
           r == requests'[h]
           call == IF o.via = "zfs" THEN "register" ELSE "save"
<1>1. o \in RunRecord /\ o.stage = "truncate"
  BY DEF PreflightInv, RunTypeOK, GoesOn
<1>2. /\ r \in RunRecord /\ requests' \in [Requests -> RunRecord]
      /\ \A g \in Requests : g # h => requests'[g] = requests[g]
      /\ IF o.failed THEN r.stage = "open" /\ r.via = "generic" /\ r.version = 0 /\ ~ r.failed
         ELSE /\ r.stage = "report" /\ r.via = o.via /\ r.prev = o.prev
              /\ r.version = o.version /\ r.changed = o.changed /\ ~ r.failed
  BY <1>1, OneRequest, ConcludedRequest, Records DEF PreflightInv
<1>3. \A kinds : Spared(kinds)' => Spared(kinds) /\ call \notin kinds
  <2>1. \A kinds : Spared(kinds)' => Spared(kinds) /\ {call} \cap kinds = {}
    BY SparedBefore DEF Passes
  <2> QED BY <2>1
<1>4. /\ sound' \in BOOLEAN /\ trusted' \in Nat /\ (sound' => sound)
      /\ trusted' # 0 => /\ trusted # 0 /\ trusted' = trusted /\ sound /\ sound'
                         /\ o.via = "generic"
  <2>1. o.via # "generic" => {call} \cap Harmful # {}
    BY <1>1, HarmfulKinds DEF RunRecord, Providers
  <2> QED BY <2>1, PassesKeeps DEF PreflightInv, KeptOK
<1>5. RunTypeOK' /\ SnapsOrdered'
  BY <1>2, <1>4 DEF PreflightInv, RunTypeOK, SnapsOrdered
<1>6. SnapsNamed' /\ UnsavedOK'
  BY <1>1, <1>2 DEF PreflightInv, SnapsNamed, UnsavedOK, Unsaved
<1>7. VerdictOK'
  BY <1>2 DEF PreflightInv, VerdictOK, RunTypeOK
<1>8. RunAloneOK' /\ SoundOK' /\ FailedOK'
  <2>1. AtMostOne => AtMostOne'
    BY <1>1, <1>2 DEF AtMostOne, Working
  <2>2. ASSUME NEW g \in Requests, NEW none, Reads(g, none) PROVE Reads(g, none)'
    BY <1>1, <1>2, <2>2 DEF Reads
  <2>3. Spared({"overlap"})' => AtMostOne /\ \A g \in Requests : Reads(g, ~ Spared({"read"})')
    <3>1. ~ Spared({"read"}) => ~ Spared({"read"})'
      BY <1>3
    <3> QED BY <1>3, <3>1 DEF PreflightInv, RunAloneOK, Reads
  <2>4. RunAloneOK'
    BY <2>1, <2>2, <2>3 DEF RunAloneOK
  <2>5. SoundOK'
    BY <1>2, <1>4, <2>1, <2>2 DEF PreflightInv, SoundOK
  <2>6. FailedOK'
    BY <1>2, <1>3 DEF PreflightInv, FailedOK
  <2> QED BY <2>4, <2>5, <2>6
<1>9. BaseUsable'
  <2>1. Spared({"crash", "register"})' => o.via # "zfs"
    BY <1>3
  <2> QED BY <1>2, <1>3, <2>1 DEF PreflightInv, BaseUsable
<1>10. TendedOK'
  <2>1. Spared({"overlap", "crash", "destroy", "read", "register", "write"})' => o.via = "generic"
    BY <1>1, <1>3 DEF RunRecord, Providers
  <2>2. o.via = "generic" => \A g \in Requests : Unsaved(g) => g # h /\ Unsaved(g)'
    BY <1>2 DEF Unsaved
  <2> QED BY <1>2, <1>3, <2>1, <2>2 DEF PreflightInv, TendedOK
<1>11. AlarmOK'
  <2>1. ~ Spared({"overlap", "list", "snapshot", "diff", "save", "register"})'
    BY <1>3
  <2> QED BY <2>1 DEF AlarmOK
<1>12. KeptOK'
  <2> SUFFICES ASSUME trusted' # 0 PROVE KeptOK'
    BY DEF KeptOK
  <2>1. /\ trusted # 0 /\ trusted' = trusted /\ sound /\ sound' /\ o.via = "generic"
        /\ ~ o.failed /\ o.prev = base["generic"]
        /\ \A g \in Requests : g # h => requests[g].stage = "idle"
        /\ \A s \in DOMAIN snaps : snaps[s] <= o.version
    <3>1. trusted # 0 /\ trusted' = trusted /\ sound /\ sound' /\ o.via = "generic"
      BY <1>4
    <3> QED BY <1>1, <3>1 DEF PreflightInv, SoundOK, AtMostOne, Reads, Working
  <2>2. /\ o.version \in Nat /\ base["generic"] \in Nat /\ base["generic"] <= o.version
        /\ base["generic"] # 0 \/ base["zfs"] \in DOMAIN snaps
        /\ base["zfs"] \in DOMAIN snaps =>
             snaps[base["zfs"]] \in Nat /\ snaps[base["zfs"]] <= o.version
    <3>1. o.version \in Nat /\ base["generic"] \in Nat
      BY <1>1 DEF PreflightInv, RunTypeOK, RunRecord, Providers
    <3>2. base["generic"] <= o.version
      BY <1>1, <2>1 DEF PreflightInv, VerdictOK
    <3>3. base["generic"] # 0 \/ base["zfs"] \in DOMAIN snaps
      BY <1>1, <2>1 DEF PreflightInv, KeptOK, Anchored
    <3> QED BY <2>1, <3>1, <3>2, <3>3 DEF PreflightInv, RunTypeOK
  <2>3. ASSUME NEW v \in Nat, NEW g \in Requests, Carries(g, v)
        PROVE  Comparable(v)' \/ Carries(h, v)'
    <3>1. g = h
      BY <2>1, <2>3 DEF Carries
    <3>2. CASE o.changed /\ v <= o.version
      BY <1>2, <2>1, <2>3, <3>2 DEF Carries
    <3>3. CASE o.version < v
      BY <2>2, <2>3, <3>3 DEF Comparable
    <3> QED BY <2>3, <3>1, <3>2, <3>3 DEF Carries
  <2> QED BY <2>1, <2>2, <2>3 DEF PreflightInv, KeptOK, Anchored, Comparable
<1> QED BY <1>5, <1>6, <1>7, <1>8, <1>9, <1>10, <1>11, <1>12 DEF PreflightInv

\* The file of the base has been opened and is empty.
LEMMA Truncated ==
  ASSUME PreflightInv, NEW h \in Requests,
         GoesOn(h, "truncate", To(requests[h], "write")),
         base' = [base EXCEPT ![requests[h].via] = 0],
         UNCHANGED <<zfs, tree, second, snaps, first, reported, history>>
  PROVE  PreflightInv'
<1> DEFINE o == requests[h]
           r == requests'[h]
<1>1. o \in RunRecord /\ o.stage = "truncate"
  BY DEF PreflightInv, RunTypeOK, GoesOn
<1>2. /\ To(o, "write") \in RunRecord /\ To(o, "write").stage = "write"
      /\ To(o, "write").via = o.via /\ To(o, "write").prev = o.prev
      /\ To(o, "write").new = o.new /\ To(o, "write").version = o.version
      /\ To(o, "write").changed = o.changed /\ To(o, "write").failed = o.failed
  BY <1>1, Records DEF Stages
<1>3. /\ r \in RunRecord /\ r.stage = "write" /\ r.via = o.via /\ r.prev = o.prev
      /\ r.new = o.new /\ r.version = o.version
      /\ r.changed = o.changed /\ r.failed = o.failed
      /\ requests' \in [Requests -> RunRecord]
      /\ \A g \in Requests : g # h => requests'[g] = requests[g]
  BY <1>2, OneRequest DEF PreflightInv
<1>4. /\ base \in [Providers -> Nat] /\ base' \in [Providers -> Nat] /\ o.via \in Providers
      /\ base'[o.via] = 0 /\ \A p \in Providers : p # o.via => base'[p] = base[p]
      /\ Providers = {"zfs", "generic"}
  BY <1>1 DEF PreflightInv, RunTypeOK, RunRecord, Providers
<1>5. second \in Nat \ {0} /\ tree \in Nat \ {0} /\ 0 \notin DOMAIN snaps
  BY DEF PreflightInv, RunTypeOK
<1>6. \A g \in Requests : (Unsaved(g)' <=> Unsaved(g)) /\ requests'[g].new = requests[g].new
  BY <1>1, <1>3 DEF Unsaved
<1>h. mishaps' = mishaps /\ sound' = sound /\ trusted' = trusted
  BY DEF history
<1>7. RunTypeOK' /\ SnapsOrdered'
  BY <1>3, <1>4, <1>h DEF PreflightInv, RunTypeOK, SnapsOrdered
<1>8. SnapsNamed'
  BY <1>1, <1>3, <1>4, <1>5 DEF PreflightInv, SnapsNamed
<1>9. UnsavedOK'
  <2>1. \A g \in Requests : Unsaved(g) => requests[g].new # 0
    BY <1>5 DEF PreflightInv, UnsavedOK
  <2> QED BY <1>3, <1>4, <1>6, <2>1 DEF PreflightInv, UnsavedOK
<1>10. VerdictOK'
  BY <1>1, <1>3, <1>4, <1>5 DEF PreflightInv, VerdictOK
<1>11. RunAloneOK' /\ SoundOK'
  <2>1. AtMostOne => /\ AtMostOne'
                     /\ \A g \in Requests : g # h => requests'[g].stage = "idle"
    BY <1>1, <1>3 DEF AtMostOne, Working
  <2>2. ASSUME NEW none PROVE Reads(h, none)'
    BY <1>3, <1>4 DEF Reads
  <2>3. ASSUME NEW g \in Requests, NEW none, requests'[g].stage = "idle" PROVE Reads(g, none)'
    BY <2>3 DEF Reads
  <2>4. \A k : Spared(k)' <=> Spared(k)
    BY <1>h DEF Spared
  <2>5. RunAloneOK'
    BY <2>1, <2>2, <2>3, <2>4 DEF PreflightInv, RunAloneOK
  <2>6. SoundOK'
    BY <1>3, <1>h, <2>1, <2>2, <2>3 DEF PreflightInv, SoundOK
  <2> QED BY <2>5, <2>6
<1>12. FailedOK'
  BY <1>3, <1>h DEF PreflightInv, FailedOK, Spared
<1>13. BaseUsable'
  <2>1. CASE o.via = "zfs"
    BY <1>4, <2>1 DEF BaseUsable
  <2>2. CASE o.via # "zfs"
    BY <1>3, <1>4, <1>h, <2>2 DEF PreflightInv, BaseUsable, Spared
  <2> QED BY <2>1, <2>2
<1>14. TendedOK'
  <2>1. o.via = "zfs" => base'["zfs"] = 0
    BY <1>4
  <2>2. o.via # "zfs" => base'["zfs"] = base["zfs"]
    BY <1>4
  <2> QED BY <1>1, <1>3, <1>5, <1>6, <1>h, <2>1, <2>2 DEF PreflightInv, TendedOK, Spared
<1>15. AlarmOK'
  BY <1>1, <1>3, <1>4, <1>5, <1>h DEF PreflightInv, AlarmOK, Working, Spared
<1>16. KeptOK'
  <2> SUFFICES ASSUME trusted # 0 PROVE KeptOK'
    BY <1>h DEF KeptOK
  <2>1. /\ sound /\ ~ o.failed /\ o.prev = base[o.via]
        /\ \A g \in Requests : g # h => requests[g].stage = "idle"
    <3>1. sound
      BY DEF PreflightInv, KeptOK
    <3> QED BY <1>1, <1>4, <3>1 DEF PreflightInv, SoundOK, AtMostOne, Reads, Working
  <2>2. ASSUME NEW v \in Nat, Comparable(v)
        PROVE  Comparable(v)' \/ Carries(h, v)'
    <3>0. o.version \in Nat /\ o.prev \in Nat
      BY <1>1 DEF RunRecord
    <3>1. CASE o.via = "generic" /\ base["generic"] \in 1..(v - 1)
      <4>1. o.changed <=> o.prev # 0 /\ o.version # o.prev
        BY <1>1, <3>1 DEF PreflightInv, VerdictOK
      <4> QED BY <1>3, <2>1, <2>2, <3>0, <3>1, <4>1 DEF Carries
    <3>2. CASE o.via = "zfs" /\ base["zfs"] \in DOMAIN snaps /\ snaps[base["zfs"]] < v
      <4>1. o.changed <=> snaps[o.prev] # o.version
        BY <1>1, <2>1, <2>2, <3>2 DEF PreflightInv, VerdictOK
      <4>2. snaps[o.prev] \in Nat
        BY <2>1, <2>2, <3>2 DEF PreflightInv, RunTypeOK
      <4> QED BY <1>3, <2>1, <2>2, <3>0, <3>2, <4>1, <4>2 DEF Carries
    <3>3. CASE o.via = "generic" /\ base["zfs"] \in DOMAIN snaps /\ snaps[base["zfs"]] < v
      BY <1>4, <3>3 DEF Comparable
    <3>4. CASE o.via = "zfs" /\ base["generic"] \in 1..(v - 1)
      BY <1>4, <3>4 DEF Comparable
    <3> QED BY <1>4, <2>2, <3>1, <3>2, <3>3, <3>4 DEF Comparable
  <2>3. ASSUME NEW v \in Nat, NEW g \in Requests, Carries(g, v)
        PROVE  Carries(g, v)'
    BY <1>1, <1>3, <2>3 DEF Carries
  <2>4. Anchored'
    BY <1>3 DEF Anchored
  <2> QED BY <1>h, <2>1, <2>2, <2>3, <2>4 DEF PreflightInv, KeptOK
<1> QED BY <1>7, <1>8, <1>9, <1>10, <1>11, <1>12, <1>13, <1>14, <1>15, <1>16
        DEF PreflightInv

\* os.WriteFile opens the file of the base.
LEMMA TruncateStep ==
  ASSUME PreflightInv, NEW h \in Requests, TruncateBase(h)
  PROVE  PreflightInv'
<1>1. \A call : Fails(call) => Passes({call})
  BY PassesWhen DEF PreflightInv, Fails
<1> QED BY <1>1, Truncated, SaveFails DEF TruncateBase

\* The new base is in the file; the request reports or ends.
LEMMA BaseWritten ==
  ASSUME PreflightInv, NEW h \in Requests, Writes(h, requests[h].new)
  PROVE  PreflightInv'
<1> DEFINE o == requests[h]
           r == requests'[h]
<1>1. o \in RunRecord /\ o.stage = "write" /\ o.via \in Providers /\ o.new \in Nat /\ o.version \in Nat
  BY DEF PreflightInv, RunTypeOK, GoesOn, Writes, RunRecord
<1>2. /\ r \in RunRecord /\ requests' \in [Requests -> RunRecord]
      /\ \A g \in Requests : g # h => requests'[g] = requests[g]
      /\ IF o.failed THEN r.stage = "open" /\ r.via = "generic" /\ r.version = 0 /\ ~ r.failed
         ELSE /\ r.stage = "report" /\ r.via = o.via /\ r.prev = o.prev
              /\ r.version = o.version /\ r.changed = o.changed /\ ~ r.failed
  BY <1>1, OneRequest, ConcludedRequest, Records DEF PreflightInv, Writes
<1>3. /\ base \in [Providers -> Nat] /\ base' \in [Providers -> Nat]
      /\ base'[o.via] = o.new /\ \A p \in Providers : p # o.via => base'[p] = base[p]
      /\ Providers = {"zfs", "generic"}
  BY <1>1 DEF PreflightInv, RunTypeOK, Providers, Writes
<1>4. /\ zfs' = zfs /\ tree' = tree /\ second' = second /\ snaps' = snaps
      /\ reported' = reported /\ mishaps' = mishaps /\ sound' = sound
      /\ first' = IF first = 0 THEN o.version ELSE first
      /\ trusted' = IF sound /\ trusted = 0 THEN o.version ELSE trusted
  BY DEF Writes
<1>5. /\ second \in Nat \ {0} /\ tree \in Nat \ {0} /\ DOMAIN snaps \subseteq 1..second
      /\ \A s \in DOMAIN snaps : snaps[s] \in 1..tree
  BY DEF PreflightInv, RunTypeOK
<1>6. o.via = "zfs" =>
        /\ Unsaved(h) /\ zfs
        /\ o.new \in DOMAIN snaps /\ snaps[o.new] = o.version
        /\ \A g \in Requests : g # h /\ Unsaved(g) => requests[g].new # o.new
  BY <1>1 DEF PreflightInv, SnapsNamed, UnsavedOK, Unsaved
<1>7. o.via = "generic" => o.new = o.version /\ o.version \in 1..tree
  BY <1>1 DEF PreflightInv, VerdictOK
<1>8. \A g \in Requests : g # h => (Unsaved(g)' <=> Unsaved(g))
  BY <1>2 DEF Unsaved
<1>9. ~ Unsaved(h)'
  BY <1>2 DEF Unsaved
<1>10. RunTypeOK' /\ SnapsOrdered'
  BY <1>1, <1>2, <1>3, <1>4 DEF PreflightInv, RunTypeOK, SnapsOrdered
<1>11. SnapsNamed'
  BY <1>1, <1>2, <1>3, <1>4, <1>5, <1>6 DEF PreflightInv, SnapsNamed
<1>12. UnsavedOK'
  <2>1. ASSUME NEW g \in Requests, g # h, Unsaved(g)
        PROVE  /\ base'["zfs"] # requests[g].new
               /\ r.via = "zfs" => r.prev # requests[g].new
    BY <1>2, <1>3, <1>6, <2>1 DEF PreflightInv, UnsavedOK
  <2> QED BY <1>2, <1>4, <1>8, <1>9, <2>1 DEF PreflightInv, UnsavedOK
<1>13. VerdictOK'
  BY <1>1, <1>2, <1>3, <1>4, <1>5, <1>7 DEF PreflightInv, VerdictOK
<1>14. RunAloneOK' /\ SoundOK'
  <2>1. AtMostOne => /\ AtMostOne'
                     /\ \A g \in Requests : g # h => requests'[g].stage = "idle"
    BY <1>1, <1>2 DEF AtMostOne, Working
  <2>2. ASSUME NEW g \in Requests, NEW none, requests'[g].stage \in {"idle", "open", "report"}
        PROVE  Reads(g, none)'
    BY <2>2 DEF Reads
  <2>3. r.stage \in {"open", "report"} /\ ~ r.failed
    BY <1>2
  <2>4. \A k : Spared(k)' <=> Spared(k)
    BY <1>4 DEF Spared
  <2>5. RunAloneOK'
    BY <2>1, <2>2, <2>3, <2>4 DEF PreflightInv, RunAloneOK
  <2>6. SoundOK'
    <3> SUFFICES ASSUME sound' PROVE SoundOK'
      BY DEF SoundOK
    <3>1. /\ SoundOK /\ sound /\ AtMostOne
          /\ \A g \in Requests : ~ requests[g].failed
      BY <1>4 DEF PreflightInv, SoundOK
    <3>2. ASSUME NEW g \in Requests
          PROVE  /\ ~ requests'[g].failed /\ requests'[g].stage # "truncate"
                 /\ requests'[g].stage \in {"idle", "open", "report"}
      <4>1. CASE g = h
        BY <2>3, <4>1
      <4>2. CASE g # h
        BY <1>2, <2>1, <3>1, <4>2
      <4> QED BY <4>1, <4>2
    <3>3. \A g \in Requests : Reads(g, FALSE)'
      <4> SUFFICES ASSUME NEW g \in Requests PROVE Reads(g, FALSE)'
        OBVIOUS
      <4>1. requests'[g].stage \in {"idle", "open", "report"}
        BY <3>2
      <4> QED BY <4>1 DEF Reads
    <3> QED BY <2>1, <3>1, <3>2, <3>3 DEF SoundOK
  <2> QED BY <2>5, <2>6
<1>15. FailedOK'
  BY <1>2, <1>4 DEF PreflightInv, FailedOK, Spared
<1>16. BaseUsable'
  <2>1. CASE o.via = "zfs"
    BY <1>3, <1>4, <1>6, <2>1 DEF BaseUsable
  <2>2. CASE o.via # "zfs"
    BY <1>2, <1>3, <1>4, <2>2 DEF PreflightInv, BaseUsable, Spared
  <2> QED BY <2>1, <2>2
<1>17. TendedOK'
  <2> DEFINE kinds == {"overlap", "crash", "destroy", "read", "register", "write"}
  <2>1. ASSUME Spared(kinds)'
        PROVE  /\ Spared(kinds)
               /\ \A g \in Requests : g # h => requests[g].stage = "idle"
    BY <1>1, <1>4, <2>1 DEF PreflightInv, RunAloneOK, AtMostOne, Working, Spared
  <2>2. CASE o.via = "zfs"
    BY <1>1, <1>2, <1>3, <1>4, <1>6, <2>1, <2>2 DEF PreflightInv, TendedOK, Unsaved
  <2>3. CASE o.via = "generic"
    BY <1>1, <1>2, <1>3, <1>4, <2>1, <2>3 DEF PreflightInv, TendedOK, Unsaved
  <2> QED BY <1>1, <1>3, <2>2, <2>3
<1>18. AlarmOK'
  <2> DEFINE kinds == {"overlap", "list", "snapshot", "diff", "save", "register"}
  <2>1. ASSUME Spared(kinds)'
        PROVE  /\ Spared(kinds) /\ ~ o.failed
               /\ \A g \in Requests : g # h => requests[g].stage = "idle"
               /\ zfs <=> o.via = "zfs"
               /\ reported <= o.version
               /\ o.changed => reported < o.version
    <3>1. Spared(kinds)
      BY <1>4, <2>1 DEF Spared
    <3>2. AtMostOne /\ ~ o.failed
      BY <3>1 DEF PreflightInv, RunAloneOK, FailedOK, Spared
    <3> QED BY <1>1, <3>1, <3>2 DEF PreflightInv, AtMostOne, AlarmOK, Working
  <2>2. CASE o.via = "zfs"
    BY <1>1, <1>2, <1>3, <1>4, <1>6, <2>1, <2>2 DEF PreflightInv, AlarmOK, Working
  <2>3. CASE o.via = "generic"
    BY <1>1, <1>2, <1>3, <1>4, <1>7, <2>1, <2>3 DEF PreflightInv, AlarmOK, Working
  <2> QED BY <1>1, <1>3, <2>2, <2>3
<1>19. KeptOK'
  <2> SUFFICES ASSUME trusted' # 0 PROVE KeptOK'
    BY DEF KeptOK
  <2>1. /\ sound /\ sound' /\ ~ o.failed /\ base[o.via] = 0
        /\ \A g \in Requests : g # h => requests[g].stage = "idle"
        /\ trusted = 0 => trusted' = o.version
        /\ trusted # 0 => trusted' = trusted
    <3>1. sound /\ sound'
      BY <1>4 DEF PreflightInv, KeptOK
    <3> QED BY <1>1, <1>4, <3>1 DEF PreflightInv, SoundOK, AtMostOne, Reads, Working
  <2>2. ASSUME NEW v \in Nat, o.version < v
        PROVE  Comparable(v)'
    BY <1>1, <1>3, <1>4, <1>6, <1>7, <2>2 DEF Comparable
  <2>3. ASSUME NEW v \in Nat, Comparable(v)
        PROVE  Comparable(v)'
    <3>1. 0 \notin DOMAIN snaps
      BY <1>5
    <3>2. CASE o.via = "zfs"
      BY <1>3, <1>4, <2>1, <2>3, <3>1, <3>2 DEF Comparable
    <3>3. CASE o.via = "generic"
      BY <1>3, <1>4, <2>1, <2>3, <3>1, <3>3 DEF Comparable
    <3> QED BY <1>1, <1>3, <3>2, <3>3
  <2>4. ASSUME NEW v \in Nat, NEW g \in Requests, Carries(g, v)
        PROVE  Comparable(v)' \/ Carries(h, v)'
    <3>1. g = h
      BY <2>1, <2>4 DEF Carries
    <3>2. o.version < v \/ (o.changed /\ v <= o.version)
      BY <1>1, <2>4, <3>1 DEF Carries
    <3> QED BY <1>2, <2>1, <2>2, <2>4, <3>2 DEF Carries
  <2>5. ASSUME NEW v \in Nat, v > trusted'
        PROVE  v <= reported \/ Comparable(v)' \/ \E g \in Requests : Carries(g, v)'
    <3>1. CASE trusted = 0
      BY <2>1, <2>2, <2>5, <3>1
    <3>2. CASE trusted # 0
      BY <2>1, <2>3, <2>4, <2>5, <3>2 DEF PreflightInv, KeptOK
    <3> QED BY <3>1, <3>2
  <2>6. Anchored'
    <3>1. CASE o.via = "zfs"
      BY <1>3, <1>4, <1>6, <3>1 DEF Anchored
    <3>2. CASE o.via = "generic"
      BY <1>3, <1>5, <1>7, <3>2 DEF Anchored
    <3> QED BY <1>1, <1>3, <3>1, <3>2
  <2> QED BY <1>4, <2>1, <2>5, <2>6 DEF KeptOK
<1> QED BY <1>10, <1>11, <1>12, <1>13, <1>14, <1>15, <1>16, <1>17, <1>18, <1>19
        DEF PreflightInv

\* The write has failed: the file of the base stays empty.
LEMMA WriteFails ==
  ASSUME PreflightInv, NEW h \in Requests,
         GoesOn(h, "write", Concluded(requests[h])), Passes({"write"}),
         UNCHANGED <<zfs, tree, second, snaps, base, first, reported>>
  PROVE  PreflightInv'
<1> DEFINE o == requests[h]
           r == requests'[h]
<1>1. o \in RunRecord /\ o.stage = "write" /\ o.via \in Providers
  BY DEF PreflightInv, RunTypeOK, GoesOn, RunRecord
<1>2. /\ r \in RunRecord /\ requests' \in [Requests -> RunRecord]
      /\ \A g \in Requests : g # h => requests'[g] = requests[g]
      /\ IF o.failed THEN r.stage = "open" /\ r.via = "generic" /\ r.version = 0 /\ ~ r.failed
         ELSE /\ r.stage = "report" /\ r.via = o.via /\ r.prev = o.prev
              /\ r.version = o.version /\ r.changed = o.changed /\ ~ r.failed
  BY <1>1, OneRequest, ConcludedRequest, Records DEF PreflightInv
<1>3. \A kinds : Spared(kinds)' => Spared(kinds) /\ "write" \notin kinds
  <2>1. \A kinds : Spared(kinds)' => Spared(kinds) /\ {"write"} \cap kinds = {}
    BY SparedBefore DEF Passes
  <2> QED BY <2>1
<1>4. sound' \in BOOLEAN /\ ~ sound' /\ trusted' = 0
  BY HarmfulKinds DEF Passes
<1>5. RunTypeOK' /\ SnapsOrdered'
  BY <1>2, <1>4 DEF PreflightInv, RunTypeOK, SnapsOrdered
<1>6. SnapsNamed' /\ UnsavedOK'
  BY <1>1, <1>2 DEF PreflightInv, SnapsNamed, UnsavedOK, Unsaved
<1>7. VerdictOK'
  BY <1>2 DEF PreflightInv, VerdictOK, RunTypeOK
<1>8. SoundOK' /\ KeptOK' /\ FailedOK'
  BY <1>2, <1>3, <1>4 DEF PreflightInv, SoundOK, KeptOK, FailedOK
<1>9. RunAloneOK'
  <2>1. AtMostOne => AtMostOne'
    BY <1>1, <1>2 DEF AtMostOne, Working
  <2>2. ASSUME NEW g \in Requests, NEW none, Reads(g, none) PROVE Reads(g, none)'
    BY <1>1, <1>2, <2>2 DEF Reads
  <2>3. Spared({"overlap"})' => AtMostOne /\ \A g \in Requests : Reads(g, ~ Spared({"read"})')
    <3>1. ~ Spared({"read"}) => ~ Spared({"read"})'
      BY <1>3
    <3> QED BY <1>3, <3>1 DEF PreflightInv, RunAloneOK, Reads
  <2> QED BY <2>1, <2>2, <2>3 DEF RunAloneOK
<1>10. BaseUsable' /\ TendedOK'
  BY <1>1, <1>2, <1>3 DEF PreflightInv, BaseUsable, TendedOK
<1>11. AlarmOK'
  <2> DEFINE kinds == {"overlap", "list", "snapshot", "diff", "save", "register"}
  <2>1. ASSUME Spared(kinds)'
        PROVE  /\ Spared(kinds) /\ ~ o.failed /\ base[o.via] = 0
               /\ \A g \in Requests : g # h => requests[g].stage = "idle"
               /\ zfs <=> o.via = "zfs"
    <3>1. Spared(kinds)
      BY <1>3, <2>1
    <3>2. AtMostOne /\ ~ o.failed /\ base[o.via] = 0
      BY <1>1, <3>1 DEF PreflightInv, RunAloneOK, Reads, FailedOK, Spared
    <3> QED BY <1>1, <3>1, <3>2 DEF PreflightInv, AtMostOne, AlarmOK, Working
  <2>2. 0 \notin DOMAIN snaps
    BY DEF PreflightInv, RunTypeOK
  <2> QED BY <1>1, <1>2, <2>1, <2>2 DEF PreflightInv, AlarmOK, Working, Providers
<1> QED BY <1>5, <1>6, <1>7, <1>8, <1>9, <1>10, <1>11 DEF PreflightInv

\* os.WriteFile writes the base, or fails to.
LEMMA RunWrites ==
  ASSUME PreflightInv, NEW h \in Requests, WriteBase(h)
  PROVE  PreflightInv'
<1>1. Fails("write") => Passes({"write"})
  BY PassesWhen DEF PreflightInv, Fails
<1> QED BY <1>1, BaseWritten, WriteFails DEF WriteBase

\* The dirty flag is set, or its call has failed.
LEMMA ReportStep ==
  ASSUME PreflightInv, NEW h \in Requests, Report(h)
  PROVE  PreflightInv'
<1> DEFINE o == requests[h]
<1>1. o \in RunRecord /\ o.stage = "report" /\ o.version \in Nat /\ o.version <= tree
  BY DEF PreflightInv, RunTypeOK, GoesOn, Report, RunRecord, VerdictOK
<1>2. /\ requests' \in [Requests -> RunRecord] /\ requests'[h] = NoRequest
      /\ \A g \in Requests : g # h => requests'[g] = requests[g]
  BY OneRequest, Records DEF PreflightInv, Report
<1>3. PICK new : /\ Passes(new)
                 /\ \/ reported' = IF o.changed /\ o.version > reported THEN o.version
                                                                       ELSE reported
                    \/ "flag" \in new /\ reported' = reported
  <2>1. /\ UNCHANGED history => Passes({})
        /\ Mishaps({"flag"}, sound) => Passes({"flag"})
    BY PassesWhen DEF PreflightInv
  <2> QED BY <2>1 DEF Report, Fails
<1>4. /\ \A kinds : Spared(kinds)' => Spared(kinds) /\ new \cap kinds = {}
      /\ sound' \in BOOLEAN /\ trusted' \in Nat /\ (sound' => sound)
      /\ trusted' # 0 => trusted # 0 /\ trusted' = trusted /\ sound' /\ "flag" \notin new
  BY <1>3, SparedBefore, PassesKeeps, HarmfulKinds DEF PreflightInv, KeptOK, Passes
<1>5. /\ zfs' = zfs /\ tree' = tree /\ second' = second /\ snaps' = snaps /\ base' = base
      /\ first' = first
  BY DEF Report
<1>6. /\ reported \in Nat /\ reported <= tree /\ reported' \in Nat /\ reported' <= tree
      /\ reported <= reported'
      /\ reported' = reported \/ reported' = o.version
      /\ o.changed => "flag" \in new \/ o.version <= reported'
  <2>1. reported \in Nat /\ reported <= tree /\ tree \in Nat
    BY DEF PreflightInv, RunTypeOK
  <2> QED BY <1>1, <1>3, <2>1
<1>7. RunTypeOK' /\ SnapsOrdered'
  BY <1>2, <1>4, <1>5, <1>6 DEF PreflightInv, RunTypeOK, SnapsOrdered
<1>8. SnapsNamed' /\ UnsavedOK'
  BY <1>1, <1>2, <1>5, Records DEF PreflightInv, SnapsNamed, UnsavedOK, Unsaved
<1>9. VerdictOK'
  BY <1>2, <1>5, Records DEF PreflightInv, VerdictOK, RunTypeOK
<1>10. RunAloneOK' /\ SoundOK'
  <2>1. AtMostOne => AtMostOne'
    BY <1>1, <1>2, Records DEF AtMostOne, Working
  <2>2. ASSUME NEW g \in Requests, NEW none, Reads(g, none) PROVE Reads(g, none)'
    BY <1>1, <1>2, <1>5, <2>2, Records DEF Reads
  <2>3. Spared({"overlap"})' => AtMostOne /\ \A g \in Requests : Reads(g, ~ Spared({"read"})')
    <3>1. ~ Spared({"read"}) => ~ Spared({"read"})'
      BY <1>4
    <3> QED BY <1>4, <3>1 DEF PreflightInv, RunAloneOK, Reads
  <2>4. RunAloneOK'
    BY <2>1, <2>2, <2>3 DEF RunAloneOK
  <2>5. SoundOK'
    BY <1>2, <1>4, <1>5, <2>1, <2>2, Records DEF PreflightInv, SoundOK
  <2> QED BY <2>4, <2>5
<1>11. FailedOK'
  BY <1>2, <1>4, Records DEF PreflightInv, FailedOK
<1>12. BaseUsable' /\ TendedOK'
  BY <1>1, <1>2, <1>4, <1>5, Records DEF PreflightInv, BaseUsable, TendedOK, Unsaved
<1>13. AlarmOK'
  <2> DEFINE kinds == {"overlap", "list", "snapshot", "diff", "save", "register"}
  <2>1. ASSUME Spared(kinds)'
        PROVE  /\ Spared(kinds)
               /\ \A g \in Requests : g # h => requests[g].stage = "idle"
    <3>1. Spared(kinds)
      BY <1>4, <2>1
    <3> QED BY <1>1, <3>1 DEF PreflightInv, RunAloneOK, AtMostOne, Working, Spared
  <2> QED BY <1>1, <1>2, <1>5, <1>6, <2>1, Records DEF PreflightInv, AlarmOK, Working
<1>14. KeptOK'
  <2>1. ASSUME NEW v \in Nat, NEW g \in Requests, Carries(g, v), "flag" \notin new
        PROVE  v <= reported' \/ Carries(g, v)'
    BY <1>1, <1>2, <1>6, <2>1 DEF Carries
  <2>2. \A v \in Nat : v <= reported => v <= reported'
    BY <1>6
  <2>3. Anchored => Anchored'
    BY <1>1, <1>2, <1>5 DEF Anchored
  <2> QED BY <1>4, <1>5, <2>1, <2>2, <2>3 DEF PreflightInv, KeptOK, Comparable
<1> QED BY <1>7, <1>8, <1>9, <1>10, <1>11, <1>12, <1>13, <1>14 DEF PreflightInv

\* The process dies between any two of these steps.
LEMMA RunCrashes == PreflightInv /\ Die => PreflightInv'
<1> SUFFICES ASSUME PreflightInv, Die PROVE PreflightInv'
  OBVIOUS
<1>1. /\ requests' = [h \in Requests |-> NoRequest] /\ mishaps' = mishaps \cup {"crash"}
      /\ sound' \in BOOLEAN /\ ~ sound' /\ trusted' = 0
  BY PassesWhen, HarmfulKinds DEF PreflightInv, Die, Fails, Passes
<1>2. /\ zfs' = zfs /\ tree' = tree /\ second' = second /\ snaps' = snaps /\ base' = base
      /\ first' = first /\ reported' = reported
  BY DEF Die
<1>3. \A kinds : Spared(kinds)' => Spared(kinds) /\ {"crash"} \cap kinds = {}
  BY <1>1, SparedBefore
<1>4. RunTypeOK' /\ SnapsOrdered'
  BY <1>1, <1>2, Records DEF PreflightInv, RunTypeOK, SnapsOrdered
<1>5. SnapsNamed' /\ UnsavedOK'
  BY <1>1, <1>2, Records DEF PreflightInv, SnapsNamed, UnsavedOK, Unsaved
<1>6. VerdictOK'
  BY <1>1, <1>2, Records DEF PreflightInv, VerdictOK, RunTypeOK
<1>7. RunAloneOK' /\ SoundOK' /\ FailedOK'
  BY <1>1, Records DEF RunAloneOK, SoundOK, AtMostOne, Reads, Working, FailedOK
<1>8. BaseUsable' /\ TendedOK' /\ KeptOK'
  BY <1>1, <1>3 DEF BaseUsable, TendedOK, KeptOK
<1>9. AlarmOK'
  BY <1>1, <1>2, <1>3, Records DEF PreflightInv, AlarmOK, Working
<1> QED BY <1>4, <1>5, <1>6, <1>7, <1>8, <1>9 DEF PreflightInv

\* Every step keeps the invariant.
LEMMA PreflightInvStep == PreflightInv /\ [RunNext]_runVars => PreflightInv'
<1> SUFFICES ASSUME PreflightInv, [RunNext]_runVars PROVE PreflightInv'
  OBVIOUS
<1>1. CASE Edit \/ Tick \/ Die
  BY <1>1, EditStep, TickStep, RunCrashes
<1>2. CASE \E h \in Requests : Run(h)
  BY <1>2, RunBegins, SnapshotStep, DiffStep, DestroyStep, RunOpens, WalkStep, TruncateStep,
     RunWrites, ReportStep DEF Run
<1>3. CASE UNCHANGED runVars
  <2>1. /\ zfs' = zfs /\ tree' = tree /\ second' = second /\ snaps' = snaps /\ base' = base
        /\ requests' = requests /\ first' = first /\ reported' = reported
        /\ mishaps' = mishaps /\ sound' = sound /\ trusted' = trusted
    BY <1>3 DEF runVars, history
  <2>2. (RunTypeOK /\ SnapsOrdered /\ SnapsNamed /\ UnsavedOK /\ VerdictOK /\ RunAloneOK /\ FailedOK)'
    BY <2>1 DEF PreflightInv, RunTypeOK, SnapsOrdered, SnapsNamed, UnsavedOK, Unsaved, VerdictOK,
                RunAloneOK, AtMostOne, Reads, Working, FailedOK, Spared
  <2>3. (SoundOK /\ BaseUsable /\ TendedOK /\ AlarmOK /\ KeptOK)'
    BY <2>1 DEF PreflightInv, SoundOK, AtMostOne, Reads, BaseUsable, TendedOK, Unsaved, AlarmOK,
                Working, KeptOK, Anchored, Comparable, Carries, Spared
  <2> QED BY <2>2, <2>3 DEF PreflightInv
<1> QED BY <1>1, <1>2, <1>3 DEF RunNext

\* The invariant of Preflight.
LEMMA PreflightInvHolds == RunSpec => []PreflightInv
BY PreflightInvInit, PreflightInvStep, PTL DEF RunSpec

\* Once a run has saved its base alone and without a harmful mishap, every later edit
\* has set the dirty flag, is about to, or still differs from the base of some
\* provider, until the next such mishap; what failures and crashes before it have left
\* of the bases and snapshots does not matter (see NoChangeLost).  The step from one
\* version to the next is where a run has walked or snapshotted an older tree than
\* the one there is now: its base is then older too.
THEOREM ChangesAreKept == RunSpec => []NoChangeLost
<1>1. PreflightInv => NoChangeLost
  BY DEF PreflightInv, KeptOK, NoChangeLost, KeptSince, RunTypeOK
<1> QED BY <1>1, PreflightInvHolds, PTL

\* Snapshots do not pile up on the dataset: each is the base or belongs to a run
\* under way (see SnapshotsTended), because a run that has read its base destroys it
\* before it saves another.
THEOREM SnapshotsAreTended == RunSpec => []SnapshotsTended
<1>1. PreflightInv => SnapshotsTended
  BY DEF PreflightInv, TendedOK, SnapshotsTended, Unsaved
<1> QED BY <1>1, PreflightInvHolds, PTL

\* As long as one provider does all the runs and can open its base, no version is
\* reported twice (see AlarmedOnce): the base is replaced before the flag is set, and
\* one that is lost in between, or cannot be read, reports nothing.
THEOREM EditsAlarmOnce == RunSpec => []AlarmedOnce
<1>1. PreflightInv => AlarmedOnce
  BY DEF PreflightInv, AlarmOK, AlarmedOnce, RunTypeOK, RunRecord
<1> QED BY <1>1, PreflightInvHolds, PTL

\* zfs.lastsnap names a snapshot that is there or a request is about to empty it,
\* however requests overlap and whichever reads and writes fail (see BaseUsable): the
\* new snapshot of one is never the base that another destroys.
THEOREM BasesAreUsable == RunSpec => []BaseUsable
<1>1. PreflightInv => BaseUsable
  BY DEF PreflightInv
<1> QED BY <1>1, PreflightInvHolds, PTL
=============================================================================
