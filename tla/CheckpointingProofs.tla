-------------------------- MODULE CheckpointingProofs ---------------------------
(***************************************************************************)
(* What Checkpointing promises, for any threads, channels, keys and number *)
(* of nodes.  The invariant knows where each row comes from: the           *)
(* encrypting saver made it of the state the ghost kept, or it is one the  *)
(* stock saver left, which never loads because the graph state has at      *)
(* least one channel and the stock saver seals none.                       *)
(***************************************************************************)
EXTENDS Checkpointing, TLAPS

(* The row is what this saver made of the kept state, under some key. *)
OwnRow(t) ==
  \E key \in Keys, metadata \in SUBSET Metadata :
    saved[t] = Prepare(key, kept[t], metadata)

StockRows == {StockRow(n, sends) : n \in Nodes, sends \in BOOLEAN}

RowsKnown ==
  \A t \in Threads :
    IF kept[t] # Nil THEN OwnRow(t) ELSE saved[t] \in {Nil} \cup StockRows

(* Only an open saver runs a thread. *)
RunsAreOpen == \A t \in Threads : run[t] # Nil => serde # Nil

IInv == TypeOK /\ RowsKnown /\ RunsAreOpen /\ ContinuesFromCheckpoint

-----------------------------------------------------------------------------
(* Every cell and row the encrypting saver makes is well formed and holds  *)
(* nothing in the clear.                                                   *)
LEMMA PrepareSeals ==
  ASSUME NEW key \in Keys, NEW state \in GraphState,
         NEW metadata \in SUBSET Metadata
  PROVE  LET row == Prepare(key, state, metadata)
         IN  /\ row \in Row
             /\ \A c \in Channels : Sealed(row.channels[c])
             /\ row.sends # Nil => Sealed(row.sends)
             /\ "other" \notin row.metadata
<1> DEFINE row == Prepare(key, state, metadata)
<1>1. \A c \in Channels : state.channels[c] \in Nodes
  BY DEF GraphState
<1>2. \A v \in Nodes, marked \in BOOLEAN :
        Dumps(key, marked, v) \in Cell /\ Sealed(Dumps(key, marked, v))
  BY DEF Dumps, Cell, Sealed
<1>3. ASSUME NEW c \in Channels
      PROVE  Store(key, c \in Primitive, Marks(c), state.channels[c])
               = Dumps(key, c \in Primitive, state.channels[c])
  BY DEF Store, Marks
<1>4. row.channels = [c \in Channels |->
                        Dumps(key, c \in Primitive, state.channels[c])]
  BY <1>3 DEF Prepare
<1>5. /\ row.channels \in [Channels -> Cell]
      /\ \A c \in Channels : Sealed(row.channels[c])
  <2>1. \A c \in Channels : (c \in Primitive) \in BOOLEAN
    OBVIOUS
  <2>2. QED
    BY <1>1, <1>2, <1>4, <2>1
<1>6. /\ row.sends \in Cell \cup {Nil}
      /\ row.sends # Nil => Sealed(row.sends)
  <2>1. row.sends = IF state.sends = Nil THEN Nil
                    ELSE Dumps(key, FALSE, state.sends)
    BY DEF Prepare
  <2>2. state.sends \in Nodes \cup {Nil}
    BY DEF GraphState
  <2>3. QED
    BY <1>2, <2>1, <2>2
<1>7. row.metadata \in SUBSET Metadata /\ "other" \notin row.metadata
  BY DEF Prepare, SafeMetadata
<1>8. row = [next |-> state.next, channels |-> row.channels,
             sends |-> row.sends, metadata |-> row.metadata]
  BY DEF Prepare
<1>9. row \in Row
  <2>1. state.next \in Nodes
    BY DEF GraphState
  <2> HIDE DEF row
  <2>2. QED
    BY <1>5, <1>6, <1>7, <1>8, <2>1 DEF Row
<1>10. QED
  BY <1>5, <1>6, <1>7, <1>9

(* Loading undoes preparing: every channel and the pending sends come back *)
(* as they were, marked primitives without their mark.                     *)
LEMMA RestorePrepared ==
  ASSUME NEW key \in Keys, NEW state \in GraphState, NEW metadata
  PROVE  Restore(Prepare(key, state, metadata)) = state
<1> DEFINE row == Prepare(key, state, metadata)
<1>1. row.next = state.next
  BY DEF Prepare
<1>2. [c \in Channels |-> row.channels[c].value] = state.channels
  <2>1. \A c \in Channels : row.channels[c].value = state.channels[c]
    BY DEF Prepare, Store, Dumps
  <2>2. state.channels \in [Channels -> Nodes]
    BY DEF GraphState
  <2> HIDE DEF row
  <2>3. QED
    BY <2>1, <2>2
<1>3. (IF row.sends = Nil THEN Nil ELSE row.sends.value) = state.sends
  <2>1. CASE state.sends = Nil
    BY <2>1 DEF Prepare
  <2>2. CASE state.sends # Nil
    <3>1. row.sends = Dumps(key, FALSE, state.sends)
      BY <2>2 DEF Prepare
    <3>2. state.sends \in Nodes
      BY <2>2 DEF GraphState
    <3>3. row.sends \in Cell /\ row.sends.value = state.sends
      BY <3>1, <3>2 DEF Dumps, Cell
    <3> HIDE DEF row
    <3>4. QED
      BY <3>3, NilAssumption
  <2>3. QED
    BY <2>1, <2>2
<1>4. state = [next |-> state.next, channels |-> state.channels,
               sends |-> state.sends]
  BY DEF GraphState
<1> HIDE DEF row
<1>5. Restore(row) = [next |-> state.next, channels |-> state.channels,
                      sends |-> state.sends]
  BY <1>1, <1>2, <1>3 DEF Restore
<1>6. QED
  BY <1>4, <1>5 DEF row

LEMMA StockRowTyped ==
  ASSUME NEW row \in StockRows
  PROVE  row \in Row
<1>1. PICK n \in Nodes, sends \in BOOLEAN : row = StockRow(n, sends)
  BY DEF StockRows
<1>2. /\ \A c \in Channels : StockCell(c, n) \in Cell
      /\ [place |-> "jsonb", key |-> Nil, marked |-> FALSE, value |-> n] \in Cell
  BY DEF StockCell, Cell
<1>3. Metadata \in SUBSET Metadata
  OBVIOUS
<1>4. QED
  BY <1>1, <1>2, <1>3 DEF StockRow, Row

(* A row of the stock saver loads under no key: there is a channel, and    *)
(* its value is not sealed.                                                *)
LEMMA StockRowRefused ==
  ASSUME NEW t \in Threads, NEW key, saved[t] \in StockRows
  PROVE  ~Loads(t, key)
<1>1. PICK n \in Nodes, sends \in BOOLEAN : saved[t] = StockRow(n, sends)
  BY DEF StockRows
<1>2. PICK c \in Channels : TRUE
  BY CheckpointingAssumption
<1>3. saved[t].channels[c] = StockCell(c, n)
  BY <1>1 DEF StockRow
<1>4. /\ ~saved[t].channels[c].marked
      /\ ~CanLoad(key, saved[t].channels[c])
  BY <1>3 DEF StockCell, CanLoad
<1>5. QED
  BY <1>4 DEF Loads

-----------------------------------------------------------------------------
LEMMA InitInv == Init => IInv
<1> SUFFICES ASSUME Init
             PROVE  IInv
  OBVIOUS
<1>1. saved \in [Threads -> {Nil} \cup StockRows]
  BY DEF Init, StockRows
<1>2. TypeOK
  <2>1. \A row \in StockRows : row \in Row
    BY StockRowTyped
  <2>2. saved \in [Threads -> Row \cup {Nil}]
    BY <1>1, <2>1
  <2>3. QED
    BY <2>2 DEF Init, TypeOK
<1>3. RowsKnown
  BY <1>1 DEF Init, RowsKnown
<1>4. RunsAreOpen /\ ContinuesFromCheckpoint
  BY DEF Init, RunsAreOpen, ContinuesFromCheckpoint
<1>5. QED
  BY <1>2, <1>3, <1>4 DEF IInv

(* What a caller finds: nothing, and the run starts from its input, or a   *)
(* row this saver wrote, and the run is the state that was kept.           *)
LEMMA InvokeInv ==
  ASSUME IInv, NEW t \in Threads, Invoke(t)
  PROVE  IInv'
<1>1. serde # Nil /\ UNCHANGED <<serde, saved, kept>>
  BY DEF Invoke
<1>2. Input \in GraphState
  <2>1. 0 \in Nodes
    BY CheckpointingAssumption DEF Nodes
  <2>2. QED
    BY <2>1 DEF Input, GraphState
<1>3. \/ /\ saved[t] = Nil /\ kept[t] = Nil
         /\ run' = [run EXCEPT ![t] = [state |-> Input, dirty |-> TRUE]]
      \/ /\ kept[t] \in GraphState
         /\ run' = [run EXCEPT ![t] = [state |-> kept[t], dirty |-> FALSE]]
  <2>1. CASE saved[t] = Nil
    <3>1. kept[t] = Nil
      <4>1. SUFFICES ASSUME kept[t] # Nil
                     PROVE  FALSE
        OBVIOUS
      <4>2. kept[t] \in GraphState
        BY <4>1 DEF IInv, TypeOK
      <4>3. PICK key \in Keys, metadata \in SUBSET Metadata :
              saved[t] = Prepare(key, kept[t], metadata)
        BY <4>1 DEF IInv, RowsKnown, OwnRow
      <4>4. saved[t] \in Row
        BY <4>2, <4>3, PrepareSeals
      <4>5. QED
        BY <2>1, <4>4, NilAssumption
    <3>2. QED
      BY <2>1, <3>1 DEF Invoke, Starts
  <2>2. CASE saved[t] # Nil
    <3>1. Loads(t, serde)
      BY <2>2 DEF Invoke, Starts
    <3>2. run' = [run EXCEPT ![t] = [state |-> Restore(saved[t]),
                                     dirty |-> FALSE]]
      BY <2>2 DEF Invoke, Starts
    <3>3. kept[t] # Nil
      BY <2>2, <3>1, StockRowRefused DEF IInv, RowsKnown
    <3>4. kept[t] \in GraphState
      BY <3>3 DEF IInv, TypeOK
    <3>5. PICK key \in Keys, metadata \in SUBSET Metadata :
            saved[t] = Prepare(key, kept[t], metadata)
      BY <3>3 DEF IInv, RowsKnown, OwnRow
    <3>6. Restore(saved[t]) = kept[t]
      BY <3>4, <3>5, RestorePrepared
    <3>7. QED
      BY <3>2, <3>4, <3>6
  <2>3. QED
    BY <2>1, <2>2
<1>4. TypeOK'
  <2>1. \A state \in GraphState, dirty \in BOOLEAN :
          [state |-> state, dirty |-> dirty]
            \in [state : GraphState, dirty : BOOLEAN]
    OBVIOUS
  <2>2. run' \in [Threads -> [state : GraphState, dirty : BOOLEAN] \cup {Nil}]
    BY <1>2, <1>3, <2>1 DEF IInv, TypeOK
  <2>3. QED
    BY <1>1, <2>2 DEF IInv, TypeOK
<1>5. RowsKnown'
  BY <1>1 DEF IInv, RowsKnown, OwnRow
<1>6. RunsAreOpen'
  BY <1>1 DEF RunsAreOpen
<1>7. ContinuesFromCheckpoint'
  <2>1. run \in [Threads -> [state : GraphState, dirty : BOOLEAN] \cup {Nil}]
    BY DEF IInv, TypeOK
  <2>2. \A u \in Threads \ {t} : run'[u] = run[u]
    BY <1>3, <2>1
  <2>3. \/ run'[t] = [state |-> Input, dirty |-> TRUE]
           /\ saved[t] = Nil /\ kept[t] = Nil
        \/ run'[t] = [state |-> kept[t], dirty |-> FALSE]
    BY <1>3, <2>1
  <2>4. ASSUME NEW u \in Threads, run'[u] # Nil, u # t
        PROVE  run[u] # Nil /\ run'[u] = run[u]
    BY <2>2, <2>4
  <2>5. QED
    BY <1>1, <2>3, <2>4 DEF IInv, ContinuesFromCheckpoint
<1>8. QED
  BY <1>4, <1>5, <1>6, <1>7 DEF IInv

(* A node extends a state that is exactly the last checkpoint. *)
LEMMA RunNodeInv ==
  ASSUME IInv, NEW t \in Threads, NEW written \in SUBSET Channels,
         NEW sends \in BOOLEAN, RunNode(t, written, sends)
  PROVE  IInv'
<1> DEFINE n == run[t].state.next + 1
           next == [next |-> n,
                    channels |-> [c \in Channels |->
                       IF c \in written THEN n ELSE run[t].state.channels[c]],
                    sends |-> IF sends THEN n ELSE Nil]
<1>1. /\ run[t] # Nil /\ ~run[t].dirty /\ run[t].state.next < NodeCount
      /\ run' = [run EXCEPT ![t] = [state |-> next, dirty |-> TRUE]]
      /\ UNCHANGED <<serde, saved, kept>>
  BY DEF RunNode, HasNext
<1>2. /\ run \in [Threads -> [state : GraphState, dirty : BOOLEAN] \cup {Nil}]
      /\ run[t].state \in GraphState
  BY <1>1 DEF IInv, TypeOK
<1>3. n \in Nodes
  BY <1>1, <1>2, CheckpointingAssumption DEF Nodes, GraphState
<1>4. next \in GraphState
  <2>1. run[t].state.channels \in [Channels -> Nodes]
    BY <1>2 DEF GraphState
  <2> HIDE DEF n
  <2>2. QED
    BY <1>3, <2>1 DEF GraphState
<1>5. run[t].state = kept[t] /\ kept[t] # Nil
  <2>1. run[t].state = kept[t]
    BY <1>1 DEF IInv, ContinuesFromCheckpoint
  <2>2. QED
    BY <1>2, <2>1, NilAssumption
<1>6. /\ next.next = kept[t].next + 1
      /\ \A c \in Channels : next.channels[c] \in {kept[t].channels[c], next.next}
  BY <1>5
<1> HIDE DEF next
<1>7. TypeOK'
  <2>1. [state |-> next, dirty |-> TRUE] \in [state : GraphState, dirty : BOOLEAN]
    BY <1>4
  <2>2. QED
    BY <1>1, <1>2, <2>1 DEF IInv, TypeOK
<1>8. /\ run'[t] = [state |-> next, dirty |-> TRUE]
      /\ \A u \in Threads \ {t} : run'[u] = run[u]
  BY <1>1, <1>2
<1>9. RowsKnown' /\ RunsAreOpen'
  BY <1>1, <1>8 DEF IInv, RowsKnown, OwnRow, RunsAreOpen
<1>10. ContinuesFromCheckpoint'
  <2>1. ASSUME NEW u \in Threads, u # t, run'[u] # Nil
        PROVE  run[u] # Nil /\ run'[u] = run[u]
    BY <1>8, <2>1
  <2>2. run'[t].dirty /\ run'[t].state = next
    BY <1>8
  <2>3. QED
    BY <1>1, <1>5, <1>6, <2>1, <2>2 DEF IInv, ContinuesFromCheckpoint
<1>11. QED
  BY <1>7, <1>9, <1>10 DEF IInv

(* A checkpoint keeps the state it saves. *)
LEMMA PutInv ==
  ASSUME IInv, NEW t \in Threads, NEW metadata \in SUBSET Metadata,
         Put(t, metadata)
  PROVE  IInv'
<1> DEFINE state == run[t].state
           row == Prepare(serde, state, metadata)
<1>1. /\ run[t] # Nil
      /\ saved' = [saved EXCEPT ![t] = row]
      /\ kept' = [kept EXCEPT ![t] = state]
      /\ run' = [run EXCEPT ![t].dirty = FALSE]
      /\ UNCHANGED serde
  BY DEF Put
<1>2. /\ run \in [Threads -> [state : GraphState, dirty : BOOLEAN] \cup {Nil}]
      /\ run[t] \in [state : GraphState, dirty : BOOLEAN]
      /\ state \in GraphState
      /\ serde \in Keys
  BY <1>1 DEF IInv, TypeOK, RunsAreOpen
<1>3. row \in Row
  BY <1>2, PrepareSeals
<1>4. state # Nil
  BY <1>2, NilAssumption
<1>5. /\ run'[t] = [state |-> state, dirty |-> FALSE]
      /\ \A u \in Threads \ {t} : run'[u] = run[u]
      /\ run' \in [Threads -> [state : GraphState, dirty : BOOLEAN] \cup {Nil}]
  BY <1>1, <1>2
<1>6. /\ kept'[t] = state /\ saved'[t] = row
      /\ \A u \in Threads \ {t} : kept'[u] = kept[u] /\ saved'[u] = saved[u]
  BY <1>1 DEF IInv, TypeOK
<1>7. TypeOK'
  <2> HIDE DEF row, state
  <2>1. QED
    BY <1>1, <1>2, <1>3, <1>5 DEF IInv, TypeOK
<1>8. RowsKnown'
  <2>1. ASSUME NEW u \in Threads
        PROVE  IF kept'[u] # Nil THEN OwnRow(u)'
               ELSE saved'[u] \in {Nil} \cup StockRows
    <3>1. CASE u = t
      <4>1. saved'[u] = Prepare(serde, kept'[u], metadata) /\ kept'[u] # Nil
        BY <1>4, <1>6, <3>1
      <4>2. QED
        BY <1>2, <4>1 DEF OwnRow
    <3>2. CASE u # t
      BY <1>6, <3>2 DEF IInv, RowsKnown, OwnRow
    <3>3. QED
      BY <3>1, <3>2
  <2>2. QED
    BY <2>1 DEF RowsKnown
<1>9. RunsAreOpen'
  BY <1>1, <1>2, <1>5 DEF IInv, RunsAreOpen
<1>10. ContinuesFromCheckpoint'
  <2>1. ~run'[t].dirty /\ run'[t].state = kept'[t]
    BY <1>5, <1>6
  <2>2. QED
    BY <1>5, <1>6, <2>1 DEF IInv, ContinuesFromCheckpoint
<1>11. QED
  BY <1>7, <1>8, <1>9, <1>10 DEF IInv

(* A process that starts has no run; one that dies leaves the rows alone.  *)
LEMMA ProcessInv ==
  ASSUME IInv, Crash \/ \E key \in Keys \cup BadKeys : Open(key)
  PROVE  IInv'
<1>1. \/ serde' = Nil /\ run' = [t \in Threads |-> Nil]
      \/ /\ serde = Nil /\ serde' \in Keys /\ UNCHANGED run
  BY DEF Crash, Open
<1>2. UNCHANGED <<saved, kept>>
  BY DEF Crash, Open
<1>3. RowsKnown'
  BY <1>2 DEF IInv, RowsKnown, OwnRow
<1>4. \A t \in Threads : run'[t] = Nil
  BY <1>1 DEF IInv, RunsAreOpen
<1>5. TypeOK' /\ RunsAreOpen' /\ ContinuesFromCheckpoint'
  BY <1>1, <1>2, <1>4 DEF IInv, TypeOK, RunsAreOpen, ContinuesFromCheckpoint
<1>6. QED
  BY <1>3, <1>5 DEF IInv

LEMMA NextInv == IInv /\ [Next]_vars => IInv'
<1> SUFFICES ASSUME IInv, [Next]_vars
             PROVE  IInv'
  OBVIOUS
<1>1. CASE \E t \in Threads : Invoke(t)
  BY <1>1, InvokeInv
<1>2. CASE \E t \in Threads, written \in SUBSET Channels, sends \in BOOLEAN :
             RunNode(t, written, sends)
  BY <1>2, RunNodeInv
<1>3. CASE \E t \in Threads, metadata \in SUBSET Metadata : Put(t, metadata)
  BY <1>3, PutInv
<1>4. CASE Crash \/ \E key \in Keys \cup BadKeys : Open(key)
  BY <1>4, ProcessInv
<1>5. CASE UNCHANGED vars
  BY <1>5 DEF vars, IInv, TypeOK, RowsKnown, OwnRow, RunsAreOpen,
              ContinuesFromCheckpoint
<1>6. QED
  BY <1>1, <1>2, <1>3, <1>4, <1>5 DEF Next

THEOREM InductiveInvariant == Spec => []IInv
  BY InitInv, NextInv, PTL DEF Spec

(* Rows, runs and keys keep their types. *)
THEOREM TypeCorrect == Spec => []TypeOK
<1>1. IInv => TypeOK
  BY DEF IInv
<1>2. QED
  BY <1>1, InductiveInvariant, PTL

(* No row this saver wrote holds a channel value, a pending send or        *)
(* metadata of the caller's in the clear (checkpointing.py:3).             *)
THEOREM Confidential == Spec => []ConfidentialAtRest
<1>1. IInv => ConfidentialAtRest
  <2> SUFFICES ASSUME IInv, NEW t \in Threads, kept[t] # Nil
               PROVE  /\ \A c \in Channels : Sealed(saved[t].channels[c])
                      /\ saved[t].sends # Nil => Sealed(saved[t].sends)
                      /\ "other" \notin saved[t].metadata
    BY DEF ConfidentialAtRest
  <2>1. kept[t] \in GraphState
    BY DEF IInv, TypeOK
  <2>2. PICK key \in Keys, metadata \in SUBSET Metadata :
          saved[t] = Prepare(key, kept[t], metadata)
    BY DEF IInv, RowsKnown, OwnRow
  <2>3. QED
    BY <2>1, <2>2, PrepareSeals
<1>2. QED
  BY <1>1, InductiveInvariant, PTL

(* A run continues from its last checkpoint and from nowhere else.         *)
THEOREM Continuity == Spec => []ContinuesFromCheckpoint
<1>1. IInv => ContinuesFromCheckpoint
  BY DEF IInv
<1>2. QED
  BY <1>1, InductiveInvariant, PTL
=============================================================================
