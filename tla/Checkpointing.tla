---------------------------- MODULE Checkpointing -----------------------------
(***************************************************************************)
(* Durable checkpoints of a payment graph: compile_payment_graph saves the *)
(* run after every node, and the encrypting saver of checkpointing.py      *)
(* stands between LangGraph and PostgreSQL.  Processes die at any point    *)
(* and come back with whatever key their environment then holds; the       *)
(* database may also hold rows that LangGraph's stock saver wrote.         *)
(*                                                                         *)
(* LangGraph itself is external.  Of its saver the code relies on this: a  *)
(* channel value that is a primitive goes inline into the JSONB document,  *)
(* any other through serde into a blob; a thread that has a row resumes    *)
(* from it, one that has none starts from its input.                       *)
(***************************************************************************)
EXTENDS Naturals

CONSTANTS
  Threads,     \* run ids
  OpaqueIds,   \* those that are UUIDs or ULIDs
  Channels,    \* the fields of AgentState
  Primitive,   \* those that hold None, a str, an int, a float or a bool
  Keys,        \* Base64 of 32 bytes
  BadKeys,     \* unset, not Base64, or of another length
  NodeCount,   \* nodes of the graph, which run in order
  Nil

ASSUME CheckpointingAssumption ==
  /\ OpaqueIds \subseteq Threads
  /\ Channels # {}
  /\ Primitive \subseteq Channels
  /\ Keys \cap BadKeys = {}
  /\ NodeCount \in Nat
  /\ Nil \notin Keys \cup BadKeys

VARIABLES
  serde,   \* the key of the saver the process has open, Nil if it has none
  run,     \* the graph state a process holds in memory for a thread
  saved,   \* the newest row of each thread
  kept     \* ghost: the graph state that row was made of, Nil for a row
           \* the encrypting saver did not write

vars == <<serde, run, saved, kept>>

Nodes == 0..NodeCount

(* next: how many nodes have run; channels: the node that last wrote each  *)
(* (0 is the input); sends: the node whose Sends are pending, Nil if none. *)
GraphState == [next : Nodes, channels : [Channels -> Nodes],
               sends : Nodes \cup {Nil}]

Input == [next |-> 0, channels |-> [c \in Channels |-> 0], sends |-> Nil]

(* Where a value lies: inline in the JSONB document, in a blob with a      *)
(* plaintext type tag, or in one with an AES tag under a key.  A marked    *)
(* value is the pair of _PRIMITIVE_MARKER and the value.                   *)
Cell == [place : {"jsonb", "plain", "aes"}, key : Keys \cup {Nil},
         marked : BOOLEAN, value : Nodes]

Metadata == {"source", "step", "parents", "other"}

Row == [next : Nodes, channels : [Channels -> Cell],
        sends : Cell \cup {Nil}, metadata : SUBSET Metadata]

ASSUME NilAssumption ==
  Nil \notin Nat \cup GraphState \cup Cell \cup Row
               \cup [state : GraphState, dirty : BOOLEAN]

TypeOK ==
  /\ serde \in Keys \cup {Nil}
  /\ run \in [Threads -> [state : GraphState, dirty : BOOLEAN] \cup {Nil}]
  /\ saved \in [Threads -> Row \cup {Nil}]
  /\ kept \in [Threads -> GraphState \cup {Nil}]

-----------------------------------------------------------------------------
(* _StrictEncryptedCheckpointSerializer.  The library's own serializer     *)
(* hands a payload without an AES tag to its plaintext fallback; AES-EAX   *)
(* authenticates, so another key reads nothing.                            *)
Dumps(key, marked, v) ==
  [place |-> "aes", key |-> key, marked |-> marked, value |-> v]

CanLoad(key, cell) == cell.place = "aes" /\ cell.key = key

(* The stock saver's own choice of place. *)
Store(key, isPrimitive, marked, v) ==
  IF isPrimitive /\ ~marked
  THEN [place |-> "jsonb", key |-> Nil, marked |-> FALSE, value |-> v]
  ELSE Dumps(key, marked, v)

(* _prepare_checkpoint marks every primitive, so that none is left inline, *)
(* and encrypts pending sends that are not empty.                          *)
Marks_None(c) == FALSE

Marks(c) == c \in Primitive

SafeMetadata(metadata) == metadata \cap {"source", "step", "parents"}

Prepare(key, state, metadata) ==
  [next     |-> state.next,
   channels |-> [c \in Channels |->
                   Store(key, c \in Primitive, Marks(c), state.channels[c])],
   sends    |-> IF state.sends = Nil THEN Nil
                ELSE Dumps(key, FALSE, state.sends),
   metadata |-> SafeMetadata(metadata)]

(* The base saver decrypts the blobs; _restore_checkpoint takes marked     *)
(* values out of their pair, and refuses a primitive without one and       *)
(* pending sends that are not encrypted.  Any refusal raises.              *)
Loads(t, key) ==
  LET row == saved[t]
  IN  /\ t \in OpaqueIds
      /\ \A c \in Channels :
           IF c \in Primitive THEN row.channels[c].marked
                                   /\ CanLoad(key, row.channels[c])
           ELSE CanLoad(key, row.channels[c])
      /\ row.sends # Nil => CanLoad(key, row.sends)

Restore(row) ==
  [next     |-> row.next,
   channels |-> [c \in Channels |-> row.channels[c].value],
   sends    |-> IF row.sends = Nil THEN Nil ELSE row.sends.value]

(* What the stock saver makes of a run it checkpointed after n nodes.      *)
StockCell(c, v) ==
  [place |-> IF c \in Primitive THEN "jsonb" ELSE "plain",
   key |-> Nil, marked |-> FALSE, value |-> v]

StockRow(n, sends) ==
  [next |-> n, channels |-> [c \in Channels |-> StockCell(c, n)],
   sends |-> IF sends THEN [place |-> "jsonb", key |-> Nil, marked |-> FALSE,
                            value |-> n]
             ELSE Nil,
   metadata |-> Metadata]

-----------------------------------------------------------------------------
Init ==
  /\ serde = Nil
  /\ run = [t \in Threads |-> Nil]
  /\ saved \in [Threads -> {Nil} \cup
                  {StockRow(n, sends) : n \in Nodes, sends \in BOOLEAN}]
  /\ kept = [t \in Threads |-> Nil]

(* postgres_saver and async_postgres_saver: _checkpoint_serde comes before *)
(* the connection, and raises unless the environment holds a key.          *)
Open(key) ==
  /\ serde = Nil
  /\ key \in Keys
  /\ serde' = key
  /\ UNCHANGED <<run, saved, kept>>

(* A caller starts a run under checkpoint_config(t), or takes it up again. *)
(* If the row cannot be loaded the exception leaves the run where it is.   *)
Starts_Anew(t) == IF saved[t] = Nil THEN TRUE ELSE ~Loads(t, serde)

Starts(t) == saved[t] = Nil

Invoke(t) ==
  /\ serde # Nil /\ run[t] = Nil
  /\ t \in OpaqueIds
  /\ \/ /\ Starts(t)
        /\ run' = [run EXCEPT ![t] = [state |-> Input, dirty |-> TRUE]]
     \/ /\ saved[t] # Nil /\ Loads(t, serde)
        /\ run' = [run EXCEPT ![t] = [state |-> Restore(saved[t]),
                                      dirty |-> FALSE]]
  /\ UNCHANGED <<serde, saved, kept>>

HasNext_AfterEnd(state) == state.next <= NodeCount

HasNext(state) == state.next < NodeCount

(* A node reads the whole state and writes some channels; the pending      *)
(* sends it was started with are consumed.                                 *)
RunNode(t, written, sends) ==
  /\ run[t] # Nil /\ ~run[t].dirty
  /\ HasNext(run[t].state)
  /\ LET n == run[t].state.next + 1
     IN  run' = [run EXCEPT ![t] =
           [state |-> [next |-> n,
                       channels |-> [c \in Channels |->
                          IF c \in written THEN n
                          ELSE run[t].state.channels[c]],
                       sends |-> IF sends THEN n ELSE Nil],
            dirty |-> TRUE]]
  /\ UNCHANGED <<serde, saved, kept>>

(* put and aput: metadata is LangGraph's source, step and parents, and     *)
(* whatever the caller's config adds to it.                                *)
Put(t, metadata) ==
  /\ run[t] # Nil /\ run[t].dirty
  /\ t \in OpaqueIds
  /\ saved' = [saved EXCEPT ![t] = Prepare(serde, run[t].state, metadata)]
  /\ kept' = [kept EXCEPT ![t] = run[t].state]
  /\ run' = [run EXCEPT ![t].dirty = FALSE]
  /\ UNCHANGED serde

(* The process ends, with or without a reason. *)
Crash ==
  /\ serde # Nil
  /\ serde' = Nil
  /\ run' = [t \in Threads |-> Nil]
  /\ UNCHANGED <<saved, kept>>

Next ==
  \/ \E key \in Keys \cup BadKeys : Open(key)
  \/ \E t \in Threads :
       \/ Invoke(t)
       \/ \E written \in SUBSET Channels, sends \in BOOLEAN :
            RunNode(t, written, sends)
       \/ \E metadata \in SUBSET Metadata : Put(t, metadata)
  \/ Crash

Spec == Init /\ [][Next]_vars

-----------------------------------------------------------------------------
Sealed(cell) == cell.place = "aes"

(* "All graph channel values and non-empty pending sends are forced        *)
(* through an authenticated encrypted serializer" (checkpointing.py:3):    *)
(* whatever nodes wrote and whatever type it has, no row this saver wrote  *)
(* holds any of it, or any metadata beyond the small contract, in the      *)
(* clear, over restarts and changes of key.                                *)
ConfidentialAtRest ==
  \A t \in Threads :
    kept[t] # Nil =>
      /\ \A c \in Channels : Sealed(saved[t].channels[c])
      /\ saved[t].sends # Nil => Sealed(saved[t].sends)
      /\ "other" \notin saved[t].metadata

(* A run goes on exactly where its last checkpoint left it, and so repeats *)
(* no node whose checkpoint was saved: not after a crash, not with another *)
(* key, which must fail rather than start the payment again, and not from  *)
(* a row of the stock saver ("rejected instead of silently resumed",       *)
(* checkpointing.py:5).                                                    *)
ContinuesFromCheckpoint ==
  \A t \in Threads :
    run[t] # Nil =>
      \/ ~run[t].dirty /\ run[t].state = kept[t]
      \/ run[t].dirty /\ kept[t] = Nil /\ saved[t] = Nil /\ run[t].state = Input
      \/ /\ run[t].dirty /\ kept[t] # Nil
         /\ run[t].state.next = kept[t].next + 1
         /\ \A c \in Channels :
              run[t].state.channels[c] \in {kept[t].channels[c],
                                            run[t].state.next}
=============================================================================
