----------------------------- MODULE TSOMachine -----------------------------
(***************************************************************************)
(* models/tso_lb.cc: threads with local copies of a global memory, which   *)
(* record the execution they produce as a witness ew_ (po, rf, co), to be  *)
(* verified against the axioms of TSO.  A write is seen by all who copy    *)
(* the memory from then on; a thread that has not copied it reads old      *)
(* values.  The initial value of an address is the write by NoPid.         *)
(***************************************************************************)
EXTENDS Integers, FiniteSets

CONSTANTS
  Pid, Addr,
  NoPid,         \* Iiid(-1, addr): the initial writes
  AcceptRf,      \* an execution is accepted with so many reads ...
  AcceptCo       \* ... and so many writes

ASSUME MachineAssumption ==
  /\ IsFiniteSet(Pid) /\ IsFiniteSet(Addr)
  /\ NoPid \notin Pid
  /\ AcceptRf \in Nat /\ AcceptCo \in Nat

VARIABLES
  global_,         \* address -> id of the last write
  local_buffer_,   \* thread -> address -> id of the write it sees
  po_last_,        \* thread -> the set of its last event, {} before the first
  po, rf, co,      \* ew_
  next_read_id_, next_write_id_

ew_ == <<po, rf, co>>
vars == <<global_, local_buffer_, po_last_, ew_, next_read_id_, next_write_id_>>

kInitWrite == 0
Event == [type : {"Read", "Write"}, addr : Addr, pid : Pid \cup {NoPid}, id : Nat]
Reads == {e[2] : e \in rf}
Writes == {e[2] : e \in co}

TypeOK ==
  /\ global_ \in [Addr -> 0 .. next_write_id_ - 1]
  /\ local_buffer_ \in [Pid -> [Addr -> 0 .. next_write_id_ - 1]]
  /\ po_last_ \in [Pid -> SUBSET Event]
  /\ po \subseteq Event \X Event
  /\ rf \subseteq Event \X Event
  /\ co \subseteq Event \X Event
  /\ next_read_id_ = 1 + Cardinality(rf)
  /\ next_write_id_ = 1 + Cardinality(co)

Init ==
  /\ global_ = [a \in Addr |-> kInitWrite]
  /\ local_buffer_ = [p \in Pid |-> [a \in Addr |-> kInitWrite]]
  /\ po_last_ = [p \in Pid |-> {}]
  /\ po = {}
  /\ rf = {}
  /\ co = {}
  /\ next_read_id_ = 1
  /\ next_write_id_ = 1

-----------------------------------------------------------------------------
InitWrite(a) == [type |-> "Write", addr |-> a, pid |-> NoPid, id |-> kInitWrite]

GetWrite(a, wid) ==
  IF wid = kInitWrite THEN InitWrite(a)
  ELSE CHOOSE w \in Writes : w.id = wid

(* MakeEvent and InsertPo.                                                 *)
ReadEvent(p, a) ==
  [type |-> "Read", addr |-> a, pid |-> p, id |-> next_read_id_]
WriteEvent(p, a) ==
  [type |-> "Write", addr |-> a, pid |-> p, id |-> next_write_id_]

InsertPo(p, evt) ==
  /\ po' = po \cup (po_last_[p] \X {evt})
  /\ po_last_' = [po_last_ EXCEPT ![p] = {evt}]

(* MemOp's guard, which is PreCond on a state and PostCond on the next,    *)
(* and Accept, on which the search ends.                                   *)
Guard(reads, writes) ==
  Cardinality(reads) <= AcceptRf /\ Cardinality(writes) <= AcceptCo

Accept == Cardinality(rf) = AcceptRf /\ Cardinality(co) = AcceptCo

MemOp == Guard(rf, co) /\ ~Accept

Read(p, a) ==
  /\ MemOp
  /\ InsertPo(p, ReadEvent(p, a))
  /\ rf' = rf \cup {<<GetWrite(a, local_buffer_[p][a]), ReadEvent(p, a)>>}
  /\ next_read_id_' = next_read_id_ + 1
  /\ UNCHANGED <<global_, local_buffer_, co, next_write_id_>>
  /\ Guard(rf', co)

(* Faulty: a write comes after the one its thread sees, not the last one.  *)
WriteAfterSeen(p, a) ==
  /\ MemOp
  /\ InsertPo(p, WriteEvent(p, a))
  /\ co' = co \cup {<<GetWrite(a, local_buffer_[p][a]), WriteEvent(p, a)>>}
  /\ local_buffer_' = [local_buffer_ EXCEPT ![p][a] = next_write_id_]
  /\ global_' = [global_ EXCEPT ![a] = next_write_id_]
  /\ next_write_id_' = next_write_id_ + 1
  /\ UNCHANGED <<rf, next_read_id_>>
  /\ Guard(rf, co')

Write(p, a) ==
  /\ MemOp
  /\ InsertPo(p, WriteEvent(p, a))
  /\ co' = co \cup {<<GetWrite(a, global_[a]), WriteEvent(p, a)>>}
  /\ local_buffer_' = [local_buffer_ EXCEPT ![p][a] = next_write_id_]
  /\ global_' = [global_ EXCEPT ![a] = next_write_id_]
  /\ next_write_id_' = next_write_id_ + 1
  /\ UNCHANGED <<rf, next_read_id_>>
  /\ Guard(rf, co')

(* Faulty: the line "<- bug" of the source, one address is copied.         *)
PropagateOne(p) ==
  /\ local_buffer_[p] # global_
  /\ \E a \in Addr :
       local_buffer_' = [local_buffer_ EXCEPT ![p][a] = global_[a]]
  /\ UNCHANGED <<global_, po_last_, ew_, next_read_id_, next_write_id_>>

Propagate(p) ==
  /\ local_buffer_[p] # global_
  /\ local_buffer_' = [local_buffer_ EXCEPT ![p] = global_]
  /\ UNCHANGED <<global_, po_last_, ew_, next_read_id_, next_write_id_>>

Next ==
  \E p \in Pid :
    \/ \E a \in Addr : Read(p, a) \/ Write(p, a)
    \/ Propagate(p)

Spec == Init /\ [][Next]_vars

-----------------------------------------------------------------------------
(***************************************************************************)
(* The axioms of TSO, which the program has mc2lib's Arch_TSO check.       *)
(***************************************************************************)
Closure(R) ==
  LET c[i \in 0 .. Cardinality(R)] ==
        IF i = 0 THEN R
        ELSE LET b == c[i - 1]
             IN  b \cup {<<z[1][1], z[2][2]>> : z \in
                           {y \in b \X R : y[1][2] = y[2][1]}}
  IN  c[Cardinality(R)]

(* No cycle: the nodes without a predecessor can be peeled off until none  *)
(* is left.                                                                *)
Acyclic(R) ==
  LET nodes == {e[1] : e \in R} \cup {e[2] : e \in R}
      left[i \in 0 .. Cardinality(nodes)] ==
        IF i = 0 THEN nodes
        ELSE LET l == left[i - 1]
             IN  {n \in l : \E e \in R : e[2] = n /\ e[1] \in l}
  IN  left[Cardinality(nodes)] = {}

External(R) == {e \in R : e[1].pid # e[2].pid}
SameAddr(R) == {e \in R : e[1].addr = e[2].addr}

(* A read comes before the writes that follow, in coherence order, the one *)
(* it observed.                                                            *)
Fr == {<<z[1][2], z[2][2]>> : z \in
         {y \in rf \X Closure(co) : y[1][1] = y[2][1]}}

(* Program order but for a write and a later read.                         *)
Ppo == {e \in Closure(po) : ~(e[1].type = "Write" /\ e[2].type = "Read")}

ValidExec ==
  /\ Acyclic(rf \cup co \cup Fr \cup SameAddr(Closure(po)))
  /\ Acyclic(Ppo \cup External(rf) \cup co \cup Fr)

-----------------------------------------------------------------------------
(***************************************************************************)
(* Properties.                                                             *)
(***************************************************************************)

(* Every execution the machine can produce, accepted or on the way there,  *)
(* is one that TSO allows: what VerifyAxiomatic is run for.                *)
ExecutionIsTSO == ValidExec

Newest(ids) == CHOOSE i \in ids : \A j \in ids : j <= i

(* The memory holds the newest write of each address, and coherence order  *)
(* is the order in which the writes came: one chain from the initial write.*)
CoherenceIsWriteOrder ==
  \A a \in Addr :
    LET ids == {kInitWrite} \cup {w.id : w \in {v \in Writes : v.addr = a}}
    IN  /\ global_[a] = Newest(ids)
        /\ {<<e[1].id, e[2].id>> : e \in {x \in co : x[2].addr = a}} =
             {e \in ids \X ids :
                e[1] < e[2] /\ ~\E k \in ids : e[1] < k /\ k < e[2]}
=============================================================================
