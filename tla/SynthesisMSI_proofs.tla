------------------------- MODULE SynthesisMSI_proofs -------------------------
(***************************************************************************)
(* Proofs about the accepted completions of the MSI case study, for any    *)
(* number of caches: the four solutions and the reference preserve an      *)
(* invariant over the caches, the directory and what is under way between  *)
(* them, and from it follow the properties the study checks.               *)
(***************************************************************************)
EXTENDS MC_SynthesisMSI, FiniteSetTheorems, FunctionTheorems, TLAPS

-----------------------------------------------------------------------------
(***************************************************************************)
(* What the channels hold, seen from the caches: whose requests, data      *)
(* written back and acknowledgements are on the way to the directory, and  *)
(* to whom data, the acknowledgement of a Put, the directory's Inv and a   *)
(* writer's Inv are on the way.                                            *)
(***************************************************************************)
Message(t, s) == [mtype |-> t, src |-> s]
FromCaches(t) == {p \in Proc : Message(t, p) \in chan[Dir]}
FromDir(t) == {p \in Proc : Message(t, Dir) \in chan[p]}

getM == FromCaches("GetM")
getS == FromCaches("GetS")
puts == FromCaches("Put")
acked == FromCaches("Ack")
data == FromDir("Data")
putAcked == FromDir("Ack")
recalled == FromDir("Inv")
invalidated == {p \in Proc : \E w \in Proc : Message("Inv", w) \in chan[p]}

(* There is nothing else: a writer's Inv comes from the owner.             *)
Fits(k, m, o) ==
  IF k = Dir
    THEN m.mtype \in {"GetM", "GetS", "Put", "Ack"} /\ m.src \in Proc
    ELSE \/ m.mtype \in {"Data", "Ack", "Inv"} /\ m.src = Dir
         \/ m.mtype = "Inv" /\ m.src = o /\ m.src \in Proc
ChanShape == \A k \in Node : \A m \in chan[k] : Fits(k, m, owner)
Shape == completion \in Accepted /\ TypeOK /\ ChanShape

-----------------------------------------------------------------------------
(***************************************************************************)
(* The inductive invariant.                                                *)
(***************************************************************************)

(* The caches that a writer still waits for.                               *)
pending == acked \cup invalidated

(* A copy that may be read, or is about to arrive to be.                   *)
Reads(p) == p \in invalidated \/ (dir_state = "S" /\ p \in sharers)

(* Who has the modified line, or sends it back.                            *)
Holders == puts \cup {p \in Proc : l1_state[p] = "M"}

(* There is an owner from the moment a writer is known until the line is   *)
(* taken from it, and there are sharers when there is not.  The reader     *)
(* that M_S waits on behalf of has been sent nothing yet.                  *)
DirectoryInv ==
  /\ owner \in Proc \cup {NoProc}
  /\ owner \in Proc <=> dir_state \in {"M", "I_M", "M_M", "S_M"}
  /\ sharers \in SUBSET Proc
  /\ sharers # {} => dir_state \in {"S", "M_S"}
  /\ \A p \in sharers :
       /\ l1_state[p] \notin {"M", "M_I"}
       /\ dir_state = "M_S" => /\ l1_state[p] \in {"I_S", "IS_I"}
                               /\ p \notin data /\ p \notin getS

(* A request is under way only while its cache waits for the answer.       *)
RequestInv ==
  /\ \A p \in getM : l1_state[p] = "I_M" /\ p \notin data /\ p # owner
  /\ \A p \in getS : l1_state[p] \in {"I_S", "IS_I"} /\ p \notin data

(* The directory knows who has a copy, or an Inv is on its way to it.      *)
CopyInv ==
  /\ \A p \in Proc : l1_state[p] = "S" => Reads(p)
  /\ \A p \in Proc : l1_state[p] = "M" =>
       \/ dir_state \in {"I_M", "M"} /\ p = owner
       \/ dir_state \in {"M_M", "M_S"} /\ p \in recalled
  /\ \A p, q \in Holders : p = q

(* Data is under way to the owner of I_M, to a reader the directory knows  *)
(* or invalidates, or to one that will not keep it.                        *)
DataInv ==
  \A p \in data : \/ l1_state[p] = "I_M" /\ dir_state = "I_M" /\ p = owner
                  \/ l1_state[p] = "I_S" /\ Reads(p)
                  \/ l1_state[p] = "IS_I"

(* The owner waits for the line in M_M and S_M; in I_M it is being served, *)
(* or has said that it was and has the line, or sends it back; in M it has *)
(* the line or sends it back.                                              *)
OwnerInv ==
  /\ dir_state \in {"M_M", "S_M"} => l1_state[owner] = "I_M"
  /\ dir_state = "I_M" => acked = IF owner \in data THEN {} ELSE {owner}
  /\ dir_state \in {"M", "I_M"} =>
       /\ IF owner \in data
            THEN dir_state = "I_M" /\ l1_state[owner] = "I_M"
            ELSE \/ l1_state[owner] = "M"
                 \/ l1_state[owner] = "M_I" /\ owner \in puts
       /\ owner \notin recalled /\ owner \notin putAcked

(* A Put is the owner's, or answers the directory's Inv; an acknowledged   *)
(* one is not under way.                                                   *)
PutInv ==
  /\ \A p \in puts :
       \/ dir_state \in {"M", "I_M"} /\ p = owner /\ l1_state[p] = "M_I"
       \/ dir_state \in {"M_M", "M_S"} /\ l1_state[p] # "M"
  /\ \A p \in putAcked : /\ l1_state[p] = "M_I"
                         /\ p \notin puts /\ p \notin recalled
  /\ \A p \in recalled : l1_state[p] \in {"M", "M_I"}

(* Acknowledgements come from the owner of I_M, from the one of before in  *)
(* I_M_I, and in S_M, as many as counted, from the others that were sent   *)
(* an Inv.                                                                 *)
AckInv ==
  /\ \A p \in invalidated : /\ dir_state = "S_M" /\ p # owner
                            /\ p \notin acked
                            /\ l1_state[p] \notin {"M", "M_I"}
  /\ \A p \in acked : \/ dir_state \in {"I_M", "I_M_I"}
                      \/ dir_state = "S_M" /\ p # owner
  /\ dir_state = "I_M_I" => \A p, q \in acked : p = q
  /\ dir_state = "S_M" => acks = Cardinality(pending)

ProtocolInv ==
  /\ DirectoryInv /\ RequestInv /\ CopyInv /\ DataInv
  /\ OwnerInv /\ PutInv /\ AckInv

-----------------------------------------------------------------------------
(***************************************************************************)
(* The steps of the protocol on this view of it, and that each preserves   *)
(* the invariant.                                                          *)
(***************************************************************************)
ViewOK ==
  /\ l1_state \in [Proc -> L1State]
  /\ getM \in SUBSET Proc /\ getS \in SUBSET Proc /\ puts \in SUBSET Proc
  /\ acked \in SUBSET Proc /\ data \in SUBSET Proc
  /\ putAcked \in SUBSET Proc /\ recalled \in SUBSET Proc
  /\ invalidated \in SUBSET Proc

(* Sets of caches are finite.                                              *)
LEMMA CachesFinite ==
  ASSUME NEW S \in SUBSET Proc
  PROVE  /\ IsFiniteSet(S) /\ Cardinality(S) \in Nat
         /\ Cardinality(S) = 0 <=> S = {}
<1>1. IsFiniteSet(S)
  BY NodeAssumption, FS_Subset
<1> QED
  BY <1>1, FS_CardinalityType, FS_EmptySet

(* Cache p goes to another state.                                          *)
Goes(p, to) == l1_state' = [l1_state EXCEPT ![p] = to]

(* A cache asks for a copy, or for the line to write to it.                *)
Asks(p, t, to) ==
  /\ \/ t = "GetS" /\ l1_state[p] = "I" /\ to = "I_S"
     \/ t = "GetM" /\ l1_state[p] \in {"I", "S"} /\ to = "I_M"
  /\ Goes(p, to)
  /\ getS' = IF t = "GetS" THEN getS \cup {p} ELSE getS
  /\ getM' = IF t = "GetM" THEN getM \cup {p} ELSE getM
  /\ UNCHANGED <<puts, acked, data, putAcked, recalled, invalidated,
                 dir_state, owner, sharers, acks>>

(* Nothing else is under way to or from it, but a writer's Inv.            *)
LEMMA AsksPreserves ==
  ASSUME ViewOK, ProtocolInv, NEW p \in Proc, NEW t, NEW to, Asks(p, t, to)
  PROVE  ProtocolInv'
<1>1. /\ \/ t = "GetS" /\ l1_state[p] = "I" /\ to = "I_S"
         \/ t = "GetM" /\ l1_state[p] \in {"I", "S"} /\ to = "I_M"
      /\ l1_state'[p] = to
      /\ \A x \in Proc : x # p => l1_state'[x] = l1_state[x]
      /\ getS' = IF t = "GetS" THEN getS \cup {p} ELSE getS
      /\ getM' = IF t = "GetM" THEN getM \cup {p} ELSE getM
      /\ UNCHANGED <<puts, acked, data, putAcked, recalled, invalidated,
                     dir_state, owner, sharers, acks>>
  BY DEF ViewOK, Goes, Asks
<1>2. DirectoryInv'
  BY <1>1 DEF ProtocolInv, DirectoryInv
<1>3. RequestInv'
  BY <1>1
     DEF ViewOK, ProtocolInv, DirectoryInv, RequestInv, DataInv, OwnerInv
<1>4. CopyInv'
  BY <1>1 DEF ProtocolInv, CopyInv, Reads, Holders
<1>5. DataInv'
  BY <1>1 DEF ViewOK, ProtocolInv, DataInv, Reads
<1>6. OwnerInv'
  BY <1>1 DEF ProtocolInv, DirectoryInv, OwnerInv
<1>7. PutInv'
  BY <1>1 DEF ViewOK, ProtocolInv, PutInv
<1>8. AckInv'
  BY <1>1 DEF ViewOK, ProtocolInv, AckInv, pending
<1> QED
  BY <1>2, <1>3, <1>4, <1>5, <1>6, <1>7, <1>8 DEF ProtocolInv

(* A cache drops its shared copy without a word.                           *)
Drops(p) ==
  /\ l1_state[p] = "S"
  /\ Goes(p, "I")
  /\ UNCHANGED <<getM, getS, puts, acked, data, putAcked, recalled,
                 invalidated, dir_state, owner, sharers, acks>>

(* The directory goes on taking it for a sharer.                           *)
LEMMA DropsPreserves ==
  ASSUME ViewOK, ProtocolInv, NEW p \in Proc, Drops(p)
  PROVE  ProtocolInv'
<1>1. /\ l1_state[p] = "S"
      /\ l1_state'[p] = "I"
      /\ \A x \in Proc : x # p => l1_state'[x] = l1_state[x]
      /\ UNCHANGED <<getM, getS, puts, acked, data, putAcked, recalled,
                     invalidated, dir_state, owner, sharers, acks>>
  BY DEF ViewOK, Goes, Drops
<1>2. DirectoryInv'
  BY <1>1 DEF ProtocolInv, DirectoryInv
<1>3. RequestInv'
  BY <1>1 DEF ViewOK, ProtocolInv, RequestInv
<1>4. CopyInv'
  BY <1>1 DEF ProtocolInv, CopyInv, Reads, Holders
<1>5. DataInv'
  BY <1>1 DEF ViewOK, ProtocolInv, DataInv, Reads
<1>6. OwnerInv'
  BY <1>1 DEF ProtocolInv, DirectoryInv, OwnerInv
<1>7. PutInv'
  BY <1>1 DEF ViewOK, ProtocolInv, PutInv
<1>8. AckInv'
  BY <1>1 DEF ViewOK, ProtocolInv, AckInv, pending
<1> QED
  BY <1>2, <1>3, <1>4, <1>5, <1>6, <1>7, <1>8 DEF ProtocolInv

(* A cache sends the modified line back.                                   *)
SendsBack(p) ==
  /\ l1_state[p] = "M"
  /\ Goes(p, "M_I")
  /\ puts' = puts \cup {p}
  /\ UNCHANGED <<getM, getS, acked, data, putAcked, recalled,
                 invalidated, dir_state, owner, sharers, acks>>

(* No other Put is under way, and no other cache has the line.             *)
LEMMA SendsBackPreserves ==
  ASSUME ViewOK, ProtocolInv, NEW p \in Proc, SendsBack(p)
  PROVE  ProtocolInv'
<1>1. /\ l1_state[p] = "M"
      /\ l1_state'[p] = "M_I"
      /\ \A x \in Proc : x # p => l1_state'[x] = l1_state[x]
      /\ puts' = puts \cup {p}
      /\ UNCHANGED <<getM, getS, acked, data, putAcked, recalled,
                     invalidated, dir_state, owner, sharers, acks>>
  BY DEF ViewOK, Goes, SendsBack
<1>2. DirectoryInv'
  BY <1>1 DEF ProtocolInv, DirectoryInv
<1>3. RequestInv'
  BY <1>1 DEF ViewOK, ProtocolInv, RequestInv
<1>4. CopyInv'
  BY <1>1 DEF ProtocolInv, CopyInv, Reads, Holders
<1>5. DataInv'
  BY <1>1 DEF ViewOK, ProtocolInv, DataInv, Reads
<1>6. OwnerInv'
  BY <1>1 DEF ProtocolInv, DirectoryInv, OwnerInv
<1>7. PutInv'
  BY <1>1 DEF ViewOK, ProtocolInv, CopyInv, PutInv
<1>8. AckInv'
  BY <1>1 DEF ViewOK, ProtocolInv, AckInv, pending
<1> QED
  BY <1>2, <1>3, <1>4, <1>5, <1>6, <1>7, <1>8 DEF ProtocolInv

(* A cache gives up its copy for a writer, and says so.                    *)
Invalidates(p, to) ==
  /\ p \in invalidated
  /\ \/ l1_state[p] \in {"I", "S"} /\ to = "I"
     \/ l1_state[p] \in {"I_S", "IS_I"} /\ to = "IS_I"
     \/ l1_state[p] = "I_M" /\ to = "I_M"
  /\ Goes(p, to)
  /\ acked' = acked \cup {p}
  /\ invalidated' = invalidated \ {p}
  /\ UNCHANGED <<getM, getS, puts, data, putAcked, recalled, dir_state,
                 owner, sharers, acks>>

(* An Inv becomes an Ack: the writer still waits for p.                    *)
LEMMA InvalidatesPreserves ==
  ASSUME ViewOK, ProtocolInv, NEW p \in Proc, NEW to, Invalidates(p, to)
  PROVE  ProtocolInv'
<1>1. /\ p \in invalidated
      /\ \/ l1_state[p] \in {"I", "S"} /\ to = "I"
         \/ l1_state[p] \in {"I_S", "IS_I"} /\ to = "IS_I"
         \/ l1_state[p] = "I_M" /\ to = "I_M"
      /\ l1_state'[p] = to
      /\ \A x \in Proc : x # p => l1_state'[x] = l1_state[x]
      /\ acked' = acked \cup {p}
      /\ invalidated' = invalidated \ {p}
      /\ UNCHANGED <<getM, getS, puts, data, putAcked, recalled, dir_state,
                     owner, sharers, acks>>
  BY DEF ViewOK, Goes, Invalidates
<1>2. DirectoryInv'
  BY <1>1 DEF ProtocolInv, DirectoryInv
<1>3. RequestInv'
  BY <1>1 DEF ViewOK, ProtocolInv, RequestInv
<1>4. CopyInv'
  BY <1>1 DEF ProtocolInv, CopyInv, Reads, Holders
<1>5. DataInv'
  BY <1>1 DEF ViewOK, ProtocolInv, DataInv, Reads
<1>6. OwnerInv'
  BY <1>1 DEF ProtocolInv, DirectoryInv, OwnerInv, AckInv
<1>7. PutInv'
  BY <1>1 DEF ViewOK, ProtocolInv, PutInv
<1>8. AckInv'
  BY <1>1 DEF ViewOK, ProtocolInv, DataInv, PutInv, AckInv, pending
<1> QED
  BY <1>2, <1>3, <1>4, <1>5, <1>6, <1>7, <1>8 DEF ProtocolInv

(* The modified line is called back.                                       *)
GivesUp(p) ==
  /\ p \in recalled
  /\ l1_state[p] = "M"
  /\ Goes(p, "I")
  /\ puts' = puts \cup {p}
  /\ recalled' = recalled \ {p}
  /\ UNCHANGED <<getM, getS, acked, data, putAcked, invalidated,
                 dir_state, owner, sharers, acks>>

(* It is sent back by the cache that had it, which is not the owner.       *)
LEMMA GivesUpPreserves ==
  ASSUME ViewOK, ProtocolInv, NEW p \in Proc, GivesUp(p)
  PROVE  ProtocolInv'
<1>1. /\ p \in recalled
      /\ l1_state[p] = "M"
      /\ l1_state'[p] = "I"
      /\ \A x \in Proc : x # p => l1_state'[x] = l1_state[x]
      /\ puts' = puts \cup {p}
      /\ recalled' = recalled \ {p}
      /\ UNCHANGED <<getM, getS, acked, data, putAcked, invalidated,
                     dir_state, owner, sharers, acks>>
  BY DEF ViewOK, Goes, GivesUp
<1>2. DirectoryInv'
  BY <1>1 DEF ProtocolInv, DirectoryInv
<1>3. RequestInv'
  BY <1>1 DEF ViewOK, ProtocolInv, RequestInv
<1>4. CopyInv'
  BY <1>1 DEF ProtocolInv, CopyInv, Reads, Holders
<1>5. DataInv'
  BY <1>1 DEF ViewOK, ProtocolInv, DataInv, Reads
<1>6. OwnerInv'
  BY <1>1 DEF ProtocolInv, DirectoryInv, OwnerInv
<1>7. PutInv'
  BY <1>1 DEF ViewOK, ProtocolInv, CopyInv, OwnerInv, PutInv
<1>8. AckInv'
  BY <1>1 DEF ViewOK, ProtocolInv, AckInv, pending
<1> QED
  BY <1>2, <1>3, <1>4, <1>5, <1>6, <1>7, <1>8 DEF ProtocolInv

(* The line is called back that is being sent back already.                *)
IsOvertaken(p) ==
  /\ p \in recalled
  /\ l1_state[p] = "M_I"
  /\ Goes(p, "I")
  /\ recalled' = recalled \ {p}
  /\ UNCHANGED <<getM, getS, puts, acked, data, putAcked, invalidated,
                 dir_state, owner, sharers, acks>>

(* The Put that is under way, if still, answers the Inv.                   *)
LEMMA IsOvertakenPreserves ==
  ASSUME ViewOK, ProtocolInv, NEW p \in Proc, IsOvertaken(p)
  PROVE  ProtocolInv'
<1>1. /\ p \in recalled
      /\ l1_state[p] = "M_I"
      /\ l1_state'[p] = "I"
      /\ \A x \in Proc : x # p => l1_state'[x] = l1_state[x]
      /\ recalled' = recalled \ {p}
      /\ UNCHANGED <<getM, getS, puts, acked, data, putAcked, invalidated,
                     dir_state, owner, sharers, acks>>
  BY DEF ViewOK, Goes, IsOvertaken
<1>2. DirectoryInv'
  BY <1>1 DEF ProtocolInv, DirectoryInv
<1>3. RequestInv'
  BY <1>1 DEF ViewOK, ProtocolInv, RequestInv
<1>4. CopyInv'
  BY <1>1 DEF ProtocolInv, CopyInv, Reads, Holders
<1>5. DataInv'
  BY <1>1 DEF ViewOK, ProtocolInv, DataInv, Reads
<1>6. OwnerInv'
  BY <1>1 DEF ProtocolInv, DirectoryInv, OwnerInv
<1>7. PutInv'
  BY <1>1 DEF ViewOK, ProtocolInv, OwnerInv, PutInv
<1>8. AckInv'
  BY <1>1 DEF ViewOK, ProtocolInv, AckInv, pending
<1> QED
  BY <1>2, <1>3, <1>4, <1>5, <1>6, <1>7, <1>8 DEF ProtocolInv

(* The writer has the line.                                                *)
TakesLine(p) ==
  /\ p \in data
  /\ l1_state[p] = "I_M"
  /\ Goes(p, "M")
  /\ acked' = acked \cup {p}
  /\ data' = data \ {p}
  /\ UNCHANGED <<getM, getS, puts, putAcked, recalled, invalidated,
                 dir_state, owner, sharers, acks>>

(* It is the owner that the directory waits for, and nobody else has a     *)
(* copy.                                                                   *)
LEMMA TakesLinePreserves ==
  ASSUME ViewOK, ProtocolInv, NEW p \in Proc, TakesLine(p)
  PROVE  ProtocolInv'
<1>1. /\ p \in data
      /\ l1_state[p] = "I_M"
      /\ l1_state'[p] = "M"
      /\ \A x \in Proc : x # p => l1_state'[x] = l1_state[x]
      /\ acked' = acked \cup {p}
      /\ data' = data \ {p}
      /\ UNCHANGED <<getM, getS, puts, putAcked, recalled, invalidated,
                     dir_state, owner, sharers, acks>>
  BY DEF ViewOK, Goes, TakesLine
<1>2. DirectoryInv'
  BY <1>1 DEF ProtocolInv, DirectoryInv, DataInv
<1>3. RequestInv'
  BY <1>1 DEF ViewOK, ProtocolInv, RequestInv
<1>4. CopyInv'
  BY <1>1 DEF ProtocolInv, CopyInv, DataInv, PutInv, Reads, Holders
<1>5. DataInv'
  BY <1>1 DEF ViewOK, ProtocolInv, DataInv, Reads
<1>6. OwnerInv'
  BY <1>1 DEF ProtocolInv, DataInv, OwnerInv
<1>7. PutInv'
  BY <1>1 DEF ViewOK, ProtocolInv, DataInv, PutInv
<1>8. AckInv'
  BY <1>1 DEF ProtocolInv, DataInv, AckInv
<1> QED
  BY <1>2, <1>3, <1>4, <1>5, <1>6, <1>7, <1>8 DEF ProtocolInv

(* A reader has its copy, unless it was invalidated before.                *)
TakesCopy(p, to) ==
  /\ p \in data
  /\ \/ l1_state[p] = "I_S" /\ to = "S"
     \/ l1_state[p] = "IS_I" /\ to = "I"
  /\ Goes(p, to)
  /\ data' = data \ {p}
  /\ UNCHANGED <<getM, getS, puts, acked, putAcked, recalled,
                 invalidated, dir_state, owner, sharers, acks>>

(* The directory knows of it, or an Inv is on its way.                     *)
LEMMA TakesCopyPreserves ==
  ASSUME ViewOK, ProtocolInv, NEW p \in Proc, NEW to, TakesCopy(p, to)
  PROVE  ProtocolInv'
<1>1. /\ p \in data
      /\ \/ l1_state[p] = "I_S" /\ to = "S"
         \/ l1_state[p] = "IS_I" /\ to = "I"
      /\ l1_state'[p] = to
      /\ \A x \in Proc : x # p => l1_state'[x] = l1_state[x]
      /\ data' = data \ {p}
      /\ UNCHANGED <<getM, getS, puts, acked, putAcked, recalled,
                     invalidated, dir_state, owner, sharers, acks>>
  BY DEF ViewOK, Goes, TakesCopy
<1>2. DirectoryInv'
  BY <1>1 DEF ProtocolInv, DirectoryInv
<1>3. RequestInv'
  BY <1>1 DEF ViewOK, ProtocolInv, RequestInv
<1>4. CopyInv'
  BY <1>1 DEF ProtocolInv, CopyInv, DataInv, Reads, Holders
<1>5. DataInv'
  BY <1>1 DEF ViewOK, ProtocolInv, DataInv, Reads
<1>6. OwnerInv'
  BY <1>1 DEF ProtocolInv, DirectoryInv, OwnerInv
<1>7. PutInv'
  BY <1>1 DEF ViewOK, ProtocolInv, PutInv
<1>8. AckInv'
  BY <1>1 DEF ViewOK, ProtocolInv, AckInv, pending
<1> QED
  BY <1>2, <1>3, <1>4, <1>5, <1>6, <1>7, <1>8 DEF ProtocolInv

(* The Put is acknowledged.                                                *)
EndsPut(p) ==
  /\ p \in putAcked
  /\ l1_state[p] = "M_I"
  /\ Goes(p, "I")
  /\ putAcked' = putAcked \ {p}
  /\ UNCHANGED <<getM, getS, puts, acked, data, recalled, invalidated,
                 dir_state, owner, sharers, acks>>

(* The directory had given the owner up before.                            *)
LEMMA EndsPutPreserves ==
  ASSUME ViewOK, ProtocolInv, NEW p \in Proc, EndsPut(p)
  PROVE  ProtocolInv'
<1>1. /\ p \in putAcked
      /\ l1_state[p] = "M_I"
      /\ l1_state'[p] = "I"
      /\ \A x \in Proc : x # p => l1_state'[x] = l1_state[x]
      /\ putAcked' = putAcked \ {p}
      /\ UNCHANGED <<getM, getS, puts, acked, data, recalled, invalidated,
                     dir_state, owner, sharers, acks>>
  BY DEF ViewOK, Goes, EndsPut
<1>2. DirectoryInv'
  BY <1>1 DEF ProtocolInv, DirectoryInv
<1>3. RequestInv'
  BY <1>1 DEF ViewOK, ProtocolInv, RequestInv
<1>4. CopyInv'
  BY <1>1 DEF ProtocolInv, CopyInv, Reads, Holders
<1>5. DataInv'
  BY <1>1 DEF ViewOK, ProtocolInv, DataInv, Reads
<1>6. OwnerInv'
  BY <1>1 DEF ProtocolInv, DirectoryInv, OwnerInv
<1>7. PutInv'
  BY <1>1 DEF ViewOK, ProtocolInv, PutInv
<1>8. AckInv'
  BY <1>1 DEF ViewOK, ProtocolInv, AckInv, pending
<1> QED
  BY <1>2, <1>3, <1>4, <1>5, <1>6, <1>7, <1>8 DEF ProtocolInv

(* The directory gives a reader its copy.                                  *)
GrantsS(p) ==
  /\ dir_state \in {"I", "S"}
  /\ p \in getS
  /\ getS' = getS \ {p}
  /\ data' = data \cup {p}
  /\ dir_state' = "S"
  /\ sharers' = sharers \cup {p}
  /\ UNCHANGED <<l1_state, getM, puts, acked, putAcked, recalled,
                 invalidated, owner, acks>>

(* Nobody has the line to itself.                                          *)
LEMMA GrantsSPreserves ==
  ASSUME ViewOK, ProtocolInv, NEW p \in Proc, GrantsS(p)
  PROVE  ProtocolInv'
<1>1. /\ dir_state \in {"I", "S"}
      /\ p \in getS
      /\ getS' = getS \ {p}
      /\ data' = data \cup {p}
      /\ dir_state' = "S"
      /\ sharers' = sharers \cup {p}
      /\ UNCHANGED <<l1_state, getM, puts, acked, putAcked, recalled,
                     invalidated, owner, acks>>
  BY DEF ViewOK, Goes, GrantsS
<1>2. DirectoryInv'
  BY <1>1 DEF ProtocolInv, DirectoryInv, RequestInv
<1>3. RequestInv'
  BY <1>1 DEF ProtocolInv, RequestInv
<1>4. CopyInv'
  BY <1>1 DEF ProtocolInv, CopyInv, Reads, Holders
<1>5. DataInv'
  BY <1>1 DEF ProtocolInv, RequestInv, DataInv, Reads
<1>6. OwnerInv'
  BY <1>1 DEF ProtocolInv, OwnerInv
<1>7. PutInv'
  BY <1>1 DEF ProtocolInv, PutInv
<1>8. AckInv'
  BY <1>1 DEF ProtocolInv, AckInv
<1> QED
  BY <1>2, <1>3, <1>4, <1>5, <1>6, <1>7, <1>8 DEF ProtocolInv

(* The directory gives a writer the line, nobody else having a copy.       *)
GrantsM(p) ==
  /\ \/ dir_state = "I"
     \/ dir_state = "S" /\ sharers \ {p} = {}
  /\ p \in getM
  /\ getM' = getM \ {p}
  /\ data' = data \cup {p}
  /\ dir_state' = "I_M"
  /\ owner' = p
  /\ sharers' = {}
  /\ UNCHANGED <<l1_state, getS, puts, acked, putAcked, recalled,
                 invalidated>>

(* The reader there may have been is the writer itself.                    *)
LEMMA GrantsMPreserves ==
  ASSUME ViewOK, ProtocolInv, NEW p \in Proc, GrantsM(p)
  PROVE  ProtocolInv'
<1>1. /\ \/ dir_state = "I"
         \/ dir_state = "S" /\ sharers \ {p} = {}
      /\ p \in getM
      /\ getM' = getM \ {p}
      /\ data' = data \cup {p}
      /\ dir_state' = "I_M"
      /\ owner' = p
      /\ sharers' = {}
      /\ UNCHANGED <<l1_state, getS, puts, acked, putAcked, recalled,
                     invalidated>>
  BY DEF ViewOK, Goes, GrantsM
<1>2. DirectoryInv'
  BY <1>1 DEF ProtocolInv, DirectoryInv
<1>3. RequestInv'
  BY <1>1 DEF ProtocolInv, RequestInv
<1>4. CopyInv'
  BY <1>1 DEF ProtocolInv, RequestInv, CopyInv, Reads, Holders
<1>5. DataInv'
  BY <1>1 DEF ProtocolInv, RequestInv, DataInv, Reads
<1>6. OwnerInv'
  BY <1>1 DEF ProtocolInv, RequestInv, OwnerInv, PutInv, AckInv
<1>7. PutInv'
  BY <1>1 DEF ProtocolInv, PutInv
<1>8. AckInv'
  BY <1>1 DEF ProtocolInv, AckInv
<1> QED
  BY <1>2, <1>3, <1>4, <1>5, <1>6, <1>7, <1>8 DEF ProtocolInv

(* The directory has the readers invalidated for a writer.                 *)
Invites(p) ==
  /\ dir_state = "S" /\ p \in getM
  /\ sharers \ {p} # {}
  /\ getM' = getM \ {p}
  /\ invalidated' = sharers \ {p}
  /\ dir_state' = "S_M"
  /\ owner' = p
  /\ sharers' = {}
  /\ acks' = Cardinality(sharers \ {p})
  /\ UNCHANGED <<l1_state, getS, puts, acked, data, putAcked, recalled>>

(* Every reader is sent an Inv or is the writer.                           *)
LEMMA InvitesPreserves ==
  ASSUME ViewOK, ProtocolInv, NEW p \in Proc, Invites(p)
  PROVE  ProtocolInv'
<1>1. /\ dir_state = "S" /\ p \in getM
      /\ sharers \ {p} # {}
      /\ getM' = getM \ {p}
      /\ invalidated' = sharers \ {p}
      /\ dir_state' = "S_M"
      /\ owner' = p
      /\ sharers' = {}
      /\ acks' = Cardinality(sharers \ {p})
      /\ UNCHANGED <<l1_state, getS, puts, acked, data, putAcked, recalled>>
  BY DEF ViewOK, Goes, Invites
<1>2. DirectoryInv'
  BY <1>1 DEF ProtocolInv, DirectoryInv
<1>3. RequestInv'
  BY <1>1 DEF ProtocolInv, RequestInv
<1>4. CopyInv'
  BY <1>1 DEF ProtocolInv, RequestInv, CopyInv, AckInv, Reads, Holders
<1>5. DataInv'
  BY <1>1 DEF ProtocolInv, RequestInv, DataInv, AckInv, Reads
<1>6. OwnerInv'
  BY <1>1 DEF ProtocolInv, RequestInv, OwnerInv
<1>7. PutInv'
  BY <1>1 DEF ProtocolInv, PutInv
<1>8. AckInv'
  BY <1>1 DEF ProtocolInv, DirectoryInv, AckInv, pending
<1> QED
  BY <1>2, <1>3, <1>4, <1>5, <1>6, <1>7, <1>8 DEF ProtocolInv

(* The directory calls the modified line back from r, for the writer p.    *)
CallsBack(p, r) ==
  /\ dir_state = "M" /\ owner = r
  /\ p \in getM
  /\ getM' = getM \ {p}
  /\ recalled' = recalled \cup {r}
  /\ dir_state' = "M_M"
  /\ owner' = p
  /\ UNCHANGED <<l1_state, getS, puts, acked, data, putAcked,
                 invalidated, sharers, acks>>

(* The owner of before has the line, or is sending it back.                *)
LEMMA CallsBackPreserves ==
  ASSUME ViewOK, ProtocolInv, NEW p \in Proc, NEW r \in Proc, CallsBack(p, r)
  PROVE  ProtocolInv'
<1>1. /\ dir_state = "M" /\ owner = r
      /\ p \in getM
      /\ getM' = getM \ {p}
      /\ recalled' = recalled \cup {r}
      /\ dir_state' = "M_M"
      /\ owner' = p
      /\ UNCHANGED <<l1_state, getS, puts, acked, data, putAcked,
                     invalidated, sharers, acks>>
  BY DEF ViewOK, Goes, CallsBack
<1>2. DirectoryInv'
  BY <1>1 DEF ProtocolInv, DirectoryInv
<1>3. RequestInv'
  BY <1>1 DEF ProtocolInv, RequestInv
<1>4. CopyInv'
  BY <1>1 DEF ProtocolInv, CopyInv, Reads, Holders
<1>5. DataInv'
  BY <1>1 DEF ProtocolInv, DataInv, Reads
<1>6. OwnerInv'
  BY <1>1 DEF ProtocolInv, RequestInv, OwnerInv
<1>7. PutInv'
  BY <1>1 DEF ProtocolInv, OwnerInv, PutInv
<1>8. AckInv'
  BY <1>1 DEF ProtocolInv, AckInv
<1> QED
  BY <1>2, <1>3, <1>4, <1>5, <1>6, <1>7, <1>8 DEF ProtocolInv

(* The directory calls the modified line back from r, for the reader p.    *)
CallsBackForS(p, r) ==
  /\ dir_state = "M" /\ owner = r
  /\ p \in getS
  /\ getS' = getS \ {p}
  /\ recalled' = recalled \cup {r}
  /\ dir_state' = "M_S"
  /\ owner' = NoProc
  /\ sharers' = {p}
  /\ UNCHANGED <<l1_state, getM, puts, acked, data, putAcked,
                 invalidated, acks>>

(* The owner of before has the line, or is sending it back.                *)
LEMMA CallsBackForSPreserves ==
  ASSUME ViewOK, ProtocolInv, NEW p \in Proc, NEW r \in Proc,
         CallsBackForS(p, r)
  PROVE  ProtocolInv'
<1>1. /\ dir_state = "M" /\ owner = r
      /\ p \in getS
      /\ getS' = getS \ {p}
      /\ recalled' = recalled \cup {r}
      /\ dir_state' = "M_S"
      /\ owner' = NoProc
      /\ sharers' = {p}
      /\ UNCHANGED <<l1_state, getM, puts, acked, data, putAcked,
                     invalidated, acks>>
  BY DEF ViewOK, Goes, CallsBackForS
<1>2. DirectoryInv'
  BY <1>1, NodeAssumption DEF ProtocolInv, DirectoryInv, RequestInv
<1>3. RequestInv'
  BY <1>1, NodeAssumption DEF ViewOK, ProtocolInv, RequestInv
<1>4. CopyInv'
  BY <1>1, NodeAssumption DEF ProtocolInv, CopyInv, Reads, Holders
<1>5. DataInv'
  BY <1>1, NodeAssumption DEF ProtocolInv, DataInv, Reads
<1>6. OwnerInv'
  BY <1>1, NodeAssumption DEF ProtocolInv, OwnerInv
<1>7. PutInv'
  BY <1>1, NodeAssumption DEF ProtocolInv, OwnerInv, PutInv
<1>8. AckInv'
  BY <1>1, NodeAssumption DEF ProtocolInv, AckInv
<1> QED
  BY <1>2, <1>3, <1>4, <1>5, <1>6, <1>7, <1>8 DEF ProtocolInv

(* The directory has the line back from its owner.                         *)
TakesPut(p) ==
  /\ dir_state \in {"M", "I_M"}
  /\ p \in puts
  /\ puts' = puts \ {p}
  /\ putAcked' = putAcked \cup {p}
  /\ dir_state' = IF dir_state = "M" THEN "I" ELSE "I_M_I"
  /\ owner' = NoProc
  /\ UNCHANGED <<l1_state, getM, getS, acked, data, recalled,
                 invalidated, sharers, acks>>

(* In I_M the owner has had the line: its Ack is on the way.               *)
LEMMA TakesPutPreserves ==
  ASSUME ViewOK, ProtocolInv, NEW p \in Proc, TakesPut(p)
  PROVE  ProtocolInv'
<1>1. /\ dir_state \in {"M", "I_M"}
      /\ p \in puts
      /\ puts' = puts \ {p}
      /\ putAcked' = putAcked \cup {p}
      /\ dir_state' = IF dir_state = "M" THEN "I" ELSE "I_M_I"
      /\ owner' = NoProc
      /\ UNCHANGED <<l1_state, getM, getS, acked, data, recalled,
                     invalidated, sharers, acks>>
  BY DEF ViewOK, Goes, TakesPut
<1>2. DirectoryInv'
  BY <1>1, NodeAssumption DEF ProtocolInv, DirectoryInv
<1>3. RequestInv'
  BY <1>1, NodeAssumption DEF ViewOK, ProtocolInv, RequestInv
<1>4. CopyInv'
  BY <1>1, NodeAssumption DEF ProtocolInv, CopyInv, PutInv, Reads, Holders
<1>5. DataInv'
  BY <1>1, NodeAssumption DEF ProtocolInv, DataInv, PutInv, Reads
<1>6. OwnerInv'
  BY <1>1, NodeAssumption DEF ProtocolInv, OwnerInv
<1>7. PutInv'
  BY <1>1, NodeAssumption DEF ProtocolInv, OwnerInv, PutInv
<1>8. AckInv'
  BY <1>1, NodeAssumption DEF ProtocolInv, OwnerInv, AckInv
<1> QED
  BY <1>2, <1>3, <1>4, <1>5, <1>6, <1>7, <1>8 DEF ProtocolInv

(* The directory passes the line on to the writer.                         *)
PassesOn(p, r) ==
  /\ dir_state = "M_M" /\ owner = r
  /\ p \in puts
  /\ puts' = puts \ {p}
  /\ data' = data \cup {r}
  /\ dir_state' = "I_M"
  /\ UNCHANGED <<l1_state, getM, getS, acked, putAcked, recalled,
                 invalidated, owner, sharers, acks>>

(* The one Put there was came from the only holder.                        *)
LEMMA PassesOnPreserves ==
  ASSUME ViewOK, ProtocolInv, NEW p \in Proc, NEW r \in Proc, PassesOn(p, r)
  PROVE  ProtocolInv'
<1>1. /\ dir_state = "M_M" /\ owner = r
      /\ p \in puts
      /\ puts' = puts \ {p}
      /\ data' = data \cup {r}
      /\ dir_state' = "I_M"
      /\ UNCHANGED <<l1_state, getM, getS, acked, putAcked, recalled,
                     invalidated, owner, sharers, acks>>
  BY DEF ViewOK, Goes, PassesOn
<1>2. DirectoryInv'
  BY <1>1 DEF ProtocolInv, DirectoryInv
<1>3. RequestInv'
  BY <1>1 DEF ProtocolInv, RequestInv, OwnerInv
<1>4. CopyInv'
  BY <1>1 DEF ProtocolInv, CopyInv, PutInv, Reads, Holders
<1>5. DataInv'
  BY <1>1 DEF ProtocolInv, DataInv, OwnerInv, Reads
<1>6. OwnerInv'
  BY <1>1 DEF ProtocolInv, OwnerInv, PutInv, AckInv
<1>7. PutInv'
  BY <1>1 DEF ProtocolInv, CopyInv, PutInv, Holders
<1>8. AckInv'
  BY <1>1 DEF ProtocolInv, AckInv
<1> QED
  BY <1>2, <1>3, <1>4, <1>5, <1>6, <1>7, <1>8 DEF ProtocolInv

(* The directory has the line back and can share it.                       *)
Shares(p, to) ==
  /\ dir_state = "M_S" /\ to \in SUBSET sharers
  /\ p \in puts
  /\ puts' = puts \ {p}
  /\ data' = data \cup to
  /\ dir_state' = "S"
  /\ owner' = NoProc
  /\ UNCHANGED <<l1_state, getM, getS, acked, putAcked, recalled,
                 invalidated, sharers, acks>>

(* The one Put there was came from the only holder.                        *)
LEMMA SharesPreserves ==
  ASSUME ViewOK, ProtocolInv, NEW p \in Proc, NEW to, Shares(p, to)
  PROVE  ProtocolInv'
<1>1. /\ dir_state = "M_S" /\ to \in SUBSET sharers
      /\ p \in puts
      /\ puts' = puts \ {p}
      /\ data' = data \cup to
      /\ dir_state' = "S"
      /\ owner' = NoProc
      /\ UNCHANGED <<l1_state, getM, getS, acked, putAcked, recalled,
                     invalidated, sharers, acks>>
  BY DEF ViewOK, Goes, Shares
<1>2. DirectoryInv'
  BY <1>1 DEF ProtocolInv, DirectoryInv
<1>3. RequestInv'
  BY <1>1 DEF ProtocolInv, DirectoryInv, RequestInv
<1>4. CopyInv'
  BY <1>1 DEF ProtocolInv, CopyInv, PutInv, Reads, Holders
<1>5. DataInv'
  BY <1>1 DEF ProtocolInv, DirectoryInv, DataInv, Reads
<1>6. OwnerInv'
  BY <1>1 DEF ProtocolInv, OwnerInv
<1>7. PutInv'
  BY <1>1 DEF ProtocolInv, CopyInv, PutInv, Holders
<1>8. AckInv'
  BY <1>1 DEF ProtocolInv, AckInv
<1> QED
  BY <1>2, <1>3, <1>4, <1>5, <1>6, <1>7, <1>8 DEF ProtocolInv

(* The directory goes on counting acknowledgements.                        *)
CountsAck(p) ==
  /\ dir_state = "S_M" /\ p \in acked
  /\ acks # 1
  /\ acked' = acked \ {p}
  /\ acks' = acks - 1
  /\ UNCHANGED <<l1_state, getM, getS, puts, data, putAcked, recalled,
                 invalidated, dir_state, owner, sharers>>

(* One cache less is pending.                                              *)
LEMMA CountsAckPreserves ==
  ASSUME ViewOK, ProtocolInv, NEW p \in Proc, CountsAck(p)
  PROVE  ProtocolInv'
<1>1. /\ dir_state = "S_M" /\ p \in acked
      /\ acks # 1
      /\ acked' = acked \ {p}
      /\ acks' = acks - 1
      /\ UNCHANGED <<l1_state, getM, getS, puts, data, putAcked, recalled,
                     invalidated, dir_state, owner, sharers>>
  BY DEF ViewOK, Goes, CountsAck
<1>2. /\ pending' = pending \ {p} /\ p \in pending
      /\ IsFiniteSet(pending) /\ Cardinality(pending) \in Nat
  BY <1>1, CachesFinite DEF ViewOK, ProtocolInv, AckInv, pending
<1>3. Cardinality(pending') = Cardinality(pending) - 1
  BY <1>1, <1>2, FS_RemoveElement
<1>4. DirectoryInv'
  BY <1>1, <1>2, <1>3 DEF ProtocolInv, DirectoryInv
<1>5. RequestInv'
  BY <1>1, <1>2, <1>3 DEF ProtocolInv, RequestInv
<1>6. CopyInv'
  BY <1>1, <1>2, <1>3 DEF ProtocolInv, CopyInv, Reads, Holders
<1>7. DataInv'
  BY <1>1, <1>2, <1>3 DEF ProtocolInv, DataInv, Reads
<1>8. OwnerInv'
  BY <1>1, <1>2, <1>3 DEF ProtocolInv, OwnerInv
<1>9. PutInv'
  BY <1>1, <1>2, <1>3 DEF ProtocolInv, PutInv
<1>10. AckInv'
  BY <1>1, <1>2, <1>3 DEF ProtocolInv, AckInv
<1> QED
  BY <1>4, <1>5, <1>6, <1>7, <1>8, <1>9, <1>10 DEF ProtocolInv

(* The last acknowledgement has come: the writer gets the line.            *)
GrantsLast(p, r) ==
  /\ dir_state = "S_M" /\ owner = r
  /\ p \in acked /\ acks = 1
  /\ acked' = acked \ {p}
  /\ data' = data \cup {r}
  /\ dir_state' = "I_M"
  /\ acks' = 0
  /\ UNCHANGED <<l1_state, getM, getS, puts, putAcked, recalled,
                 invalidated, owner, sharers>>

(* No other acknowledgement is under way, and no Inv.                      *)
LEMMA GrantsLastPreserves ==
  ASSUME ViewOK, ProtocolInv, NEW p \in Proc, NEW r \in Proc, GrantsLast(p, r)
  PROVE  ProtocolInv'
<1>1. /\ dir_state = "S_M" /\ owner = r
      /\ p \in acked /\ acks = 1
      /\ acked' = acked \ {p}
      /\ data' = data \cup {r}
      /\ dir_state' = "I_M"
      /\ acks' = 0
      /\ UNCHANGED <<l1_state, getM, getS, puts, putAcked, recalled,
                     invalidated, owner, sharers>>
  BY DEF ViewOK, Goes, GrantsLast
<1>2. /\ Cardinality(pending) = 1 /\ p \in pending
      /\ IsFiniteSet(pending)
  BY <1>1, CachesFinite DEF ViewOK, ProtocolInv, AckInv, pending
<1>3. pending = {p}
  BY <1>1, <1>2, FS_Singleton
<1>4. acked = {p} /\ invalidated = {}
  BY <1>1, <1>2, <1>3 DEF ProtocolInv, AckInv, pending
<1>5. DirectoryInv'
  BY <1>1, <1>2, <1>3, <1>4 DEF ProtocolInv, DirectoryInv
<1>6. RequestInv'
  BY <1>1, <1>2, <1>3, <1>4 DEF ProtocolInv, RequestInv, OwnerInv
<1>7. CopyInv'
  BY <1>1, <1>2, <1>3, <1>4 DEF ProtocolInv, CopyInv, Reads, Holders
<1>8. DataInv'
  BY <1>1, <1>2, <1>3, <1>4 DEF ProtocolInv, DataInv, OwnerInv, Reads
<1>9. OwnerInv'
  BY <1>1, <1>2, <1>3, <1>4 DEF ProtocolInv, OwnerInv, PutInv
<1>10. PutInv'
  BY <1>1, <1>2, <1>3, <1>4 DEF ProtocolInv, PutInv
<1>11. AckInv'
  BY <1>1, <1>2, <1>3, <1>4 DEF ProtocolInv, AckInv
<1> QED
  BY <1>5, <1>6, <1>7, <1>8, <1>9, <1>10, <1>11 DEF ProtocolInv

(* The writer has said that it has the line.                               *)
Settles(p) ==
  /\ dir_state = "I_M" /\ p \in acked
  /\ acked' = acked \ {p}
  /\ dir_state' = "M"
  /\ UNCHANGED <<l1_state, getM, getS, puts, data, putAcked, recalled,
                 invalidated, owner, sharers, acks>>

(* It was the one acknowledgement, and the owner's.                        *)
LEMMA SettlesPreserves ==
  ASSUME ViewOK, ProtocolInv, NEW p \in Proc, Settles(p)
  PROVE  ProtocolInv'
<1>1. /\ dir_state = "I_M" /\ p \in acked
      /\ acked' = acked \ {p}
      /\ dir_state' = "M"
      /\ UNCHANGED <<l1_state, getM, getS, puts, data, putAcked, recalled,
                     invalidated, owner, sharers, acks>>
  BY DEF ViewOK, Goes, Settles
<1>2. DirectoryInv'
  BY <1>1 DEF ProtocolInv, DirectoryInv
<1>3. RequestInv'
  BY <1>1 DEF ProtocolInv, RequestInv
<1>4. CopyInv'
  BY <1>1 DEF ProtocolInv, CopyInv, Reads, Holders
<1>5. DataInv'
  BY <1>1 DEF ProtocolInv, DataInv, OwnerInv, Reads
<1>6. OwnerInv'
  BY <1>1 DEF ProtocolInv, OwnerInv
<1>7. PutInv'
  BY <1>1 DEF ProtocolInv, PutInv
<1>8. AckInv'
  BY <1>1 DEF ProtocolInv, OwnerInv, AckInv
<1> QED
  BY <1>2, <1>3, <1>4, <1>5, <1>6, <1>7, <1>8 DEF ProtocolInv

(* The acknowledgement comes after the Put that it was sent before.        *)
Closes(p) ==
  /\ dir_state = "I_M_I" /\ p \in acked
  /\ acked' = acked \ {p}
  /\ dir_state' = "I"
  /\ UNCHANGED <<l1_state, getM, getS, puts, data, putAcked, recalled,
                 invalidated, owner, sharers, acks>>

(* It was the last one.                                                    *)
LEMMA ClosesPreserves ==
  ASSUME ViewOK, ProtocolInv, NEW p \in Proc, Closes(p)
  PROVE  ProtocolInv'
<1>1. /\ dir_state = "I_M_I" /\ p \in acked
      /\ acked' = acked \ {p}
      /\ dir_state' = "I"
      /\ UNCHANGED <<l1_state, getM, getS, puts, data, putAcked, recalled,
                     invalidated, owner, sharers, acks>>
  BY DEF ViewOK, Goes, Closes
<1>2. DirectoryInv'
  BY <1>1 DEF ProtocolInv, DirectoryInv
<1>3. RequestInv'
  BY <1>1 DEF ProtocolInv, RequestInv
<1>4. CopyInv'
  BY <1>1 DEF ProtocolInv, CopyInv, Reads, Holders
<1>5. DataInv'
  BY <1>1 DEF ProtocolInv, DataInv, Reads
<1>6. OwnerInv'
  BY <1>1 DEF ProtocolInv, OwnerInv
<1>7. PutInv'
  BY <1>1 DEF ProtocolInv, PutInv
<1>8. AckInv'
  BY <1>1 DEF ProtocolInv, AckInv
<1> QED
  BY <1>2, <1>3, <1>4, <1>5, <1>6, <1>7, <1>8 DEF ProtocolInv

-----------------------------------------------------------------------------
(***************************************************************************)
(* From the channels to the view.                                          *)
(***************************************************************************)

(* Two sets with the same elements are the same.                           *)
LEMMA SameSet == ASSUME NEW A, NEW B, \A x : x \in A <=> x \in B PROVE A = B
OBVIOUS

(* Messages and envelopes differ in one of their parts, or not at all.     *)
LEMMA Envelope ==
  ASSUME NEW k, NEW t, NEW s, NEW l, NEW u, NEW v
  PROVE  /\ Message(t, s).mtype = t /\ Message(t, s).src = s
         /\ To(k, t, s) = <<k, Message(t, s)>>
         /\ To(k, t, s)[1] = k /\ To(k, t, s)[2] = Message(t, s)
         /\ Message(t, s) = Message(u, v) <=> t = u /\ s = v
         /\ To(k, t, s) = To(l, u, v) <=> k = l /\ t = u /\ s = v
<1>1. Message(t, s) = Message(u, v) <=> t = u /\ s = v
  BY DEF Message
<1>2. To(k, t, s) = <<k, Message(t, s)>> /\ To(l, u, v) = <<l, Message(u, v)>>
  BY DEF To, Message
<1> QED
  BY <1>1, <1>2 DEF Message

(* A message is its type and its sender.                                   *)
LEMMA MessageIs ==
  ASSUME NEW m \in Msg
  PROVE  m = Message(m.mtype, m.src) /\ m.src \in Node
BY DEF Msg, Message

(* What can be sent.                                                       *)
Envelopes == Node \X Msg

(* What a step sets it sets, if it does not throw.                         *)
LEMMA Sets ==
  ASSUME NEW n, NEW got, NEW out, NEW l1, NEW dir,
         Do(n, got, out, l1, dir), error' = "none"
  PROVE  /\ l1_state' = l1 /\ dir_state' = dir.state /\ owner' = dir.owner
         /\ sharers' = dir.sharers /\ acks' = dir.acks
         /\ UNCHANGED completion
BY DEF Do, Throw, Fails, Send

(* What is sent is on its way from then on, and what was taken is not.     *)
LEMMA Sent ==
  ASSUME NEW n \in Node, NEW got, NEW out \in SUBSET Envelopes,
         NEW l1, NEW dir, Do(n, got, out, l1, dir), error' = "none"
  PROVE  \A k \in Node : \A m : m \in chan'[k] <=>
           (m \in chan[k] \/ <<k, m>> \in out) /\ ~ (k = n /\ m \in got)
<1>1. Send(out, n, got)
  BY DEF Do, Throw, Fails
<1>2. chan' = [k \in Node |->
                 (chan[k] \cup {x[2] : x \in {y \in out : y[1] = k}})
                   \ (IF k = n THEN got ELSE {})]
  BY <1>1 DEF Send
<1>3. \A k \in Node : \A m :
        m \in {x[2] : x \in {y \in out : y[1] = k}} <=> <<k, m>> \in out
  BY DEF Envelopes
<1>4. \A k \in Node : chan'[k] =
        (chan[k] \cup {x[2] : x \in {y \in out : y[1] = k}})
          \ (IF k = n THEN got ELSE {})
  BY <1>2
<1> QED
  BY <1>3, <1>4

(* The channels stay what they are.                                        *)
LEMMA ChanTyped ==
  ASSUME NEW n \in Node, NEW got, NEW out \in SUBSET Envelopes,
         NEW l1, NEW dir, Do(n, got, out, l1, dir), error' = "none",
         chan \in [Node -> SUBSET Msg]
  PROVE  chan' \in [Node -> SUBSET Msg]
<1>1. chan' = [k \in Node |-> chan'[k]]
  <2>1. Send(out, n, got)
    BY DEF Do, Throw, Fails
  <2> QED
    BY <2>1 DEF Send
<1>2. \A k \in Node : \A m :
        m \in chan'[k] => m \in chan[k] \/ <<k, m>> \in out
  BY Sent
<1>3. \A k \in Node : \A m : <<k, m>> \in out => m \in Msg
  BY DEF Envelopes
<1>4. \A k \in Node : \A m : m \in chan'[k] => m \in Msg
  BY <1>2, <1>3
<1> QED
  BY <1>1, <1>4

(* Channels that fit go on fitting.                                        *)
LEMMA ShapeKept ==
  ASSUME Shape, ProtocolInv, NEW n \in Node, NEW got,
         NEW out \in SUBSET Envelopes, NEW l1 \in [Proc -> L1State],
         NEW dir, Do(n, got, out, l1, dir), error' = "none",
         \A x \in out : Fits(x[1], x[2], dir.owner),
         dir.state \in DirState, dir.owner \in Proc \cup {NoProc},
         dir.sharers \in SUBSET Proc, dir.acks \in Int,
         dir_state = "S_M" => dir.owner = owner
  PROVE  Shape'
<1>1. /\ l1_state' = l1 /\ dir_state' = dir.state /\ owner' = dir.owner
      /\ sharers' = dir.sharers /\ acks' = dir.acks
      /\ UNCHANGED completion
  BY Sets
<1>2. \A k \in Node : \A m :
        m \in chan'[k] => m \in chan[k] \/ <<k, m>> \in out
  BY Sent
<1>4. chan' \in [Node -> SUBSET Msg]
  BY ChanTyped DEF Shape, TypeOK
<1>3. \A k \in Node : \A m : m \in chan'[k] => m \in Msg
  BY <1>4
<1>5. ASSUME NEW k \in Node, NEW m \in chan'[k]
      PROVE  Fits(k, m, owner')
  <2>1. CASE <<k, m>> \in out
    BY <1>1, <2>1
  <2>2. CASE m \in chan[k]
    <3>1. Fits(k, m, owner)
      BY <2>2 DEF Shape, ChanShape
    <3>2. CASE owner' = owner
      BY <3>1, <3>2
    <3>3. CASE k \in Proc /\ dir_state # "S_M" /\ m.mtype = "Inv"
                 /\ m.src \in Proc
      <4>1. m = Message("Inv", m.src)
        BY <1>3, <3>3, MessageIs
      <4>2. k \in invalidated
        BY <2>2, <3>3, <4>1 DEF invalidated
      <4> QED
        BY <3>3, <4>2 DEF ProtocolInv, AckInv
    <3> QED
      BY <1>1, <3>1, <3>2, <3>3 DEF Fits, Node
  <2> QED
    BY <1>2, <2>1, <2>2
<1> QED
  BY <1>1, <1>4, <1>5 DEF Shape, TypeOK, ChanShape, Node

(* The view is what it is meant to be.                                     *)
LEMMA ViewTyped == Shape => ViewOK
BY DEF Shape, TypeOK, ViewOK, FromCaches, FromDir, getM, getS, puts, acked,
       data, putAcked, recalled, invalidated

(* What a step does to the view.                                           *)
LEMMA ViewAfter ==
  ASSUME NEW n \in Node, NEW got, NEW out \in SUBSET Envelopes,
         NEW l1, NEW dir, Do(n, got, out, l1, dir), error' = "none", NEW t
  PROVE  /\ FromCaches(t)' =
              (FromCaches(t) \cup {p \in Proc : To(Dir, t, p) \in out})
                \ {p \in Proc : n = Dir /\ Message(t, p) \in got}
         /\ FromDir(t)' =
              (FromDir(t) \cup {p \in Proc : To(p, t, Dir) \in out})
                \ {p \in Proc : n = p /\ Message(t, Dir) \in got}
<1>1. \A k \in Node : \A m : m \in chan'[k] <=>
        (m \in chan[k] \/ <<k, m>> \in out) /\ ~ (k = n /\ m \in got)
  BY Sent
<1>2. Dir \in Node /\ Proc \subseteq Node
  BY DEF Node
<1>3. \A k, s : To(k, t, s) = <<k, Message(t, s)>>
  BY Envelope
<1>4. \A k \in Node : \A s : Message(t, s) \in chan'[k] <=>
        \/ Message(t, s) \in chan[k] /\ ~ (k = n /\ Message(t, s) \in got)
        \/ To(k, t, s) \in out /\ ~ (k = n /\ Message(t, s) \in got)
  <2> TAKE k \in Node
  <2> TAKE s
  <2>1. Message(t, s) \in chan'[k] <=>
          \/ Message(t, s) \in chan[k] /\ ~ (k = n /\ Message(t, s) \in got)
          \/ <<k, Message(t, s)>> \in out
               /\ ~ (k = n /\ Message(t, s) \in got)
    BY <1>1
  <2> QED
    BY <1>3, <2>1
<1>5. \A p : p \in FromCaches(t)' <=> p \in
        (FromCaches(t) \cup {q \in Proc : To(Dir, t, q) \in out})
          \ {q \in Proc : n = Dir /\ Message(t, q) \in got}
  BY <1>2, <1>4 DEF FromCaches
<1>6. \A p : p \in FromDir(t)' <=> p \in
        (FromDir(t) \cup {q \in Proc : To(q, t, Dir) \in out})
          \ {q \in Proc : n = q /\ Message(t, Dir) \in got}
  BY <1>2, <1>4 DEF FromDir
<1> QED
  BY <1>5, <1>6, SameSet

(* What a step does to the writers' invalidations.                         *)
LEMMA InvalidatedAfter ==
  ASSUME NEW n \in Node, NEW got, NEW out \in SUBSET Envelopes,
         NEW l1, NEW dir, Do(n, got, out, l1, dir), error' = "none"
  PROVE  \A p : p \in invalidated' <=>
           p \in Proc /\ \E w \in Proc :
             /\ Message("Inv", w) \in chan[p] \/ To(p, "Inv", w) \in out
             /\ ~ (p = n /\ Message("Inv", w) \in got)
<1>1. \A k \in Node : \A m : m \in chan'[k] <=>
        (m \in chan[k] \/ <<k, m>> \in out) /\ ~ (k = n /\ m \in got)
  BY Sent
<1>2. \A k, s : To(k, "Inv", s) = <<k, Message("Inv", s)>>
  BY Envelope
<1>3. \A k \in Node : \A s : Message("Inv", s) \in chan'[k] <=>
        /\ Message("Inv", s) \in chan[k] \/ To(k, "Inv", s) \in out
        /\ ~ (k = n /\ Message("Inv", s) \in got)
  <2> TAKE k \in Node
  <2> TAKE s
  <2>1. Message("Inv", s) \in chan'[k] <=>
          /\ \/ Message("Inv", s) \in chan[k]
             \/ <<k, Message("Inv", s)>> \in out
          /\ ~ (k = n /\ Message("Inv", s) \in got)
    BY <1>1
  <2> QED
    BY <1>2, <2>1
<1> QED
  BY <1>3 DEF invalidated, Node

Plus(S, c, p) == IF c THEN S \cup {p} ELSE S
Minus(S, c, p) == IF c THEN S \ {p} ELSE S

CacheSends(p, u) == IF u = "none" THEN {} ELSE {To(Dir, u, p)}
FromWriter(got) == \E w \in Proc : Message("Inv", w) \in got

(* A cache takes a message from its channel, or none, and sends at most    *)
(* one to the directory.                                                   *)
LEMMA CacheMoves ==
  ASSUME Shape, ProtocolInv, NEW p \in Proc, NEW to \in L1State,
         NEW got \in SUBSET chan[p],
         NEW u \in {"none", "GetM", "GetS", "Put", "Ack"},
         Do(p, got, CacheSends(p, u), [l1_state EXCEPT ![p] = to], Same),
         error' = "none"
  PROVE  /\ Shape' /\ Goes(p, to)
         /\ UNCHANGED <<dir_state, owner, sharers, acks>>
         /\ getM' = Plus(getM, u = "GetM", p)
         /\ getS' = Plus(getS, u = "GetS", p)
         /\ puts' = Plus(puts, u = "Put", p)
         /\ acked' = Plus(acked, u = "Ack", p)
         /\ data' = Minus(data, Message("Data", Dir) \in got, p)
         /\ putAcked' = Minus(putAcked, Message("Ack", Dir) \in got, p)
         /\ recalled' = Minus(recalled, Message("Inv", Dir) \in got, p)
         /\ invalidated' = Minus(invalidated, FromWriter(got), p)
<1>0. p \in Node /\ Dir \in Node /\ p # Dir /\ Dir \notin Proc
  BY NodeAssumption DEF Node
<1>1. PICK out : out = CacheSends(p, u)
  OBVIOUS
<1>2. PICK l1 : l1 = [l1_state EXCEPT ![p] = to]
  OBVIOUS
<1>3. Do(p, got, out, l1, Same)
  BY <1>1, <1>2
<1>4. /\ \A x \in out : u # "none" /\ x = To(Dir, u, p)
      /\ \A t \in {"GetM", "GetS", "Put", "Ack"} : \A q \in Proc :
           To(Dir, t, q) \in out <=> t = u /\ q = p
      /\ \A t, s : \A q \in Proc : To(q, t, s) \notin out
  <2>1. CASE u = "none"
    <3>1. out = {}
      BY <1>1, <2>1 DEF CacheSends
    <3> QED
      BY <2>1, <3>1
  <2>2. CASE u # "none"
    <3>1. out = {To(Dir, u, p)}
      BY <1>1, <2>2 DEF CacheSends
    <3>2. \A k, t, s :
            To(k, t, s) = To(Dir, u, p) <=> k = Dir /\ t = u /\ s = p
      BY Envelope
    <3> QED
      BY <1>0, <2>2, <3>1, <3>2
  <2> QED
    BY <2>1, <2>2
<1>5. \A x \in out : x \in Envelopes /\ Fits(x[1], x[2], owner)
  <2> SUFFICES ASSUME u # "none"
               PROVE  /\ To(Dir, u, p) \in Envelopes
                      /\ Fits(To(Dir, u, p)[1], To(Dir, u, p)[2], owner)
    BY <1>4
  <2>1. Message(u, p) \in Msg
    BY <1>0 DEF Message, Msg
  <2>2. /\ To(Dir, u, p) = <<Dir, Message(u, p)>>
        /\ To(Dir, u, p)[1] = Dir /\ To(Dir, u, p)[2] = Message(u, p)
        /\ Message(u, p).mtype = u /\ Message(u, p).src = p
    BY Envelope
  <2> QED
    BY <1>0, <2>1, <2>2 DEF Envelopes, Fits
<1>6. out \in SUBSET Envelopes
  BY <1>5
<1>7. /\ Same.state = dir_state /\ Same.owner = owner
      /\ Same.sharers = sharers /\ Same.acks = acks
  BY DEF Same
<1>8. UNCHANGED <<dir_state, owner, sharers, acks>> /\ l1_state' = l1
  BY <1>3, <1>7, Sets
<1>9. Shape'
  <2>1. l1 \in [Proc -> L1State]
    BY <1>2 DEF Shape, TypeOK
  <2>2. /\ dir_state \in DirState /\ owner \in Proc \cup {NoProc}
        /\ sharers \in SUBSET Proc /\ acks \in Int
    BY DEF Shape, TypeOK, ProtocolInv, DirectoryInv
  <2>3. \A x \in out : Fits(x[1], x[2], Same.owner)
    BY <1>5, <1>7
  <2> QED
    BY <1>0, <1>3, <1>6, <1>7, <2>1, <2>2, <2>3, ShapeKept
<1>10. \A t \in {"GetM", "GetS", "Put", "Ack"} :
         FromCaches(t)' = Plus(FromCaches(t), u = t, p)
  <2>1. \A t : FromCaches(t)' =
          (FromCaches(t) \cup {q \in Proc : To(Dir, t, q) \in out})
            \ {q \in Proc : p = Dir /\ Message(t, q) \in got}
    BY <1>0, <1>3, <1>6, ViewAfter
  <2> TAKE t \in {"GetM", "GetS", "Put", "Ack"}
  <2>2. \A q : q \in FromCaches(t)' <=> q \in Plus(FromCaches(t), u = t, p)
    BY <1>0, <1>4, <2>1 DEF Plus
  <2> QED
    BY <2>2, SameSet
<1>11. \A t : FromDir(t)' = Minus(FromDir(t), Message(t, Dir) \in got, p)
  <2> TAKE t
  <2>1. FromDir(t)' =
          (FromDir(t) \cup {q \in Proc : To(q, t, Dir) \in out})
            \ {q \in Proc : p = q /\ Message(t, Dir) \in got}
    BY <1>0, <1>3, <1>6, ViewAfter
  <2>2. \A q : q \in FromDir(t)' <=>
                q \in Minus(FromDir(t), Message(t, Dir) \in got, p)
    BY <1>4, <2>1 DEF Minus
  <2> QED
    BY <2>2, SameSet
<1>12. invalidated' = Minus(invalidated, FromWriter(got), p)
  <2>0. \A q : q \in invalidated' <=>
          q \in Proc /\ \E w \in Proc :
            /\ Message("Inv", w) \in chan[q] \/ To(q, "Inv", w) \in out
            /\ ~ (q = p /\ Message("Inv", w) \in got)
    BY <1>0, <1>3, <1>6, InvalidatedAfter
  <2>1. \A q : q \in invalidated' <=>
          q \in Proc /\ \E w \in Proc :
            /\ Message("Inv", w) \in chan[q]
            /\ ~ (q = p /\ Message("Inv", w) \in got)
    BY <1>4, <2>0
  <2>2. \A v, w \in Proc : Message("Inv", v) \in chan[p]
          /\ Message("Inv", w) \in chan[p] => v = w
    BY <1>0, Envelope DEF Shape, ChanShape, Fits
  <2>3. \A q : q \in invalidated' <=>
                q \in Minus(invalidated, FromWriter(got), p)
    BY <2>1, <2>2 DEF Minus, FromWriter, invalidated
  <2> QED
    BY <2>3, SameSet
<1> QED
  BY <1>2, <1>8, <1>9, <1>10, <1>11, <1>12
     DEF Goes, getM, getS, puts, acked, data, putAcked, recalled

-----------------------------------------------------------------------------
(***************************************************************************)
(* The caches' rules take such steps.                                      *)
(***************************************************************************)

(* A rule of the processor.                                                *)
LEMMA RuleStep ==
  ASSUME Shape, ProtocolInv, error' = "none", NEW p \in Proc, NEW from,
         NEW u, NEW to, L1Rule(p, from, CacheSends(p, u), to),
         \/ from = "I" /\ u = "GetS" /\ to = "I_S"
         \/ from \in {"I", "S"} /\ u = "GetM" /\ to = "I_M"
         \/ from = "S" /\ u = "none" /\ to = "I"
         \/ from = "M" /\ u = "Put" /\ to = "M_I"
  PROVE  Shape' /\ ProtocolInv'
<1>1. ViewOK
  BY ViewTyped
<1>2. PICK got : got = {}
  OBVIOUS
<1>3. /\ l1_state[p] = from
      /\ Do(p, got, CacheSends(p, u), [l1_state EXCEPT ![p] = to], Same)
  BY <1>2 DEF L1Rule
<1>4. got \in SUBSET chan[p] /\ \A m : m \notin got
  BY <1>2
<1>5. to \in L1State /\ u \in {"none", "GetM", "GetS", "Put", "Ack"}
  BY DEF L1State
<1>6. /\ Shape' /\ Goes(p, to)
      /\ UNCHANGED <<dir_state, owner, sharers, acks>>
      /\ getM' = Plus(getM, u = "GetM", p)
      /\ getS' = Plus(getS, u = "GetS", p)
      /\ puts' = Plus(puts, u = "Put", p)
      /\ acked' = Plus(acked, u = "Ack", p)
      /\ data' = Minus(data, Message("Data", Dir) \in got, p)
      /\ putAcked' = Minus(putAcked, Message("Ack", Dir) \in got, p)
      /\ recalled' = Minus(recalled, Message("Inv", Dir) \in got, p)
      /\ invalidated' = Minus(invalidated, FromWriter(got), p)
  BY <1>3, <1>4, <1>5, CacheMoves
<1>7. UNCHANGED <<data, putAcked, recalled, invalidated, acked>>
  BY <1>4, <1>6 DEF Plus, Minus, FromWriter
<1>8. CASE u \in {"GetS", "GetM"}
  <2>1. Asks(p, u, to)
    BY <1>3, <1>6, <1>7, <1>8 DEF Asks, Plus
  <2> QED
    BY <1>1, <1>6, <2>1, AsksPreserves
<1>9. CASE u = "none"
  <2>1. Drops(p)
    BY <1>3, <1>6, <1>7, <1>9 DEF Drops, Plus
  <2> QED
    BY <1>1, <1>6, <2>1, DropsPreserves
<1>10. CASE u = "Put"
  <2>1. SendsBack(p)
    BY <1>3, <1>6, <1>7, <1>10 DEF SendsBack, Plus
  <2> QED
    BY <1>1, <1>6, <2>1, SendsBackPreserves
<1> QED
  BY <1>8, <1>9, <1>10

(* The accepted candidates differ from the reference in three holes.       *)
LEMMA AcceptedHoles ==
  ASSUME NEW c \in Accepted
  PROVE  /\ c.I_M_Ack_Response = "none" /\ c.I_M_Ack_State = "M"
         /\ c.I_M_Ack_Track \in {"none", "owner is src"}
         /\ c.M_S_Put_Response \in {"none", "Data to sharer"}
         /\ c.M_S_Put_Track \in {"none", "no owner"} /\ c.M_S_Put_State = "S"
         /\ c.I_S_Inv_Response = "Ack to Dir" /\ c.I_S_Inv_State = "IS_I"
<1>1. CASE c = Reference
  BY <1>1 DEF Reference
<1>2. CASE c \in Solutions
  <2>1. PICK t \in {"none", "owner is src"}, u \in {"none", "no owner"} :
          c = [Reference EXCEPT !.M_S_Put_Response = "none",
                                !.I_M_Ack_Track = t, !.M_S_Put_Track = u]
    BY <1>2 DEF Solutions
  <2>2. c = [I_M_Ack_Response |-> "none", I_M_Ack_Track |-> t,
             I_M_Ack_State |-> "M",
             M_S_Put_Response |-> "none", M_S_Put_Track |-> u,
             M_S_Put_State |-> "S",
             I_S_Inv_Response |-> "Ack to Dir", I_S_Inv_State |-> "IS_I"]
    BY <2>1 DEF Reference
  <2> QED
    BY <2>2
<1> QED
  BY <1>1, <1>2 DEF Accepted

(* A cache's answer to an accepted candidate's hole is an Ack.             *)
LEMMA HoleAnswer ==
  ASSUME completion \in Accepted, NEW p, NEW m
  PROVE  /\ L1Response(p, m) = CacheSends(p, "Ack")
         /\ completion.I_S_Inv_State = "IS_I"
<1>1. /\ completion.I_S_Inv_Response = "Ack to Dir"
      /\ completion.I_S_Inv_State = "IS_I"
  BY AcceptedHoles
<1> QED
  BY <1>1 DEF L1Response, CacheSends

(* What a message in a cache's channel is, and where it is in the view.    *)
LEMMA CacheHas ==
  ASSUME Shape, NEW p \in Proc, NEW m \in chan[p]
  PROVE  /\ m = Message(m.mtype, m.src)
         /\ m.mtype \in {"Data", "Ack", "Inv"}
         /\ m.src = Dir \/ (m.src \in Proc /\ m.mtype = "Inv")
         /\ m.src = Dir => /\ m.mtype = "Data" => p \in data
                           /\ m.mtype = "Ack" => p \in putAcked
                           /\ m.mtype = "Inv" => p \in recalled
         /\ m.src \in Proc => p \in invalidated
<1>1. p \in Node /\ p # Dir /\ Dir \notin Proc
  BY NodeAssumption DEF Node
<1>2. m \in Msg /\ Fits(p, m, owner)
  BY <1>1 DEF Shape, TypeOK, ChanShape
<1>3. m = Message(m.mtype, m.src)
  BY <1>2, MessageIs
<1>4. /\ m.mtype \in {"Data", "Ack", "Inv"}
      /\ m.src = Dir \/ (m.src \in Proc /\ m.mtype = "Inv")
  BY <1>1, <1>2 DEF Fits
<1>5. m.src = Dir => /\ m.mtype = "Data" => p \in data
                     /\ m.mtype = "Ack" => p \in putAcked
                     /\ m.mtype = "Inv" => p \in recalled
  BY <1>3 DEF data, putAcked, recalled, FromDir
<1>6. m.src \in Proc => p \in invalidated
  BY <1>3, <1>4, <1>1 DEF invalidated
<1> QED
  BY <1>3, <1>4, <1>5, <1>6

(* A cache takes one message.                                              *)
LEMMA L1Moves ==
  ASSUME Shape, ProtocolInv, error' = "none", NEW p \in Proc,
         NEW m \in chan[p], NEW u \in {"none", "Put", "Ack"},
         NEW to \in L1State, L1Takes(p, m, CacheSends(p, u), to)
  PROVE  /\ Shape' /\ Goes(p, to) /\ UNCHANGED <<getM, getS>>
         /\ UNCHANGED <<dir_state, owner, sharers, acks>>
         /\ puts' = Plus(puts, u = "Put", p)
         /\ acked' = Plus(acked, u = "Ack", p)
         /\ data' = Minus(data, m.mtype = "Data", p)
         /\ putAcked' = Minus(putAcked, m.mtype = "Ack", p)
         /\ recalled' = Minus(recalled, m.mtype = "Inv" /\ m.src = Dir, p)
         /\ invalidated' = Minus(invalidated, m.src # Dir, p)
<1>1. PICK got : got = {m}
  OBVIOUS
<1>2. Do(p, got, CacheSends(p, u), [l1_state EXCEPT ![p] = to], Same)
  BY <1>1 DEF L1Takes
<1>3. got \in SUBSET chan[p] /\ u \in {"none", "GetM", "GetS", "Put", "Ack"}
  BY <1>1
<1>4. /\ Shape' /\ Goes(p, to)
      /\ UNCHANGED <<dir_state, owner, sharers, acks>>
      /\ getM' = Plus(getM, u = "GetM", p)
      /\ getS' = Plus(getS, u = "GetS", p)
      /\ puts' = Plus(puts, u = "Put", p)
      /\ acked' = Plus(acked, u = "Ack", p)
      /\ data' = Minus(data, Message("Data", Dir) \in got, p)
      /\ putAcked' = Minus(putAcked, Message("Ack", Dir) \in got, p)
      /\ recalled' = Minus(recalled, Message("Inv", Dir) \in got, p)
      /\ invalidated' = Minus(invalidated, FromWriter(got), p)
  BY <1>2, <1>3, CacheMoves
<1>5. /\ m = Message(m.mtype, m.src)
      /\ m.mtype \in {"Data", "Ack", "Inv"}
      /\ m.src = Dir \/ (m.src \in Proc /\ m.mtype = "Inv")
  BY CacheHas
<1>6. \A t, s : Message(t, s) \in got <=> t = m.mtype /\ s = m.src
  <2>1. \A t, s : Message(t, s) = Message(m.mtype, m.src)
                    <=> t = m.mtype /\ s = m.src
    BY Envelope
  <2> QED
    BY <1>1, <1>5, <2>1
<1>7. FromWriter(got) <=> m.src # Dir
  BY <1>5, <1>6, NodeAssumption DEF FromWriter
<1> QED
  BY <1>4, <1>5, <1>6, <1>7 DEF Plus, Minus

(* An invalidation, for every state the cache may be in.                   *)
LEMMA L1InvStep ==
  ASSUME Shape, ProtocolInv, error' = "none", NEW p \in Proc,
         NEW m \in chan[p], L1Inv(p, m)
  PROVE  Shape' /\ ProtocolInv'
<1>0. ViewOK /\ completion \in Accepted
  BY ViewTyped DEF Shape
<1>1. m.mtype = "Inv" /\ (m.src # Dir => p \in invalidated)
        /\ (m.src = Dir => p \in recalled)
  BY CacheHas DEF L1Inv
<1>2. /\ p \in invalidated => l1_state[p] \notin {"M", "M_I"}
      /\ p \in recalled => l1_state[p] \in {"M", "M_I"}
  BY DEF ProtocolInv, AckInv, PutInv
<1>3. CASE m.src # Dir
  <2>1. PICK to \in L1State :
          /\ L1Takes(p, m, CacheSends(p, "Ack"), to)
          /\ \/ l1_state[p] \in {"I", "S"} /\ to = "I"
             \/ l1_state[p] \in {"I_S", "IS_I"} /\ to = "IS_I"
             \/ l1_state[p] = "I_M" /\ to = "I_M"
    BY <1>0, <1>1, <1>2, <1>3, HoleAnswer DEF L1Inv, CacheSends, L1State
  <2>2. /\ Shape' /\ Goes(p, to) /\ UNCHANGED <<getM, getS>>
        /\ UNCHANGED <<dir_state, owner, sharers, acks>>
        /\ puts' = puts /\ acked' = acked \cup {p} /\ data' = data
        /\ putAcked' = putAcked /\ recalled' = recalled
        /\ invalidated' = invalidated \ {p}
    BY <1>1, <1>3, <2>1, L1Moves DEF Plus, Minus
  <2>3. Invalidates(p, to)
    BY <1>1, <1>3, <2>1, <2>2 DEF Invalidates
  <2> QED
    BY <1>0, <2>2, <2>3, InvalidatesPreserves
<1>4. CASE m.src = Dir /\ l1_state[p] = "M"
  <2>1. L1Takes(p, m, CacheSends(p, "Put"), "I") /\ "I" \in L1State
    BY <1>4 DEF L1Inv, CacheSends, L1State
  <2>2. /\ Shape' /\ Goes(p, "I") /\ UNCHANGED <<getM, getS>>
        /\ UNCHANGED <<dir_state, owner, sharers, acks>>
        /\ puts' = puts \cup {p} /\ acked' = acked /\ data' = data
        /\ putAcked' = putAcked /\ recalled' = recalled \ {p}
        /\ invalidated' = invalidated
    BY <1>1, <1>4, <2>1, L1Moves DEF Plus, Minus
  <2>3. GivesUp(p)
    BY <1>1, <1>4, <2>2 DEF GivesUp
  <2> QED
    BY <1>0, <2>2, <2>3, GivesUpPreserves
<1>5. CASE m.src = Dir /\ l1_state[p] = "M_I"
  <2>1. L1Takes(p, m, CacheSends(p, "none"), "I") /\ "I" \in L1State
    BY <1>5 DEF L1Inv, CacheSends, L1State
  <2>2. /\ Shape' /\ Goes(p, "I") /\ UNCHANGED <<getM, getS>>
        /\ UNCHANGED <<dir_state, owner, sharers, acks>>
        /\ puts' = puts /\ acked' = acked /\ data' = data
        /\ putAcked' = putAcked /\ recalled' = recalled \ {p}
        /\ invalidated' = invalidated
    BY <1>1, <1>5, <2>1, L1Moves DEF Plus, Minus
  <2>3. IsOvertaken(p)
    BY <1>1, <1>5, <2>2 DEF IsOvertaken
  <2> QED
    BY <1>0, <2>2, <2>3, IsOvertakenPreserves
<1> QED
  BY <1>1, <1>2, <1>3, <1>4, <1>5

(* Data.                                                                   *)
LEMMA L1DataStep ==
  ASSUME Shape, ProtocolInv, error' = "none", NEW p \in Proc,
         NEW m \in chan[p], L1Data(p, m)
  PROVE  Shape' /\ ProtocolInv'
<1>0. ViewOK
  BY ViewTyped
<1>1. m.mtype = "Data" /\ m.src = Dir /\ p \in data
  BY CacheHas DEF L1Data
<1>2. CASE l1_state[p] = "I_M"
  <2>1. L1Takes(p, m, CacheSends(p, "Ack"), "M") /\ "M" \in L1State
    BY <1>2 DEF L1Data, CacheSends, L1State
  <2>2. /\ Shape' /\ Goes(p, "M") /\ UNCHANGED <<getM, getS>>
        /\ UNCHANGED <<dir_state, owner, sharers, acks>>
        /\ puts' = puts /\ acked' = acked \cup {p} /\ data' = data \ {p}
        /\ putAcked' = putAcked /\ recalled' = recalled
        /\ invalidated' = invalidated
    BY <1>1, <2>1, L1Moves DEF Plus, Minus
  <2>3. TakesLine(p)
    BY <1>1, <1>2, <2>2 DEF TakesLine
  <2> QED
    BY <1>0, <2>2, <2>3, TakesLinePreserves
<1>3. CASE l1_state[p] # "I_M"
  <2>1. PICK to \in L1State :
          /\ L1Takes(p, m, CacheSends(p, "none"), to)
          /\ \/ l1_state[p] = "I_S" /\ to = "S"
             \/ l1_state[p] = "IS_I" /\ to = "I"
    BY <1>3 DEF L1Data, CacheSends, L1State
  <2>2. /\ Shape' /\ Goes(p, to) /\ UNCHANGED <<getM, getS>>
        /\ UNCHANGED <<dir_state, owner, sharers, acks>>
        /\ puts' = puts /\ acked' = acked /\ data' = data \ {p}
        /\ putAcked' = putAcked /\ recalled' = recalled
        /\ invalidated' = invalidated
    BY <1>1, <2>1, L1Moves DEF Plus, Minus
  <2>3. TakesCopy(p, to)
    BY <1>1, <2>1, <2>2 DEF TakesCopy
  <2> QED
    BY <1>0, <2>2, <2>3, TakesCopyPreserves
<1> QED
  BY <1>2, <1>3

(* The acknowledgement of a Put.                                           *)
LEMMA L1PutAckStep ==
  ASSUME Shape, ProtocolInv, error' = "none", NEW p \in Proc,
         NEW m \in chan[p], L1PutAck(p, m)
  PROVE  Shape' /\ ProtocolInv'
<1>0. ViewOK
  BY ViewTyped
<1>1. m.mtype = "Ack" /\ m.src = Dir /\ p \in putAcked /\ l1_state[p] = "M_I"
  BY CacheHas DEF L1PutAck
<1>2. L1Takes(p, m, CacheSends(p, "none"), "I") /\ "I" \in L1State
  BY DEF L1PutAck, CacheSends, L1State
<1>3. /\ Shape' /\ Goes(p, "I") /\ UNCHANGED <<getM, getS>>
      /\ UNCHANGED <<dir_state, owner, sharers, acks>>
      /\ puts' = puts /\ acked' = acked /\ data' = data
      /\ putAcked' = putAcked \ {p} /\ recalled' = recalled
      /\ invalidated' = invalidated
  BY <1>1, <1>2, L1Moves DEF Plus, Minus
<1>4. EndsPut(p)
  BY <1>1, <1>3 DEF EndsPut
<1> QED
  BY <1>0, <1>3, <1>4, EndsPutPreserves

-----------------------------------------------------------------------------
(***************************************************************************)
(* The directory's rules take such steps.                                  *)
(***************************************************************************)

(* What a message in the directory's channel is, and where it is in the    *)
(* view.                                                                   *)
LEMMA DirHas ==
  ASSUME Shape, NEW m \in chan[Dir]
  PROVE  /\ m = Message(m.mtype, m.src) /\ m.src \in Proc
         /\ m.mtype \in {"GetM", "GetS", "Put", "Ack"}
         /\ m.mtype = "GetM" => m.src \in getM
         /\ m.mtype = "GetS" => m.src \in getS
         /\ m.mtype = "Put" => m.src \in puts
         /\ m.mtype = "Ack" => m.src \in acked
<1>1. m \in Msg /\ Fits(Dir, m, owner)
  BY DEF Shape, TypeOK, ChanShape, Node
<1>2. m = Message(m.mtype, m.src)
  BY <1>1, MessageIs
<1>3. m.src \in Proc /\ m.mtype \in {"GetM", "GetS", "Put", "Ack"}
  BY <1>1 DEF Fits
<1> QED
  BY <1>2, <1>3 DEF getM, getS, puts, acked, FromCaches

Mails(out, t) == {q \in Proc : To(q, t, Dir) \in out}
Invited(out) == {q \in Proc : \E w \in Proc : To(q, "Inv", w) \in out}

(* The directory takes a message from its channel and sends to caches.     *)
LEMMA DirMoves ==
  ASSUME Shape, ProtocolInv, error' = "none", NEW m \in chan[Dir],
         NEW out \in SUBSET Envelopes, NEW dir, DirTakes(m, out, dir),
         \A x \in out : x[1] \in Proc /\ Fits(x[1], x[2], dir.owner),
         dir.state \in DirState, dir.owner \in Proc \cup {NoProc},
         dir.sharers \in SUBSET Proc, dir.acks \in Int,
         dir_state = "S_M" => dir.owner = owner
  PROVE  /\ Shape' /\ UNCHANGED l1_state
         /\ dir_state' = dir.state /\ owner' = dir.owner
         /\ sharers' = dir.sharers /\ acks' = dir.acks
         /\ getM' = Minus(getM, m.mtype = "GetM", m.src)
         /\ getS' = Minus(getS, m.mtype = "GetS", m.src)
         /\ puts' = Minus(puts, m.mtype = "Put", m.src)
         /\ acked' = Minus(acked, m.mtype = "Ack", m.src)
         /\ data' = data \cup Mails(out, "Data")
         /\ putAcked' = putAcked \cup Mails(out, "Ack")
         /\ recalled' = recalled \cup Mails(out, "Inv")
         /\ invalidated' = invalidated \cup Invited(out)
<1>0. Dir \in Node /\ Dir \notin Proc /\ Proc \subseteq Node
  BY NodeAssumption DEF Node
<1>1. PICK got : got = {m}
  OBVIOUS
<1>2. PICK l1 : l1 = l1_state
  OBVIOUS
<1>3. Do(Dir, got, out, l1, dir)
  BY <1>1, <1>2 DEF DirTakes
<1>4. UNCHANGED l1_state /\ dir_state' = dir.state /\ owner' = dir.owner
        /\ sharers' = dir.sharers /\ acks' = dir.acks
  BY <1>2, <1>3, Sets
<1>5. Shape'
  <2>1. l1 \in [Proc -> L1State]
    BY <1>2 DEF Shape, TypeOK
  <2> QED
    BY <1>0, <1>3, <2>1, ShapeKept
<1>6. \A t : \A q \in Proc : To(Dir, t, q) \notin out
  BY <1>0, Envelope
<1>7. \A t, s : Message(t, s) \in got <=> t = m.mtype /\ s = m.src
  <2>1. \A t, s : Message(t, s) = Message(m.mtype, m.src)
                    <=> t = m.mtype /\ s = m.src
    BY Envelope
  <2> QED
    BY <1>1, <2>1, DirHas
<1>8. \A t : FromCaches(t)' = Minus(FromCaches(t), m.mtype = t, m.src)
  <2>1. \A t : FromCaches(t)' =
          (FromCaches(t) \cup {q \in Proc : To(Dir, t, q) \in out})
            \ {q \in Proc : Dir = Dir /\ Message(t, q) \in got}
    BY <1>0, <1>3, ViewAfter
  <2> TAKE t
  <2>2. \A q : q \in FromCaches(t)' <=>
               q \in Minus(FromCaches(t), m.mtype = t, m.src)
    BY <1>6, <1>7, <2>1, DirHas DEF Minus
  <2> QED
    BY <2>2, SameSet
<1>9. \A t : FromDir(t)' = FromDir(t) \cup Mails(out, t)
  <2>1. \A t : FromDir(t)' =
          (FromDir(t) \cup {q \in Proc : To(q, t, Dir) \in out})
            \ {q \in Proc : Dir = q /\ Message(t, Dir) \in got}
    BY <1>0, <1>3, ViewAfter
  <2> TAKE t
  <2>2. \A q : q \in FromDir(t)' <=> q \in FromDir(t) \cup Mails(out, t)
    BY <1>0, <2>1 DEF Mails
  <2> QED
    BY <2>2, SameSet
<1>10. invalidated' = invalidated \cup Invited(out)
  <2>1. \A q : q \in invalidated' <=>
          q \in Proc /\ \E w \in Proc :
            /\ Message("Inv", w) \in chan[q] \/ To(q, "Inv", w) \in out
            /\ ~ (q = Dir /\ Message("Inv", w) \in got)
    BY <1>0, <1>3, InvalidatedAfter
  <2>2. \A q : q \in invalidated' <=> q \in invalidated \cup Invited(out)
    BY <1>0, <2>1 DEF Invited, invalidated
  <2> QED
    BY <2>2, SameSet
<1> QED
  BY <1>4, <1>5, <1>8, <1>9, <1>10
     DEF getM, getS, puts, acked, data, putAcked, recalled

DirSends(r, u) == IF u = "none" THEN {} ELSE {To(r, u, Dir)}

(* The directory sends at most one message, to cache r.                    *)
LEMMA DirSendsOne ==
  ASSUME Shape, ProtocolInv, error' = "none", NEW m \in chan[Dir],
         NEW r \in Proc, NEW u \in {"none", "Data", "Ack", "Inv"},
         NEW dir, DirTakes(m, DirSends(r, u), dir),
         dir.state \in DirState, dir.owner \in Proc \cup {NoProc},
         dir.sharers \in SUBSET Proc, dir.acks \in Int,
         dir_state = "S_M" => dir.owner = owner
  PROVE  /\ Shape' /\ UNCHANGED <<l1_state, invalidated>>
         /\ dir_state' = dir.state /\ owner' = dir.owner
         /\ sharers' = dir.sharers /\ acks' = dir.acks
         /\ getM' = Minus(getM, m.mtype = "GetM", m.src)
         /\ getS' = Minus(getS, m.mtype = "GetS", m.src)
         /\ puts' = Minus(puts, m.mtype = "Put", m.src)
         /\ acked' = Minus(acked, m.mtype = "Ack", m.src)
         /\ data' = Plus(data, u = "Data", r)
         /\ putAcked' = Plus(putAcked, u = "Ack", r)
         /\ recalled' = Plus(recalled, u = "Inv", r)
<1>0. r \in Node /\ Dir \in Node /\ Dir \notin Proc /\ r # Dir
  BY NodeAssumption DEF Node
<1>1. PICK out : out = DirSends(r, u)
  OBVIOUS
<1>2. /\ \A x \in out : u # "none" /\ x = To(r, u, Dir)
      /\ \A t \in {"Data", "Ack", "Inv"} : \A q \in Proc :
           To(q, t, Dir) \in out <=> t = u /\ q = r
      /\ \A q, w \in Proc : To(q, "Inv", w) \notin out
  <2>1. CASE u = "none"
    <3>1. out = {}
      BY <1>1, <2>1 DEF DirSends
    <3> QED
      BY <2>1, <3>1
  <2>2. CASE u # "none"
    <3>1. out = {To(r, u, Dir)}
      BY <1>1, <2>2 DEF DirSends
    <3>2. \A k, t, s :
            To(k, t, s) = To(r, u, Dir) <=> k = r /\ t = u /\ s = Dir
      BY Envelope
    <3> QED
      BY <1>0, <2>2, <3>1, <3>2
  <2> QED
    BY <2>1, <2>2
<1>3. \A x \in out : /\ x \in Envelopes /\ x[1] \in Proc
                     /\ Fits(x[1], x[2], dir.owner)
  <2> SUFFICES ASSUME u # "none"
               PROVE  /\ To(r, u, Dir) \in Envelopes
                      /\ To(r, u, Dir)[1] \in Proc
                      /\ Fits(To(r, u, Dir)[1], To(r, u, Dir)[2], dir.owner)
    BY <1>2
  <2>1. Message(u, Dir) \in Msg
    BY <1>0 DEF Message, Msg
  <2>2. /\ To(r, u, Dir) = <<r, Message(u, Dir)>>
        /\ To(r, u, Dir)[1] = r /\ To(r, u, Dir)[2] = Message(u, Dir)
        /\ Message(u, Dir).mtype = u /\ Message(u, Dir).src = Dir
    BY Envelope
  <2> QED
    BY <1>0, <2>1, <2>2 DEF Envelopes, Fits
<1>4. out \in SUBSET Envelopes /\ DirTakes(m, out, dir)
  BY <1>1, <1>3
<1>5. /\ Shape' /\ UNCHANGED l1_state
      /\ dir_state' = dir.state /\ owner' = dir.owner
      /\ sharers' = dir.sharers /\ acks' = dir.acks
      /\ getM' = Minus(getM, m.mtype = "GetM", m.src)
      /\ getS' = Minus(getS, m.mtype = "GetS", m.src)
      /\ puts' = Minus(puts, m.mtype = "Put", m.src)
      /\ acked' = Minus(acked, m.mtype = "Ack", m.src)
      /\ data' = data \cup Mails(out, "Data")
      /\ putAcked' = putAcked \cup Mails(out, "Ack")
      /\ recalled' = recalled \cup Mails(out, "Inv")
      /\ invalidated' = invalidated \cup Invited(out)
  BY <1>3, <1>4, DirMoves
<1>6. \A t \in {"Data", "Ack", "Inv"} : \A S : S \cup Mails(out, t) =
                                               Plus(S, u = t, r)
  <2> TAKE t \in {"Data", "Ack", "Inv"}
  <2> TAKE S
  <2>1. \A q : q \in S \cup Mails(out, t) <=> q \in Plus(S, u = t, r)
    BY <1>2 DEF Mails, Plus
  <2> QED
    BY <2>1, SameSet
<1>7. Invited(out) = {}
  BY <1>2 DEF Invited
<1> QED
  BY <1>5, <1>6, <1>7

(* In I the directory has the line and no copies.                          *)
LEMMA DirIStep ==
  ASSUME Shape, ProtocolInv, error' = "none", NEW m \in chan[Dir], DirI(m)
  PROVE  Shape' /\ ProtocolInv'
<1>0. /\ ViewOK /\ m.src \in Proc /\ sharers \in SUBSET Proc
      /\ owner \in Proc \cup {NoProc} /\ acks \in Int
  BY ViewTyped, DirHas DEF ProtocolInv, DirectoryInv, Shape, TypeOK
<1>1. CASE dir_state = "I" /\ m.mtype = "GetM"
  <2>1. PICK dir : dir = [Same EXCEPT !.state = "I_M", !.owner = m.src]
    OBVIOUS
  <2>2. /\ dir.state = "I_M" /\ dir.owner = m.src
        /\ dir.sharers = sharers /\ dir.acks = acks
    BY <2>1 DEF Same
  <2>3. DirTakes(m, DirSends(m.src, "Data"), dir)
    BY <1>0, <1>1, <2>1 DEF DirSends, DirI
  <2>4. /\ Shape' /\ UNCHANGED <<l1_state, invalidated>>
        /\ dir_state' = "I_M" /\ owner' = m.src
        /\ sharers' = sharers /\ acks' = acks
        /\ getM' = getM \ {m.src} /\ getS' = getS
        /\ puts' = puts /\ acked' = acked
        /\ data' = data \cup {m.src} /\ putAcked' = putAcked
        /\ recalled' = recalled
    BY <1>0, <1>1, <2>2, <2>3, DirSendsOne DEF Plus, Minus, DirState
  <2>5. GrantsM(m.src)
    BY <1>0, <1>1, <2>4, DirHas DEF GrantsM, ProtocolInv, DirectoryInv
  <2> QED
    BY <1>0, <1>1, <2>4, <2>5, GrantsMPreserves
<1>2. CASE dir_state = "I" /\ m.mtype = "GetS"
  <2>1. PICK dir : dir = [Same EXCEPT !.state = "S",
                                  !.sharers = @ \cup {m.src}]
    OBVIOUS
  <2>2. /\ dir.state = "S" /\ dir.owner = owner
        /\ dir.sharers = sharers \cup {m.src} /\ dir.acks = acks
    BY <2>1 DEF Same
  <2>3. DirTakes(m, DirSends(m.src, "Data"), dir)
    BY <1>0, <1>2, <2>1 DEF DirSends, DirI
  <2>4. /\ Shape' /\ UNCHANGED <<l1_state, invalidated>>
        /\ dir_state' = "S" /\ owner' = owner
        /\ sharers' = sharers \cup {m.src} /\ acks' = acks
        /\ getM' = getM /\ getS' = getS \ {m.src}
        /\ puts' = puts /\ acked' = acked
        /\ data' = data \cup {m.src} /\ putAcked' = putAcked
        /\ recalled' = recalled
    BY <1>0, <1>2, <2>2, <2>3, DirSendsOne DEF Plus, Minus, DirState
  <2>5. GrantsS(m.src)
    BY <1>0, <1>2, <2>4, DirHas DEF GrantsS
  <2> QED
    BY <1>0, <1>2, <2>4, <2>5, GrantsSPreserves
<1> QED
  BY <1>1, <1>2 DEF DirI

(* In M the owner has the line, or sends it back.                          *)
LEMMA DirMStep ==
  ASSUME Shape, ProtocolInv, error' = "none", NEW m \in chan[Dir], DirM(m)
  PROVE  Shape' /\ ProtocolInv'
<1>0. /\ ViewOK /\ m.src \in Proc /\ sharers \in SUBSET Proc
      /\ owner \in Proc \cup {NoProc} /\ acks \in Int
  BY ViewTyped, DirHas DEF ProtocolInv, DirectoryInv, Shape, TypeOK
<1>1. CASE dir_state = "M" /\ owner \in Proc /\ m.mtype = "GetM"
  <2>1. PICK dir : dir = [Same EXCEPT !.state = "M_M", !.owner = m.src]
    OBVIOUS
  <2>2. /\ dir.state = "M_M" /\ dir.owner = m.src
        /\ dir.sharers = sharers /\ dir.acks = acks
    BY <2>1 DEF Same
  <2>3. DirTakes(m, DirSends(owner, "Inv"), dir)
    BY <1>0, <1>1, <2>1 DEF DirSends, DirM
  <2>4. /\ Shape' /\ UNCHANGED <<l1_state, invalidated>>
        /\ dir_state' = "M_M" /\ owner' = m.src
        /\ sharers' = sharers /\ acks' = acks
        /\ getM' = getM \ {m.src} /\ getS' = getS
        /\ puts' = puts /\ acked' = acked
        /\ data' = data /\ putAcked' = putAcked
        /\ recalled' = recalled \cup {owner}
    BY <1>0, <1>1, <2>2, <2>3, DirSendsOne DEF Plus, Minus, DirState
  <2>5. CallsBack(m.src, owner)
    BY <1>0, <1>1, <2>4, DirHas DEF CallsBack
  <2> QED
    BY <1>0, <1>1, <2>4, <2>5, CallsBackPreserves
<1>2. CASE dir_state = "M" /\ owner \in Proc /\ m.mtype = "GetS"
  <2>1. PICK dir : dir = [Same EXCEPT !.state = "M_S", !.owner = NoProc,
                                  !.sharers = {m.src}]
    OBVIOUS
  <2>2. /\ dir.state = "M_S" /\ dir.owner = NoProc
        /\ dir.sharers = {m.src} /\ dir.acks = acks
    BY <2>1 DEF Same
  <2>3. DirTakes(m, DirSends(owner, "Inv"), dir)
    BY <1>0, <1>2, <2>1 DEF DirSends, DirM
  <2>4. /\ Shape' /\ UNCHANGED <<l1_state, invalidated>>
        /\ dir_state' = "M_S" /\ owner' = NoProc
        /\ sharers' = {m.src} /\ acks' = acks
        /\ getM' = getM /\ getS' = getS \ {m.src}
        /\ puts' = puts /\ acked' = acked
        /\ data' = data /\ putAcked' = putAcked
        /\ recalled' = recalled \cup {owner}
    BY <1>0, <1>2, <2>2, <2>3, DirSendsOne DEF Plus, Minus, DirState
  <2>5. CallsBackForS(m.src, owner)
    BY <1>0, <1>2, <2>4, DirHas DEF CallsBackForS
  <2> QED
    BY <1>0, <1>2, <2>4, <2>5, CallsBackForSPreserves
<1>3. CASE dir_state = "M" /\ m.mtype = "Put"
  <2>1. PICK dir : dir = [Same EXCEPT !.state = "I", !.owner = NoProc]
    OBVIOUS
  <2>2. /\ dir.state = "I" /\ dir.owner = NoProc
        /\ dir.sharers = sharers /\ dir.acks = acks
    BY <2>1 DEF Same
  <2>3. DirTakes(m, DirSends(m.src, "Ack"), dir)
    BY <1>0, <1>3, <2>1 DEF DirSends, DirM
  <2>4. /\ Shape' /\ UNCHANGED <<l1_state, invalidated>>
        /\ dir_state' = "I" /\ owner' = NoProc
        /\ sharers' = sharers /\ acks' = acks
        /\ getM' = getM /\ getS' = getS
        /\ puts' = puts \ {m.src} /\ acked' = acked
        /\ data' = data /\ putAcked' = putAcked \cup {m.src}
        /\ recalled' = recalled
    BY <1>0, <1>3, <2>2, <2>3, DirSendsOne DEF Plus, Minus, DirState
  <2>5. TakesPut(m.src)
    BY <1>0, <1>3, <2>4, DirHas DEF TakesPut
  <2> QED
    BY <1>0, <1>3, <2>4, <2>5, TakesPutPreserves
<1> QED
  BY <1>1, <1>2, <1>3, <1>0 DEF DirM

(* In M_M the line comes back for the writer.                              *)
LEMMA DirM_MStep ==
  ASSUME Shape, ProtocolInv, error' = "none", NEW m \in chan[Dir], DirM_M(m)
  PROVE  Shape' /\ ProtocolInv'
<1>0. /\ ViewOK /\ m.src \in Proc /\ sharers \in SUBSET Proc
      /\ owner \in Proc \cup {NoProc} /\ acks \in Int
  BY ViewTyped, DirHas DEF ProtocolInv, DirectoryInv, Shape, TypeOK
<1>1. CASE dir_state = "M_M" /\ owner \in Proc /\ m.mtype = "Put"
  <2>1. PICK dir : dir = [Same EXCEPT !.state = "I_M"]
    OBVIOUS
  <2>2. /\ dir.state = "I_M" /\ dir.owner = owner
        /\ dir.sharers = sharers /\ dir.acks = acks
    BY <2>1 DEF Same
  <2>3. DirTakes(m, DirSends(owner, "Data"), dir)
    BY <1>0, <1>1, <2>1 DEF DirSends, DirM_M
  <2>4. /\ Shape' /\ UNCHANGED <<l1_state, invalidated>>
        /\ dir_state' = "I_M" /\ owner' = owner
        /\ sharers' = sharers /\ acks' = acks
        /\ getM' = getM /\ getS' = getS
        /\ puts' = puts \ {m.src} /\ acked' = acked
        /\ data' = data \cup {owner} /\ putAcked' = putAcked
        /\ recalled' = recalled
    BY <1>0, <1>1, <2>2, <2>3, DirSendsOne DEF Plus, Minus, DirState
  <2>5. PassesOn(m.src, owner)
    BY <1>0, <1>1, <2>4, DirHas DEF PassesOn
  <2> QED
    BY <1>0, <1>1, <2>4, <2>5, PassesOnPreserves
<1> QED
  BY <1>1, <1>0 DEF DirM_M

(* In S_M the acknowledgements are counted.                                *)
LEMMA DirS_MStep ==
  ASSUME Shape, ProtocolInv, error' = "none", NEW m \in chan[Dir], DirS_M(m)
  PROVE  Shape' /\ ProtocolInv'
<1>0. /\ ViewOK /\ m.src \in Proc /\ sharers \in SUBSET Proc
      /\ owner \in Proc \cup {NoProc} /\ acks \in Int
  BY ViewTyped, DirHas DEF ProtocolInv, DirectoryInv, Shape, TypeOK
<1>1. CASE dir_state = "S_M" /\ owner \in Proc /\ m.mtype = "Ack" /\ acks = 1
  <2>1. PICK dir : dir = [Same EXCEPT !.state = "I_M", !.acks = 0]
    OBVIOUS
  <2>2. /\ dir.state = "I_M" /\ dir.owner = owner
        /\ dir.sharers = sharers /\ dir.acks = 0
    BY <2>1 DEF Same
  <2>3. DirTakes(m, DirSends(owner, "Data"), dir)
    BY <1>0, <1>1, <2>1 DEF DirSends, DirS_M
  <2>4. /\ Shape' /\ UNCHANGED <<l1_state, invalidated>>
        /\ dir_state' = "I_M" /\ owner' = owner
        /\ sharers' = sharers /\ acks' = 0
        /\ getM' = getM /\ getS' = getS
        /\ puts' = puts /\ acked' = acked \ {m.src}
        /\ data' = data \cup {owner} /\ putAcked' = putAcked
        /\ recalled' = recalled
    BY <1>0, <1>1, <2>2, <2>3, DirSendsOne DEF Plus, Minus, DirState
  <2>5. GrantsLast(m.src, owner)
    BY <1>0, <1>1, <2>4, DirHas DEF GrantsLast
  <2> QED
    BY <1>0, <1>1, <2>4, <2>5, GrantsLastPreserves
<1>2. CASE dir_state = "S_M" /\ owner \in Proc /\ m.mtype = "Ack" /\ acks # 1
  <2>1. PICK dir : dir = [Same EXCEPT !.acks = @ - 1]
    OBVIOUS
  <2>2. /\ dir.state = dir_state /\ dir.owner = owner
        /\ dir.sharers = sharers /\ dir.acks = acks - 1
    BY <2>1 DEF Same
  <2>3. DirTakes(m, DirSends(owner, "none"), dir)
    BY <1>0, <1>2, <2>1 DEF DirSends, DirS_M
  <2>4. /\ Shape' /\ UNCHANGED <<l1_state, invalidated>>
        /\ dir_state' = dir_state /\ owner' = owner
        /\ sharers' = sharers /\ acks' = acks - 1
        /\ getM' = getM /\ getS' = getS
        /\ puts' = puts /\ acked' = acked \ {m.src}
        /\ data' = data /\ putAcked' = putAcked
        /\ recalled' = recalled
    BY <1>0, <1>2, <2>2, <2>3, DirSendsOne DEF Plus, Minus, DirState
  <2>5. CountsAck(m.src)
    BY <1>0, <1>2, <2>4, DirHas DEF CountsAck
  <2> QED
    BY <1>0, <1>2, <2>4, <2>5, CountsAckPreserves
<1> QED
  BY <1>1, <1>2, <1>0 DEF DirS_M

(* In I_M_I the line is back already.                                      *)
LEMMA DirI_M_IStep ==
  ASSUME Shape, ProtocolInv, error' = "none", NEW m \in chan[Dir], DirI_M_I(m)
  PROVE  Shape' /\ ProtocolInv'
<1>0. /\ ViewOK /\ m.src \in Proc /\ sharers \in SUBSET Proc
      /\ owner \in Proc \cup {NoProc} /\ acks \in Int
  BY ViewTyped, DirHas DEF ProtocolInv, DirectoryInv, Shape, TypeOK
<1>1. CASE dir_state = "I_M_I" /\ m.mtype = "Ack"
  <2>1. PICK dir : dir = [Same EXCEPT !.state = "I"]
    OBVIOUS
  <2>2. /\ dir.state = "I" /\ dir.owner = owner
        /\ dir.sharers = sharers /\ dir.acks = acks
    BY <2>1 DEF Same
  <2>3. DirTakes(m, DirSends(m.src, "none"), dir)
    BY <1>0, <1>1, <2>1 DEF DirSends, DirI_M_I
  <2>4. /\ Shape' /\ UNCHANGED <<l1_state, invalidated>>
        /\ dir_state' = "I" /\ owner' = owner
        /\ sharers' = sharers /\ acks' = acks
        /\ getM' = getM /\ getS' = getS
        /\ puts' = puts /\ acked' = acked \ {m.src}
        /\ data' = data /\ putAcked' = putAcked
        /\ recalled' = recalled
    BY <1>0, <1>1, <2>2, <2>3, DirSendsOne DEF Plus, Minus, DirState
  <2>5. Closes(m.src)
    BY <1>0, <1>1, <2>4, DirHas DEF Closes
  <2> QED
    BY <1>0, <1>1, <2>4, <2>5, ClosesPreserves
<1> QED
  BY <1>1 DEF DirI_M_I

(* The acknowledgements to be counted are those of the other sharers.      *)
LEMMA AcksIs ==
  ASSUME sharers \in SUBSET Proc, NEW m
  PROVE  /\ Acks(m) = Cardinality(sharers \ {m.src}) /\ Acks(m) \in Int
         /\ Acks(m) = 0 <=> sharers \ {m.src} = {}
<1>1. IsFiniteSet(sharers) /\ Cardinality(sharers) \in Nat
  BY CachesFinite
<1>2. /\ Cardinality(sharers \ {m.src}) \in Nat
      /\ Cardinality(sharers \ {m.src}) = 0 <=> sharers \ {m.src} = {}
  <2>1. sharers \ {m.src} \in SUBSET Proc
    OBVIOUS
  <2> QED
    BY <2>1, CachesFinite
<1>3. Cardinality(sharers \ {m.src}) =
        IF m.src \in sharers THEN Cardinality(sharers) - 1
                             ELSE Cardinality(sharers)
  BY <1>1, FS_RemoveElement
<1> QED
  BY <1>1, <1>2, <1>3 DEF Acks

(* In S the directory has the line, and sharers have copies.               *)
LEMMA DirSStep ==
  ASSUME Shape, ProtocolInv, error' = "none", NEW m \in chan[Dir], DirS(m)
  PROVE  Shape' /\ ProtocolInv'
<1>0. /\ ViewOK /\ m.src \in Proc /\ sharers \in SUBSET Proc
      /\ owner \in Proc \cup {NoProc} /\ acks \in Int
  BY ViewTyped, DirHas DEF ProtocolInv, DirectoryInv, Shape, TypeOK
<1>1. CASE dir_state = "S" /\ m.mtype = "GetM" /\ Acks(m) = 0
  <2>1. PICK dir : dir = [state |-> "I_M", owner |-> m.src, sharers |-> {},
                        acks |-> 0]
    OBVIOUS
  <2>2. /\ dir.state = "I_M" /\ dir.owner = m.src
        /\ dir.sharers = {} /\ dir.acks = 0
    BY <2>1 DEF Same
  <2>3. DirTakes(m, DirSends(m.src, "Data"), dir)
    BY <1>0, <1>1, <2>1 DEF DirSends, DirS
  <2>4. /\ Shape' /\ UNCHANGED <<l1_state, invalidated>>
        /\ dir_state' = "I_M" /\ owner' = m.src
        /\ sharers' = {} /\ acks' = 0
        /\ getM' = getM \ {m.src} /\ getS' = getS
        /\ puts' = puts /\ acked' = acked
        /\ data' = data \cup {m.src} /\ putAcked' = putAcked
        /\ recalled' = recalled
    BY <1>0, <1>1, <2>2, <2>3, DirSendsOne DEF Plus, Minus, DirState
  <2>5. GrantsM(m.src)
    BY <1>0, <1>1, <2>4, DirHas, AcksIs DEF GrantsM
  <2> QED
    BY <1>0, <1>1, <2>4, <2>5, GrantsMPreserves
<1>2. CASE dir_state = "S" /\ m.mtype = "GetS"
  <2>1. PICK dir : dir = [Same EXCEPT !.sharers = @ \cup {m.src}]
    OBVIOUS
  <2>2. /\ dir.state = dir_state /\ dir.owner = owner
        /\ dir.sharers = sharers \cup {m.src} /\ dir.acks = acks
    BY <2>1 DEF Same
  <2>3. DirTakes(m, DirSends(m.src, "Data"), dir)
    BY <1>0, <1>2, <2>1 DEF DirSends, DirS
  <2>4. /\ Shape' /\ UNCHANGED <<l1_state, invalidated>>
        /\ dir_state' = dir_state /\ owner' = owner
        /\ sharers' = sharers \cup {m.src} /\ acks' = acks
        /\ getM' = getM /\ getS' = getS \ {m.src}
        /\ puts' = puts /\ acked' = acked
        /\ data' = data \cup {m.src} /\ putAcked' = putAcked
        /\ recalled' = recalled
    BY <1>0, <1>2, <2>2, <2>3, DirSendsOne DEF Plus, Minus, DirState
  <2>5. GrantsS(m.src)
    BY <1>0, <1>2, <2>4, DirHas DEF GrantsS
  <2> QED
    BY <1>0, <1>2, <2>4, <2>5, GrantsSPreserves
<1>3. CASE dir_state = "S" /\ m.mtype = "GetM" /\ Acks(m) # 0
  <2>1. PICK dir : dir = [state |-> "S_M", owner |-> m.src, sharers |-> {},
                          acks |-> Acks(m)]
    OBVIOUS
  <2>2. PICK out : out = {To(p, "Inv", m.src) : p \in sharers \ {m.src}}
    OBVIOUS
  <2>3. dir.state = "S_M" /\ dir.owner = m.src
          /\ dir.sharers = {} /\ dir.acks = Acks(m)
    BY <2>1
  <2>4. DirTakes(m, out, dir)
    BY <1>3, <2>1, <2>2 DEF DirS
  <2>5. \A x \in out : /\ x \in Envelopes /\ x[1] \in Proc
                       /\ Fits(x[1], x[2], m.src)
    <3> TAKE x \in out
    <3>1. PICK p \in sharers \ {m.src} : x = To(p, "Inv", m.src)
      BY <2>2
    <3>2. p \in Proc /\ p \in Node /\ m.src \in Node /\ p # Dir
      BY <1>0, NodeAssumption DEF Node
    <3>3. Message("Inv", m.src) \in Msg
      BY <3>2 DEF Message, Msg
    <3>4. /\ x = <<p, Message("Inv", m.src)>>
          /\ x[1] = p /\ x[2] = Message("Inv", m.src)
          /\ Message("Inv", m.src).mtype = "Inv"
          /\ Message("Inv", m.src).src = m.src
      BY <3>1, Envelope
    <3> QED
      BY <1>0, <3>2, <3>3, <3>4 DEF Envelopes, Fits
  <2>6. \A q, t, v : To(q, t, v) \in out <=>
          q \in sharers \ {m.src} /\ t = "Inv" /\ v = m.src
    <3>1. \A p, q, t, v : To(q, t, v) = To(p, "Inv", m.src) <=>
            q = p /\ t = "Inv" /\ v = m.src
      BY Envelope
    <3> QED
      BY <2>2, <3>1
  <2>7. /\ Mails(out, "Data") = {} /\ Mails(out, "Ack") = {}
        /\ Mails(out, "Inv") = {} /\ Invited(out) = sharers \ {m.src}
    BY <1>0, <2>6, NodeAssumption DEF Mails, Invited
  <2>8. /\ Shape' /\ UNCHANGED l1_state
        /\ dir_state' = "S_M" /\ owner' = m.src
        /\ sharers' = {} /\ acks' = Acks(m)
        /\ getM' = getM \ {m.src} /\ getS' = getS
        /\ puts' = puts /\ acked' = acked
        /\ data' = data /\ putAcked' = putAcked /\ recalled' = recalled
        /\ invalidated' = invalidated \cup (sharers \ {m.src})
    <3>1. /\ out \in SUBSET Envelopes
          /\ \A x \in out : x[1] \in Proc /\ Fits(x[1], x[2], dir.owner)
          /\ dir.state \in DirState /\ dir.owner \in Proc \cup {NoProc}
          /\ dir.sharers \in SUBSET Proc /\ dir.acks \in Int
      BY <1>0, <2>3, <2>5, AcksIs DEF DirState
    <3>2. /\ Shape' /\ UNCHANGED l1_state
          /\ dir_state' = dir.state /\ owner' = dir.owner
          /\ sharers' = dir.sharers /\ acks' = dir.acks
          /\ getM' = Minus(getM, m.mtype = "GetM", m.src)
          /\ getS' = Minus(getS, m.mtype = "GetS", m.src)
          /\ puts' = Minus(puts, m.mtype = "Put", m.src)
          /\ acked' = Minus(acked, m.mtype = "Ack", m.src)
          /\ data' = data \cup Mails(out, "Data")
          /\ putAcked' = putAcked \cup Mails(out, "Ack")
          /\ recalled' = recalled \cup Mails(out, "Inv")
          /\ invalidated' = invalidated \cup Invited(out)
      BY <1>3, <2>4, <3>1, DirMoves
    <3> QED
      BY <1>3, <2>3, <2>7, <3>2 DEF Minus
  <2>9. invalidated' = sharers \ {m.src}
    BY <1>3, <2>8 DEF ProtocolInv, AckInv
  <2>10. Invites(m.src)
    BY <1>0, <1>3, <2>8, <2>9, AcksIs, DirHas DEF Invites
  <2> QED
    BY <1>0, <2>8, <2>10, InvitesPreserves
<1> QED
  BY <1>1, <1>2, <1>3 DEF DirS

(* In I_M the owner says that it has the line, or sends it back already.   *)
LEMMA DirI_MStep ==
  ASSUME Shape, ProtocolInv, error' = "none", NEW m \in chan[Dir], DirI_M(m)
  PROVE  Shape' /\ ProtocolInv'
<1>0. /\ ViewOK /\ m.src \in Proc /\ sharers \in SUBSET Proc
      /\ owner \in Proc \cup {NoProc} /\ acks \in Int
  BY ViewTyped, DirHas DEF ProtocolInv, DirectoryInv, Shape, TypeOK
<1>1. CASE dir_state = "I_M" /\ m.mtype = "Ack"
  <2>1. PICK dir : dir = [Same EXCEPT !.state = "M", !.owner = owner]
    OBVIOUS
  <2>2. /\ dir.state = "M" /\ dir.owner = owner
        /\ dir.sharers = sharers /\ dir.acks = acks
    BY <2>1 DEF Same
  <2>3. DirTakes(m, DirSends(m.src, "none"), dir)
    <3>1. /\ completion.I_M_Ack_Response = "none"
          /\ completion.I_M_Ack_State = "M"
          /\ completion.I_M_Ack_Track \in {"none", "owner is src"}
      BY AcceptedHoles DEF Shape
    <3>2. m.src = owner
      BY <1>1, DirHas DEF ProtocolInv, OwnerInv
    <3>3. Track(completion.I_M_Ack_Track, m) = owner
      BY <3>1, <3>2 DEF Track
    <3>4. Holes(m, "none", completion.I_M_Ack_Track, "M")
      BY <1>1, <3>1 DEF DirI_M
    <3> QED
      BY <2>1, <3>3, <3>4 DEF Holes, Response, DirSends
  <2>4. /\ Shape' /\ UNCHANGED <<l1_state, invalidated>>
        /\ dir_state' = "M" /\ owner' = owner
        /\ sharers' = sharers /\ acks' = acks
        /\ getM' = getM /\ getS' = getS
        /\ puts' = puts /\ acked' = acked \ {m.src}
        /\ data' = data /\ putAcked' = putAcked
        /\ recalled' = recalled
    BY <1>0, <1>1, <2>2, <2>3, DirSendsOne DEF Plus, Minus, DirState
  <2>5. Settles(m.src)
    BY <1>0, <1>1, <2>4, DirHas DEF Settles
  <2> QED
    BY <1>0, <1>1, <2>4, <2>5, SettlesPreserves
<1>2. CASE dir_state = "I_M" /\ m.mtype = "Put"
  <2>1. PICK dir : dir = [Same EXCEPT !.state = "I_M_I", !.owner = NoProc]
    OBVIOUS
  <2>2. /\ dir.state = "I_M_I" /\ dir.owner = NoProc
        /\ dir.sharers = sharers /\ dir.acks = acks
    BY <2>1 DEF Same
  <2>3. DirTakes(m, DirSends(m.src, "Ack"), dir)
    BY <1>0, <1>2, <2>1 DEF DirSends, DirI_M
  <2>4. /\ Shape' /\ UNCHANGED <<l1_state, invalidated>>
        /\ dir_state' = "I_M_I" /\ owner' = NoProc
        /\ sharers' = sharers /\ acks' = acks
        /\ getM' = getM /\ getS' = getS
        /\ puts' = puts \ {m.src} /\ acked' = acked
        /\ data' = data /\ putAcked' = putAcked \cup {m.src}
        /\ recalled' = recalled
    BY <1>0, <1>2, <2>2, <2>3, DirSendsOne DEF Plus, Minus, DirState
  <2>5. TakesPut(m.src)
    BY <1>0, <1>2, <2>4, DirHas DEF TakesPut
  <2> QED
    BY <1>0, <1>2, <2>4, <2>5, TakesPutPreserves
<1> QED
  BY <1>1, <1>2 DEF DirI_M

(* In M_S the line comes back, and what is sent to the reader that waits   *)
(* is data or, with the hole filled so, nothing.                           *)
LEMMA DirM_SStep ==
  ASSUME Shape, ProtocolInv, error' = "none", NEW m \in chan[Dir], DirM_S(m)
  PROVE  Shape' /\ ProtocolInv'
<1>0. /\ ViewOK /\ m.src \in Proc /\ sharers \in SUBSET Proc
      /\ owner \in Proc \cup {NoProc} /\ acks \in Int
  BY ViewTyped, DirHas DEF ProtocolInv, DirectoryInv, Shape, TypeOK
<1>1. dir_state = "M_S" /\ m.mtype = "Put" /\ m.src \in puts
  BY DirHas DEF DirM_S
<1>2. /\ completion.M_S_Put_Response \in {"none", "Data to sharer"}
      /\ completion.M_S_Put_State = "S"
      /\ completion.M_S_Put_Track \in {"none", "no owner"}
  BY AcceptedHoles DEF Shape
<1>3. Track(completion.M_S_Put_Track, m) = NoProc
  BY <1>0, <1>1, <1>2 DEF Track, ProtocolInv, DirectoryInv
<1>4. PICK to : to = IF completion.M_S_Put_Response = "none"
                     THEN {} ELSE sharers
  OBVIOUS
<1>5. PICK out : out = {To(p, "Data", Dir) : p \in to}
  OBVIOUS
<1>6. PICK dir : dir = [Same EXCEPT !.state = "S", !.owner = NoProc]
  OBVIOUS
<1>7. /\ dir.state = "S" /\ dir.owner = NoProc
      /\ dir.sharers = sharers /\ dir.acks = acks
  BY <1>6 DEF Same
<1>8. DirTakes(m, out, dir)
  <2>1. Response(completion.M_S_Put_Response, m) = out
    BY <1>2, <1>4, <1>5 DEF Response
  <2>2. Holes(m, completion.M_S_Put_Response, completion.M_S_Put_Track, "S")
    BY <1>2 DEF DirM_S
  <2> QED
    BY <1>2, <1>3, <1>6, <2>1, <2>2 DEF Holes
<1>9. \A x \in out : /\ x \in Envelopes /\ x[1] \in Proc
                     /\ Fits(x[1], x[2], NoProc)
  <2> TAKE x \in out
  <2>1. PICK p \in to : x = To(p, "Data", Dir)
    BY <1>5
  <2>2. p \in Proc /\ p \in Node /\ Dir \in Node /\ p # Dir
    BY <1>0, <1>4, NodeAssumption DEF Node
  <2>3. Message("Data", Dir) \in Msg
    BY <2>2 DEF Message, Msg
  <2>4. /\ x = <<p, Message("Data", Dir)>>
        /\ x[1] = p /\ x[2] = Message("Data", Dir)
        /\ Message("Data", Dir).mtype = "Data"
        /\ Message("Data", Dir).src = Dir
    BY <2>1, Envelope
  <2> QED
    BY <2>2, <2>3, <2>4 DEF Envelopes, Fits
<1>10. \A q, t, v : To(q, t, v) \in out <=> q \in to /\ t = "Data" /\ v = Dir
  <2>1. \A p, q, t, v : To(q, t, v) = To(p, "Data", Dir) <=>
          q = p /\ t = "Data" /\ v = Dir
    BY Envelope
  <2> QED
    BY <1>5, <2>1
<1>11. /\ Mails(out, "Data") = to /\ Mails(out, "Ack") = {}
       /\ Mails(out, "Inv") = {} /\ Invited(out) = {}
  <2>1. to \in SUBSET Proc
    BY <1>0, <1>4
  <2> QED
    BY <1>10, <2>1 DEF Mails, Invited
<1>12. /\ Shape' /\ UNCHANGED l1_state
       /\ dir_state' = dir.state /\ owner' = dir.owner
       /\ sharers' = dir.sharers /\ acks' = dir.acks
       /\ getM' = Minus(getM, m.mtype = "GetM", m.src)
       /\ getS' = Minus(getS, m.mtype = "GetS", m.src)
       /\ puts' = Minus(puts, m.mtype = "Put", m.src)
       /\ acked' = Minus(acked, m.mtype = "Ack", m.src)
       /\ data' = data \cup Mails(out, "Data")
       /\ putAcked' = putAcked \cup Mails(out, "Ack")
       /\ recalled' = recalled \cup Mails(out, "Inv")
       /\ invalidated' = invalidated \cup Invited(out)
  <2>1. /\ out \in SUBSET Envelopes
        /\ \A x \in out : x[1] \in Proc /\ Fits(x[1], x[2], dir.owner)
        /\ dir.state \in DirState /\ dir.owner \in Proc \cup {NoProc}
        /\ dir.sharers \in SUBSET Proc /\ dir.acks \in Int
    BY <1>0, <1>7, <1>9 DEF DirState
  <2> QED
    BY <1>1, <1>8, <2>1, DirMoves
<1>13. Shares(m.src, to)
  BY <1>0, <1>1, <1>4, <1>7, <1>11, <1>12 DEF Shares, Minus
<1> QED
  BY <1>0, <1>12, <1>13, SharesPreserves

-----------------------------------------------------------------------------
(***************************************************************************)
(* The invariant holds in every run of accepted completions.               *)
(***************************************************************************)

(* At the start nobody has a copy and nothing is under way.                *)
LEMMA InitInv ==
  ASSUME Completions \subseteq Accepted
  PROVE  Init => Shape /\ ProtocolInv
<1> SUFFICES ASSUME Init PROVE Shape /\ ProtocolInv
  OBVIOUS
<1>1. /\ completion \in Completions /\ dir_state = "I" /\ owner = NoProc
      /\ sharers = {} /\ acks = 0
      /\ \A p \in Proc : l1_state[p] = "I"
      /\ \A k \in Node : chan[k] = {}
  BY DEF Init
<1>2. /\ getM = {} /\ getS = {} /\ puts = {} /\ acked = {} /\ data = {}
      /\ putAcked = {} /\ recalled = {} /\ invalidated = {}
  BY <1>1 DEF getM, getS, puts, acked, data, putAcked, recalled, invalidated,
              FromCaches, FromDir, Node
<1>3. NoProc \notin Proc
  BY NodeAssumption
<1>4. Shape
  <2>1. l1_state \in [Proc -> L1State] /\ chan \in [Node -> SUBSET Msg]
    BY DEF Init, L1State
  <2> QED
    BY <1>1, <2>1 DEF Shape, TypeOK, ChanShape, DirState
<1>5. DirectoryInv /\ RequestInv /\ DataInv /\ OwnerInv /\ PutInv
  BY <1>1, <1>2, <1>3
     DEF DirectoryInv, RequestInv, DataInv, OwnerInv, PutInv
<1>6. CopyInv /\ AckInv
  BY <1>1, <1>2 DEF CopyInv, AckInv, Holders
<1> QED
  BY <1>4, <1>5, <1>6 DEF ProtocolInv

(* A step that throws changes nothing but the error.                       *)
LEMMA OnlyError ==
  ASSUME Shape, ProtocolInv, UNCHANGED <<completion, l1_state, chan, dirVars>>
  PROVE  Shape' /\ ProtocolInv'
<1>1. UNCHANGED <<completion, l1_state, chan, dir_state, owner, sharers,
                  acks>>
  BY DEF dirVars
<1>2. UNCHANGED <<getM, getS, puts, acked, data, putAcked, recalled,
                  invalidated>>
  BY <1>1 DEF getM, getS, puts, acked, data, putAcked, recalled, invalidated,
              FromCaches, FromDir
<1>3. Shape'
  BY <1>1 DEF Shape, TypeOK, ChanShape
<1>4. DirectoryInv' /\ RequestInv' /\ OwnerInv' /\ PutInv'
  BY <1>1, <1>2
     DEF ProtocolInv, DirectoryInv, RequestInv, OwnerInv, PutInv
<1>5. CopyInv' /\ DataInv' /\ AckInv'
  BY <1>1, <1>2
     DEF ProtocolInv, CopyInv, DataInv, AckInv, Holders, Reads, pending
<1> QED
  BY <1>3, <1>4, <1>5 DEF ProtocolInv

(* What throws is such a step.                                             *)
LEMMA Throws ==
  ASSUME NEW e, Throw(e)
  PROVE  UNCHANGED <<completion, l1_state, chan, dirVars>> /\ error' = e
BY DEF Throw

(* Whatever a rule does, it throws or there is no error after it.          *)
LEMMA Does ==
  ASSUME NEW n, NEW got, NEW out, NEW l1, NEW dir, error = "none",
         Do(n, got, out, l1, dir)
  PROVE  error' = "none" \/ UNCHANGED <<completion, l1_state, chan, dirVars>>
BY Throws DEF Do, Send

(* So a step of the protocol either throws, and changes nothing else, or   *)
(* leaves no error.                                                        *)
LEMMA ThrowsOnly ==
  ASSUME Next, error' # "none"
  PROVE  UNCHANGED <<completion, l1_state, chan, dirVars>>
<1>1. PICK p \in Proc :
        \/ I_Read(p) \/ I_Write(p) \/ S_Write(p) \/ S_Replacement(p)
        \/ M_Replacement(p) \/ L1ReceiveUnordered(p) \/ DirReceiveFrom(p)
  BY DEF Next
<1>2. CASE I_Read(p) \/ I_Write(p) \/ S_Write(p) \/ S_Replacement(p)
             \/ M_Replacement(p)
  BY <1>2, Does
     DEF I_Read, I_Write, S_Write, S_Replacement, M_Replacement, L1Rule
<1>3. CASE L1ReceiveUnordered(p)
  <2>1. PICK m \in chan[p] :
          /\ error = "none"
          /\ \/ L1Inv(p, m) \/ L1Data(p, m)
             \/ L1PutAck(p, m) \/ L1Unhandled(p, m)
    BY <1>3 DEF L1ReceiveUnordered
  <2>2. CASE L1Inv(p, m)
    BY <2>1, <2>2, Does DEF L1Inv, L1Takes
  <2>3. CASE L1Data(p, m) \/ L1PutAck(p, m)
    BY <2>1, <2>3, Does DEF L1Data, L1PutAck, L1Takes
  <2>4. CASE L1Unhandled(p, m)
    BY <2>4, Throws DEF L1Unhandled
  <2> QED
    BY <2>1, <2>2, <2>3, <2>4
<1>4. CASE DirReceiveFrom(p)
  <2>1. PICK m \in chan[Dir] : DirReceive(m)
    BY <1>4 DEF DirReceiveFrom
  <2>2. error = "none"
    BY <2>1 DEF DirReceive
  <2>3. ASSUME NEW out, NEW dir, DirTakes(m, out, dir)
        PROVE  UNCHANGED <<completion, l1_state, chan, dirVars>>
    BY <2>2, <2>3, Does DEF DirTakes
  <2>4. ASSUME NEW r, NEW t, NEW s, Holes(m, r, t, s)
        PROVE  UNCHANGED <<completion, l1_state, chan, dirVars>>
    BY <2>3, <2>4, Throws DEF Holes
  <2>5. CASE DirI(m) \/ DirM(m) \/ DirS(m)
    BY <2>3, <2>5 DEF DirI, DirM, DirS
  <2>6. CASE DirI_M(m) \/ DirI_M_I(m) \/ DirM_M(m)
    BY <2>3, <2>4, <2>6 DEF DirI_M, DirI_M_I, DirM_M
  <2>7. CASE DirS_M(m) \/ DirM_S(m)
    BY <2>3, <2>4, <2>7 DEF DirS_M, DirM_S
  <2>8. CASE DirErrs(m)
    BY <2>8, Throws DEF DirErrs
  <2> QED
    BY <2>1, <2>5, <2>6, <2>7, <2>8 DEF DirReceive
<1> QED
  BY <1>1, <1>2, <1>3, <1>4

(* Every step preserves the invariant.                                     *)
LEMMA NextInv == Shape /\ ProtocolInv /\ [Next]_vars => Shape' /\ ProtocolInv'
<1> SUFFICES ASSUME Shape, ProtocolInv, [Next]_vars
             PROVE  Shape' /\ ProtocolInv'
  OBVIOUS
<1>1. CASE UNCHANGED vars
  <2>1. UNCHANGED <<completion, l1_state, chan, dirVars>>
    BY <1>1 DEF vars
  <2> QED
    BY <2>1, OnlyError
<1>2. CASE Next /\ error' # "none"
  BY <1>2, ThrowsOnly, OnlyError
<1>3. CASE Next /\ error' = "none"
  <2>1. PICK p \in Proc :
          \/ I_Read(p) \/ I_Write(p) \/ S_Write(p) \/ S_Replacement(p)
          \/ M_Replacement(p) \/ L1ReceiveUnordered(p) \/ DirReceiveFrom(p)
    BY <1>3 DEF Next
  <2>2. CASE I_Read(p)
    <3>1. L1Rule(p, "I", CacheSends(p, "GetS"), "I_S")
      BY <2>2 DEF I_Read, CacheSends
    <3> QED
      BY <1>3, <3>1, RuleStep
  <2>3. CASE I_Write(p)
    <3>1. L1Rule(p, "I", CacheSends(p, "GetM"), "I_M")
      BY <2>3 DEF I_Write, CacheSends
    <3> QED
      BY <1>3, <3>1, RuleStep
  <2>4. CASE S_Write(p)
    <3>1. L1Rule(p, "S", CacheSends(p, "GetM"), "I_M")
      BY <2>4 DEF S_Write, CacheSends
    <3> QED
      BY <1>3, <3>1, RuleStep
  <2>5. CASE S_Replacement(p)
    <3>1. L1Rule(p, "S", CacheSends(p, "none"), "I")
      BY <2>5 DEF S_Replacement, CacheSends
    <3> QED
      BY <1>3, <3>1, RuleStep
  <2>6. CASE M_Replacement(p)
    <3>1. L1Rule(p, "M", CacheSends(p, "Put"), "M_I")
      BY <2>6 DEF M_Replacement, CacheSends
    <3> QED
      BY <1>3, <3>1, RuleStep
  <2>7. CASE L1ReceiveUnordered(p)
    <3>1. PICK m \in chan[p] : \/ L1Inv(p, m) \/ L1Data(p, m)
                               \/ L1PutAck(p, m) \/ L1Unhandled(p, m)
      BY <2>7 DEF L1ReceiveUnordered
    <3>2. ~ L1Unhandled(p, m)
      BY <1>3 DEF L1Unhandled, Throw
    <3> QED
      BY <1>3, <3>1, <3>2, L1InvStep, L1DataStep, L1PutAckStep
  <2>8. CASE DirReceiveFrom(p)
    <3>1. PICK m \in chan[Dir] : DirReceive(m)
      BY <2>8 DEF DirReceiveFrom
    <3>2. ~ DirErrs(m)
      BY <1>3 DEF DirErrs, Throw
    <3>3. CASE DirI(m) \/ DirM(m) \/ DirS(m) \/ DirI_M(m)
      BY <1>3, <3>3, DirIStep, DirMStep, DirSStep, DirI_MStep
    <3>4. CASE DirI_M_I(m) \/ DirM_M(m) \/ DirS_M(m) \/ DirM_S(m)
      BY <1>3, <3>4, DirI_M_IStep, DirM_MStep, DirS_MStep, DirM_SStep
    <3> QED
      BY <3>1, <3>2, <3>3, <3>4 DEF DirReceive
  <2> QED
    BY <2>1, <2>2, <2>3, <2>4, <2>5, <2>6, <2>7, <2>8
<1> QED
  BY <1>1, <1>2, <1>3

(* The shape of the channels and the invariant hold in every run.          *)
LEMMA Invariance ==
  ASSUME Completions \subseteq Accepted
  PROVE  Spec => [](Shape /\ ProtocolInv)
<1>1. Init => Shape /\ ProtocolInv
  BY InitInv
<1> QED
  BY <1>1, NextInv, PTL DEF Spec

-----------------------------------------------------------------------------
(***************************************************************************)
(* What the accepted candidates promise, the theorems.                     *)
(***************************************************************************)

(* The caches, the directory and the channels hold what their types in     *)
(* models/synthesis_msi.cc allow.                                          *)
THEOREM TypeCorrect ==
  ASSUME Completions \subseteq Accepted
  PROVE  Spec => []TypeOK
<1>1. Spec => [](Shape /\ ProtocolInv)
  BY Invariance
<1>2. Shape => TypeOK
  BY DEF Shape
<1> QED
  BY <1>1, <1>2, PTL

(* What a modified copy's cache and directory know of each other excludes  *)
(* a second one, and any shared copy.                                      *)
THEOREM SingleWriter ==
  ASSUME Completions \subseteq Accepted
  PROVE  Spec => []Coherent
<1>1. Spec => [](Shape /\ ProtocolInv)
  BY Invariance
<1>2. ProtocolInv => Coherent
  <2> SUFFICES ASSUME ProtocolInv, NEW p \in Proc, NEW q \in Proc,
                      p # q, l1_state[p] = "M"
               PROVE  l1_state[q] \notin {"M", "S"}
    BY DEF Coherent
  <2>1. l1_state[q] # "M"
    BY DEF ProtocolInv, CopyInv, Holders
  <2>2. dir_state \in {"I_M", "M", "M_M", "M_S"}
    BY DEF ProtocolInv, CopyInv
  <2>3. ~ Reads(q)
    BY <2>2 DEF ProtocolInv, AckInv, Reads
  <2> QED
    BY <2>1, <2>3 DEF ProtocolInv, CopyInv
<1> QED
  BY <1>1, <1>2, PTL

(* The directory never loses a copy: it knows the owner and the sharers,   *)
(* but for those to which an Inv is on its way.                            *)
THEOREM DirectoryKnowsCopies ==
  ASSUME Completions \subseteq Accepted
  PROVE  Spec => []DirectoryTracksCopies
<1>1. Spec => [](Shape /\ ProtocolInv)
  BY Invariance
<1>2. ProtocolInv => DirectoryTracksCopies
  <2> SUFFICES ASSUME ProtocolInv PROVE DirectoryTracksCopies
    OBVIOUS
  <2>1. \A p \in recalled \cup invalidated : Comes(p, "Inv")
    <3>1. \A s : Message("Inv", s).mtype = "Inv"
      BY Envelope
    <3> QED
      BY <3>1 DEF recalled, invalidated, FromDir, Comes
  <2>2. dir_state = "I" => owner = NoProc
    BY DEF ProtocolInv, DirectoryInv
  <2>3. ASSUME NEW p \in Proc, l1_state[p] = "M"
        PROVE  \/ dir_state \in {"I_M", "M"} /\ owner = p
               \/ Comes(p, "Inv")
    BY <2>1, <2>3 DEF ProtocolInv, CopyInv
  <2>4. ASSUME NEW p \in Proc, l1_state[p] = "S"
        PROVE  p \in sharers \/ Comes(p, "Inv")
    BY <2>1, <2>4 DEF ProtocolInv, CopyInv, Reads
  <2> QED
    BY <2>2, <2>3, <2>4 DEF DirectoryTracksCopies
<1> QED
  BY <1>1, <1>2, PTL

(* Sets whose elements correspond are of the same size.                    *)
LEMMA SameSize ==
  ASSUME NEW S, NEW T, IsFiniteSet(T), NEW f \in [S -> T],
         \A a, b \in S : f[a] = f[b] => a = b,
         \A t \in T : \E s \in S : f[s] = t
  PROVE  IsFiniteSet(S) /\ Cardinality(S) = Cardinality(T)
<1>1. f \in Injection(S, T)
  BY DEF Injection, IsInjective
<1>2. f \in Surjection(S, T)
  BY DEF Surjection
<1> QED
  BY <1>1, <1>2, FS_Injection

From(kinds) == {m \in chan[Dir] : m.mtype \in kinds}
Senders(kinds) == {p \in Proc : \E t \in kinds : Message(t, p) \in chan[Dir]}

(* The messages of some kinds to the directory are as many as the caches   *)
(* that sent one, if none of them sent two.                                *)
LEMMA SenderCount ==
  ASSUME Shape, NEW kinds,
         \A p \in Proc : \A t, u \in kinds :
           Message(t, p) \in chan[Dir] /\ Message(u, p) \in chan[Dir] => t = u
  PROVE  /\ IsFiniteSet(From(kinds))
         /\ Cardinality(From(kinds)) = Cardinality(Senders(kinds))
<1>0. Senders(kinds) \in SUBSET Proc
  BY DEF Senders
<1>a. PICK S : S = From(kinds)
  OBVIOUS
<1>b. PICK T : T = Senders(kinds)
  OBVIOUS
<1>1. \A m \in S : /\ m = Message(m.mtype, m.src) /\ m \in chan[Dir]
                   /\ m.mtype \in kinds /\ m.src \in T /\ m.src \in Proc
  <2> TAKE m \in S
  <2>1. m \in chan[Dir] /\ m.mtype \in kinds
    BY <1>a DEF From
  <2>2. m = Message(m.mtype, m.src) /\ m.src \in Proc
    BY <2>1, DirHas
  <2> QED
    BY <1>b, <2>1, <2>2 DEF Senders
<1> PICK f : f = [m \in S |-> m.src]
  OBVIOUS
<1>2. f \in [S -> T]
  BY <1>1
<1>3. ASSUME NEW a \in S, NEW b \in S, f[a] = f[b] PROVE a = b
  <2>1. a.src = b.src
    BY <1>3
  <2>2. a = Message(a.mtype, a.src) /\ b = Message(b.mtype, a.src)
    BY <1>1, <2>1
  <2>3. a.mtype = b.mtype
    <3>1. a.mtype \in kinds /\ b.mtype \in kinds /\ a.src \in Proc
      BY <1>1
    <3>2. Message(a.mtype, a.src) \in chan[Dir]
            /\ Message(b.mtype, a.src) \in chan[Dir]
      BY <1>1, <2>2
    <3> QED
      BY <3>1, <3>2
  <2> QED
    BY <2>2, <2>3
<1>4. ASSUME NEW p \in T PROVE \E m \in S : f[m] = p
  <2>1. PICK t \in kinds : Message(t, p) \in chan[Dir]
    BY <1>b DEF Senders
  <2>2. Message(t, p).mtype = t /\ Message(t, p).src = p
    BY DEF Message
  <2>3. Message(t, p) \in S
    BY <1>a, <2>1, <2>2 DEF From
  <2> QED
    BY <2>2, <2>3
<1>5. IsFiniteSet(T)
  BY <1>0, <1>b, CachesFinite
<1>6. IsFiniteSet(S) /\ Cardinality(S) = Cardinality(T)
  BY <1>2, <1>3, <1>4, <1>5, SameSize
<1> QED
  BY <1>a, <1>b, <1>6

(* The writers' invalidations are as many as the caches they go to.        *)
LEMMA WriterInvCount ==
  ASSUME Shape
  PROVE  /\ IsFiniteSet(WriterInvs)
         /\ Cardinality(WriterInvs) = Cardinality(invalidated)
<1> PICK S, T : S = WriterInvs /\ T = invalidated
  OBVIOUS
<1>0. Dir \notin Proc /\ Proc \subseteq Node
  BY NodeAssumption DEF Node
<1>1. ASSUME NEW x \in S
      PROVE  /\ x[1] \in Proc /\ x = <<x[1], x[2]>>
             /\ owner \in Proc /\ x[2] = Message("Inv", owner)
             /\ x[2] \in chan[x[1]]
  <2>1. /\ x[1] \in Proc /\ x[2] \in chan[x[1]] /\ x = <<x[1], x[2]>>
        /\ x[2].mtype = "Inv" /\ x[2].src # Dir /\ x[2] \in Msg
    BY DEF WriterInvs
  <2>2. Fits(x[1], x[2], owner)
    BY <1>0, <2>1 DEF Shape, ChanShape
  <2>3. x[2].src = owner /\ owner \in Proc
    BY <1>0, <2>1, <2>2 DEF Fits
  <2>4. x[2] = Message(x[2].mtype, x[2].src)
    BY <2>1, MessageIs
  <2> QED
    BY <2>1, <2>3, <2>4
<1> PICK f : f = [x \in S |-> x[1]]
  OBVIOUS
<1>2. f \in [S -> T]
  <2> SUFFICES ASSUME NEW x \in S PROVE x[1] \in T
    OBVIOUS
  <2> QED
    BY <1>1 DEF invalidated
<1>3. ASSUME NEW a \in S, NEW b \in S, f[a] = f[b] PROVE a = b
  <2>1. a[1] = b[1]
    BY <1>3
  <2> QED
    BY <1>1, <2>1
<1>4. ASSUME NEW p \in T PROVE \E x \in S : f[x] = p
  <2>1. PICK w \in Proc : Message("Inv", w) \in chan[p]
    BY DEF invalidated
  <2>2. p \in Proc /\ w # Dir /\ w \in Node
    BY <1>0 DEF invalidated
  <2>3. /\ Message("Inv", w) \in Msg /\ Message("Inv", w).mtype = "Inv"
        /\ Message("Inv", w).src = w
    BY <2>2 DEF Message, Msg
  <2>4. <<p, Message("Inv", w)>> \in S
    BY <2>1, <2>2, <2>3 DEF WriterInvs
  <2> QED
    BY <2>4
<1>5. IsFiniteSet(T)
  BY CachesFinite DEF invalidated
<1> QED
  BY <1>2, <1>3, <1>4, <1>5, SameSize

(* While a writer waits in S_M, the directory counts the invalidations and *)
(* the acknowledgements under way; otherwise no writer's invalidation is.  *)
THEOREM AcksBalance ==
  ASSUME Completions \subseteq Accepted
  PROVE  Spec => []AcksAccountedFor
<1>1. Spec => [](Shape /\ ProtocolInv)
  BY Invariance
<1>2. Shape /\ ProtocolInv => AcksAccountedFor
  <2> SUFFICES ASSUME Shape, ProtocolInv PROVE AcksAccountedFor
    OBVIOUS
  <2>1. acked \in SUBSET Proc /\ invalidated \in SUBSET Proc
    BY ViewTyped DEF ViewOK
  <2>2. /\ IsFiniteSet(acked) /\ IsFiniteSet(invalidated)
        /\ Cardinality(acked) \in Nat /\ Cardinality(invalidated) \in Nat
    BY <2>1, CachesFinite
  <2>3. CASE dir_state = "S_M"
    <3>1. acked \cap invalidated = {}
      BY DEF ProtocolInv, AckInv
    <3>2. Cardinality(acked \cap invalidated) = 0
      BY <3>1, FS_EmptySet
    <3>3. Cardinality(acked \cup invalidated)
            = Cardinality(acked) + Cardinality(invalidated)
                - Cardinality(acked \cap invalidated)
      BY <2>2, FS_Union
    <3>4. Senders({"Ack"}) = acked
      BY DEF Senders, acked, FromCaches
    <3>5. {m \in chan[Dir] : m.mtype = "Ack"} = From({"Ack"})
      BY DEF From
    <3>6. Cardinality(From({"Ack"})) = Cardinality(acked)
      BY <3>4, SenderCount
    <3>7. acks = Cardinality(acked \cup invalidated)
      BY <2>3 DEF ProtocolInv, AckInv, pending
    <3>8. acks = Cardinality(acked) + Cardinality(invalidated)
      BY <2>2, <3>2, <3>3, <3>7
    <3>9. Cardinality({m \in chan[Dir] : m.mtype = "Ack"})
            = Cardinality(acked)
      BY <3>5, <3>6
    <3> QED
      BY <2>2, <2>3, <3>8, <3>9, WriterInvCount DEF AcksAccountedFor
  <2>4. CASE dir_state # "S_M"
    <3>1. invalidated = {}
      BY <2>4 DEF ProtocolInv, AckInv
    <3>2. Cardinality(WriterInvs) = 0 /\ IsFiniteSet(WriterInvs)
      BY <3>1, WriterInvCount, FS_EmptySet
    <3> QED
      BY <2>4, <3>2, FS_EmptySet DEF AcksAccountedFor
  <2> QED
    BY <2>3, <2>4
<1> QED
  BY <1>1, <1>2, PTL

-----------------------------------------------------------------------------
(***************************************************************************)
(* Every message finds room, and a handler that knows it.                  *)
(***************************************************************************)

(* The slots that suffice: NET_MAX = PROC_COUNT + 1 does for up to three   *)
(* caches, no more (with four, three requests and three acknowledgements   *)
(* can be under way to the directory in S_M).                              *)
Roomy == /\ Cardinality(Proc) < NetMax
         /\ 2 * Cardinality(Proc) <= NetMax + 2

(* Disjoint sets of caches.                                                *)
LEMMA Apart ==
  ASSUME NEW S \in SUBSET Proc, NEW T \in SUBSET Proc, S \cap T = {}
  PROVE  /\ IsFiniteSet(S \cup T)
         /\ Cardinality(S \cup T) = Cardinality(S) + Cardinality(T)
         /\ Cardinality(S) + Cardinality(T) <= Cardinality(Proc)
         /\ Cardinality(Proc) \in Nat
<1>1. /\ IsFiniteSet(S) /\ IsFiniteSet(T)
      /\ Cardinality(S) \in Nat /\ Cardinality(T) \in Nat
      /\ Cardinality(Proc) \in Nat
  BY CachesFinite
<1>2. Cardinality(S \cap T) = 0
  BY FS_EmptySet
<1>3. /\ IsFiniteSet(S \cup T)
      /\ Cardinality(S \cup T)
           = Cardinality(S) + Cardinality(T) - Cardinality(S \cap T)
  BY <1>1, FS_Union
<1>4. Cardinality(S \cup T) <= Cardinality(Proc)
  BY NodeAssumption, FS_Subset
<1> QED
  BY <1>1, <1>2, <1>3, <1>4

(* How many caches there may be in a set.                                  *)
LEMMA Without ==
  ASSUME NEW S \in SUBSET Proc
  PROVE  /\ Cardinality(S) \in Nat /\ Cardinality(Proc) \in Nat
         /\ (\A a, b \in S : a = b) => Cardinality(S) <= 1
         /\ \A p \in Proc : p \notin S =>
              Cardinality(S) <= Cardinality(Proc) - 1
         /\ \A p, q \in Proc : p # q /\ p \notin S /\ q \notin S =>
              Cardinality(S) <= Cardinality(Proc) - 2
<1>1. Cardinality(S) \in Nat /\ Cardinality(Proc) \in Nat
  BY CachesFinite
<1>2. ASSUME \A a, b \in S : a = b PROVE Cardinality(S) <= 1
  <2>1. CASE S = {}
    BY <1>1, <2>1, FS_EmptySet
  <2>2. CASE S # {}
    <3>1. PICK a \in S : S = {a}
      BY <1>2, <2>2
    <3> QED
      BY <3>1, FS_Singleton
  <2> QED
    BY <2>1, <2>2
<1>3. ASSUME NEW p \in Proc, p \notin S
      PROVE  Cardinality(S) <= Cardinality(Proc) - 1
  <2>1. Cardinality({p}) = 1
    BY FS_Singleton
  <2>2. Cardinality(S) + Cardinality({p}) <= Cardinality(Proc)
    <3>1. {p} \in SUBSET Proc /\ S \cap {p} = {}
      BY <1>3
    <3> QED
      BY <3>1, Apart
  <2> QED
    BY <1>1, <2>1, <2>2
<1>4. ASSUME NEW p \in Proc, NEW q \in Proc, p # q, p \notin S, q \notin S
      PROVE  Cardinality(S) <= Cardinality(Proc) - 2
  <2>1. Cardinality({p}) = 1 /\ Cardinality({q}) = 1
    BY FS_Singleton
  <2>2. Cardinality({p} \cup {q}) = Cardinality({p}) + Cardinality({q})
    <3>1. {p} \in SUBSET Proc /\ {q} \in SUBSET Proc /\ {p} \cap {q} = {}
      BY <1>4
    <3> QED
      BY <3>1, Apart
  <2>3. Cardinality(S) + Cardinality({p} \cup {q}) <= Cardinality(Proc)
    <3>1. {p} \cup {q} \in SUBSET Proc /\ S \cap ({p} \cup {q}) = {}
      BY <1>4
    <3> QED
      BY <3>1, Apart
  <2>4. Cardinality({p} \cup {q}) = 2
    BY <2>1, <2>2
  <2> QED
    BY <1>1, <2>3, <2>4
<1> QED
  BY <1>1, <1>2, <1>3, <1>4

(* The caches whose request is under way.                                  *)
asking == getM \cup getS

(* What is under way to the directory: requests, Puts, acknowledgements.   *)
LEMMA DirLoad ==
  ASSUME Shape, ProtocolInv
  PROVE  /\ IsFiniteSet(chan[Dir]) /\ Cardinality(chan[Dir]) \in Nat
         /\ Cardinality(chan[Dir]) <=
              Cardinality(asking) + Cardinality(puts) + Cardinality(acked)
<1>1. /\ Senders({"GetM", "GetS"}) = asking
      /\ Senders({"Put"}) = puts /\ Senders({"Ack"}) = acked
  BY DEF Senders, asking, getM, getS, puts, acked, FromCaches
<1>2. \A p \in Proc : \A t, u \in {"GetM", "GetS"} :
        Message(t, p) \in chan[Dir] /\ Message(u, p) \in chan[Dir] => t = u
  <2>1. getM \cap getS = {}
    BY DEF ProtocolInv, RequestInv
  <2> QED
    BY <2>1 DEF getM, getS, FromCaches
<1>3. PICK A : A = From({"GetM", "GetS"})
  OBVIOUS
<1>4. PICK B : B = From({"Put"})
  OBVIOUS
<1>5. PICK C : C = From({"Ack"})
  OBVIOUS
<1>6. IsFiniteSet(A) /\ Cardinality(A) = Cardinality(asking)
  BY <1>1, <1>2, <1>3, SenderCount
<1>7. IsFiniteSet(B) /\ Cardinality(B) = Cardinality(puts)
  BY <1>1, <1>4, SenderCount
<1>8. IsFiniteSet(C) /\ Cardinality(C) = Cardinality(acked)
  BY <1>1, <1>5, SenderCount
<1>9. chan[Dir] = (A \cup B) \cup C
  <2>1. \A m : m \in chan[Dir] <=> m \in (A \cup B) \cup C
    BY <1>3, <1>4, <1>5, DirHas DEF From
  <2> QED
    BY <2>1, SameSet
<1>10. /\ IsFiniteSet(A \cup B)
       /\ Cardinality(A \cup B)
            = Cardinality(A) + Cardinality(B) - Cardinality(A \cap B)
       /\ Cardinality(A \cap B) \in Nat
  BY <1>6, <1>7, FS_Union, FS_Intersection, FS_CardinalityType
<1>11. /\ IsFiniteSet((A \cup B) \cup C)
       /\ Cardinality((A \cup B) \cup C)
            = Cardinality(A \cup B) + Cardinality(C)
                - Cardinality((A \cup B) \cap C)
       /\ Cardinality((A \cup B) \cap C) \in Nat
  BY <1>8, <1>10, FS_Union, FS_Intersection, FS_CardinalityType
<1>12. /\ Cardinality(A) \in Nat /\ Cardinality(B) \in Nat
       /\ Cardinality(C) \in Nat /\ Cardinality(A \cup B) \in Nat
  BY <1>6, <1>7, <1>8, <1>10, FS_CardinalityType
<1>13. Cardinality((A \cup B) \cup C) <=
         Cardinality(asking) + Cardinality(puts) + Cardinality(acked)
  BY <1>6, <1>7, <1>8, <1>10, <1>11, <1>12
<1> QED
  BY <1>9, <1>11, <1>13, FS_CardinalityType

(* There is room at the directory whenever a cache has something to send:  *)
(* then it has no request under way there, or, with an Inv to answer, no   *)
(* acknowledgement.                                                        *)
LEMMA RoomAtDir ==
  ASSUME Shape, ProtocolInv, Roomy, NEW p \in Proc,
         \/ l1_state[p] \in {"I", "S", "M"}
         \/ l1_state[p] = "I_M" /\ p \in data
         \/ p \in invalidated
  PROVE  Cardinality(chan[Dir]) \in Nat /\ Cardinality(chan[Dir]) < NetMax
<1>0. NetMax \in Nat
  BY NodeAssumption
<1>1. /\ getM \in SUBSET Proc /\ getS \in SUBSET Proc
      /\ puts \in SUBSET Proc /\ acked \in SUBSET Proc
      /\ asking \in SUBSET Proc
      /\ dir_state \in DirState
  BY ViewTyped DEF ViewOK, asking, Shape, TypeOK
<1>2. /\ Cardinality(asking) \in Nat /\ Cardinality(puts) \in Nat
      /\ Cardinality(acked) \in Nat /\ Cardinality(Proc) \in Nat
      /\ puts = {} => Cardinality(puts) = 0
      /\ acked = {} => Cardinality(acked) = 0
  BY <1>1, CachesFinite
<1>3. \A q \in Proc : q \in asking =>
        l1_state[q] \in {"I_M", "I_S", "IS_I"} /\ q \notin data
  BY DEF ProtocolInv, RequestInv, asking
<1>4. Cardinality(puts) <= 1
  <2>1. \A a, b \in puts : a = b
    BY DEF ProtocolInv, CopyInv, Holders
  <2> QED
    BY <1>1, <2>1, Without
<1>5. p \notin asking \/ p \in invalidated
  BY <1>3
<1>6. CASE dir_state = "S_M"
  <2>1. /\ owner \in Proc /\ owner \notin asking /\ owner \notin acked
    BY <1>6 DEF ProtocolInv, DirectoryInv, RequestInv, OwnerInv, AckInv,
                asking
  <2>2. puts = {}
    BY <1>6 DEF ProtocolInv, PutInv
  <2>3. p # owner /\ (p \notin asking \/ p \notin acked)
    BY <1>3, <1>6 DEF ProtocolInv, OwnerInv, AckInv, DataInv
  <2>4. /\ Cardinality(asking) <= Cardinality(Proc) - 1
        /\ Cardinality(acked) <= Cardinality(Proc) - 1
    BY <1>1, <2>1, Without
  <2>5. \/ Cardinality(asking) <= Cardinality(Proc) - 2
        \/ Cardinality(acked) <= Cardinality(Proc) - 2
    BY <1>1, <2>1, <2>3, Without
  <2> QED
    BY <1>0, <1>2, <2>2, <2>4, <2>5, DirLoad DEF Roomy
<1>7. CASE dir_state # "S_M"
  <2>1. p \notin asking
    BY <1>5, <1>7 DEF ProtocolInv, AckInv
  <2>2. Cardinality(asking) <= Cardinality(Proc) - 1
    BY <1>1, <2>1, Without
  <2>3. CASE puts = {} \/ acked = {}
    <3>1. Cardinality(acked) <= 1
      <4>1. \A a, b \in acked : a = b
        BY <1>7 DEF ProtocolInv, OwnerInv, AckInv
      <4> QED
        BY <1>1, <4>1, Without
    <3> QED
      BY <1>0, <1>2, <1>4, <2>2, <2>3, <3>1, DirLoad DEF Roomy
  <2>4. CASE puts # {} /\ acked # {}
    <3>1. dir_state = "I_M"
      BY <1>7, <2>4 DEF ProtocolInv, PutInv, AckInv
    <3>2. owner \in puts /\ l1_state[owner] = "M_I" /\ owner \in Proc
      BY <1>1, <2>4, <3>1 DEF ProtocolInv, PutInv
    <3>3. acked = {owner} /\ owner \notin asking
      BY <1>3, <2>4, <3>1, <3>2 DEF ProtocolInv, OwnerInv
    <3>4. p # owner
      BY <1>7, <3>2 DEF ProtocolInv, AckInv
    <3>5. Cardinality(asking) <= Cardinality(Proc) - 2
      BY <1>1, <2>1, <3>2, <3>3, <3>4, Without
    <3>6. Cardinality(acked) = 1
      BY <3>3, FS_Singleton
    <3> QED
      BY <1>0, <1>2, <1>4, <3>5, <3>6, DirLoad DEF Roomy
  <2> QED
    BY <2>3, <2>4
<1> QED
  BY <1>6, <1>7

(* There is room at a cache that has at most data on its way to it.        *)
LEMMA RoomAtCache ==
  ASSUME Shape, Roomy, NEW p \in Proc,
         p \notin putAcked, p \notin recalled, p \notin invalidated
  PROVE  /\ Cardinality(chan[p]) \in Nat /\ Cardinality(chan[p]) < NetMax
         /\ \A t \in {"Ack", "Inv"} : \A s \in Node :
              Message(t, s) \notin chan[p]
<1>1. \A m \in chan[p] : m = Message("Data", Dir)
  <2> TAKE m \in chan[p]
  <2>1. m = Message(m.mtype, m.src) /\ m.src = Dir /\ m.mtype = "Data"
    BY CacheHas
  <2> QED
    BY <2>1
<1>2. chan[p] \subseteq {Message("Data", Dir)}
  BY <1>1
<1>3. /\ IsFiniteSet({Message("Data", Dir)})
      /\ Cardinality({Message("Data", Dir)}) = 1
  BY FS_Singleton
<1>4. IsFiniteSet(chan[p]) /\ Cardinality(chan[p]) <= 1
  BY <1>2, <1>3, FS_Subset
<1>5. Cardinality(chan[p]) \in Nat
  BY <1>4, FS_CardinalityType
<1>6. Cardinality(Proc) \in Nat /\ Cardinality(Proc) # 0 /\ NetMax \in Nat
  BY CachesFinite, NodeAssumption
<1>7. \A t \in {"Ack", "Inv"} : \A s \in Node : Message(t, s) \notin chan[p]
  BY <1>1, Envelope
<1> QED
  BY <1>4, <1>5, <1>6, <1>7 DEF Roomy

Delivers(out) ==
  \A x \in out : /\ Cardinality(chan[x[1]]) \in Nat
                 /\ Cardinality(chan[x[1]]) < NetMax
                 /\ x[2] \notin chan[x[1]]

(* What finds room, and is not under way yet, is sent.                     *)
LEMMA Delivered ==
  ASSUME NEW n, NEW got, NEW out, NEW l1, NEW dir, error = "none",
         Delivers(out), Do(n, got, out, l1, dir)
  PROVE  error' = "none"
<1>1. NetMax \in Nat
  BY NodeAssumption
<1>2. /\ ~ \E x \in out : Cardinality(chan[x[1]]) >= NetMax
      /\ ~ \E x \in out : x[2] \in chan[x[1]]
  BY <1>1 DEF Delivers
<1>3. SendError(out) = "none"
  BY <1>2 DEF SendError
<1> QED
  BY <1>3 DEF Fails, Do, Send

(* So is one message,                                                      *)
LEMMA DeliversOne ==
  ASSUME NEW k, NEW t, NEW s, Cardinality(chan[k]) \in Nat,
         Cardinality(chan[k]) < NetMax, Message(t, s) \notin chan[k]
  PROVE  Delivers({To(k, t, s)})
BY Envelope DEF Delivers

(* or none.                                                                *)
LEMMA DeliversNone == Delivers({})
BY DEF Delivers

(* A cache's message is delivered.                                         *)
LEMMA CacheDelivers ==
  ASSUME Shape, ProtocolInv, Roomy, NEW p \in Proc,
         NEW u \in {"GetM", "GetS", "Put", "Ack"},
         \/ u \in {"GetM", "GetS"} /\ l1_state[p] \in {"I", "S"}
         \/ u = "Put" /\ l1_state[p] = "M"
         \/ u = "Ack" /\ l1_state[p] = "I_M" /\ p \in data
         \/ u = "Ack" /\ p \in invalidated
  PROVE  Delivers({To(Dir, u, p)})
<1>1. Cardinality(chan[Dir]) \in Nat /\ Cardinality(chan[Dir]) < NetMax
  BY RoomAtDir
<1>2. /\ l1_state[p] \in {"I", "S"} => p \notin getM /\ p \notin getS
      /\ l1_state[p] = "M" => p \notin puts
      /\ l1_state[p] = "I_M" /\ p \in data => p \notin acked
      /\ p \in invalidated => p \notin acked
  BY DEF ProtocolInv, RequestInv, PutInv, DataInv, OwnerInv, AckInv
<1>3. Message(u, p) \notin chan[Dir]
  BY <1>2 DEF getM, getS, puts, acked, FromCaches
<1> QED
  BY <1>1, <1>3, DeliversOne

(* The caches' steps.                                                      *)
LEMMA CacheThrowsNothing ==
  ASSUME Shape, ProtocolInv, Roomy, NEW p \in Proc, error = "none",
         \/ I_Read(p) \/ I_Write(p) \/ S_Write(p) \/ S_Replacement(p)
         \/ M_Replacement(p) \/ L1ReceiveUnordered(p)
  PROVE  error' = "none"
<1>1. CASE I_Read(p)
  <2>1. Delivers({To(Dir, "GetS", p)})
    BY <1>1, CacheDelivers DEF I_Read, L1Rule
  <2> QED
    BY <1>1, <2>1, Delivered DEF I_Read, L1Rule
<1>2. CASE I_Write(p) \/ S_Write(p)
  <2>1. Delivers({To(Dir, "GetM", p)})
    BY <1>2, CacheDelivers DEF I_Write, S_Write, L1Rule
  <2> QED
    BY <1>2, <2>1, Delivered DEF I_Write, S_Write, L1Rule
<1>3. CASE S_Replacement(p)
  BY <1>3, DeliversNone, Delivered DEF S_Replacement, L1Rule
<1>4. CASE M_Replacement(p)
  <2>1. Delivers({To(Dir, "Put", p)})
    BY <1>4, CacheDelivers DEF M_Replacement, L1Rule
  <2> QED
    BY <1>4, <2>1, Delivered DEF M_Replacement, L1Rule
<1>5. CASE L1ReceiveUnordered(p)
  <2>1. PICK m \in chan[p] : \/ L1Inv(p, m) \/ L1Data(p, m)
                             \/ L1PutAck(p, m) \/ L1Unhandled(p, m)
    BY <1>5 DEF L1ReceiveUnordered
  <2>2. ASSUME NEW out, NEW to, L1Takes(p, m, out, to), Delivers(out)
        PROVE  error' = "none"
    BY <2>2, Delivered DEF L1Takes
  <2>3. /\ m.mtype \in {"Data", "Ack", "Inv"}
        /\ m.src = Dir \/ (m.src \in Proc /\ m.mtype = "Inv")
        /\ m.mtype = "Data" => p \in data
        /\ m.mtype = "Ack" => p \in putAcked
        /\ m.mtype = "Inv" => \/ m.src = Dir /\ p \in recalled
                              \/ p \in invalidated
    BY CacheHas
  <2>4. /\ p \in data => l1_state[p] \in {"I_M", "I_S", "IS_I"}
        /\ p \in putAcked => l1_state[p] = "M_I"
        /\ p \in recalled => l1_state[p] \in {"M", "M_I"}
        /\ p \in invalidated => l1_state[p] \notin {"M", "M_I"}
    BY DEF ProtocolInv, DataInv, PutInv, AckInv
  <2>5. CASE L1Inv(p, m)
    <3>1. CASE p \in invalidated
      <4>1. Delivers({To(Dir, "Ack", p)})
        BY <3>1, CacheDelivers
      <4>2. PICK to : L1Takes(p, m, {To(Dir, "Ack", p)}, to)
        <5>1. L1Response(p, m) = {To(Dir, "Ack", p)}
          BY HoleAnswer DEF Shape, CacheSends
        <5> QED
          BY <2>4, <2>5, <3>1, <5>1 DEF L1Inv
      <4> QED
        BY <2>2, <4>1, <4>2
    <3>2. CASE m.src = Dir /\ l1_state[p] = "M"
      <4>1. Delivers({To(Dir, "Put", p)})
        BY <3>2, CacheDelivers
      <4>2. L1Takes(p, m, {To(Dir, "Put", p)}, "I")
        BY <2>5, <3>2 DEF L1Inv
      <4> QED
        BY <2>2, <4>1, <4>2
    <3>3. CASE l1_state[p] = "M_I"
      <4>1. L1Takes(p, m, {}, "I")
        BY <2>5, <3>3 DEF L1Inv
      <4> QED
        BY <2>2, <4>1, DeliversNone
    <3> QED
      BY <2>3, <2>4, <2>5, <3>1, <3>2, <3>3 DEF L1Inv
  <2>6. CASE L1Data(p, m) /\ l1_state[p] = "I_M"
    <3>1. p \in data
      BY <2>3, <2>6 DEF L1Data
    <3>2. Delivers({To(Dir, "Ack", p)})
      BY <2>6, <3>1, CacheDelivers
    <3>3. L1Takes(p, m, {To(Dir, "Ack", p)}, "M")
      BY <2>6 DEF L1Data
    <3> QED
      BY <2>2, <3>2, <3>3
  <2>7. CASE L1Data(p, m) /\ l1_state[p] # "I_M"
    <3>1. L1Takes(p, m, {}, "S") \/ L1Takes(p, m, {}, "I")
      BY <2>7 DEF L1Data
    <3> QED
      BY <2>2, <3>1, DeliversNone
  <2>8. CASE L1PutAck(p, m)
    BY <2>2, <2>8, DeliversNone DEF L1PutAck
  <2>9. ~ L1Unhandled(p, m)
    BY <2>3, <2>4 DEF L1Unhandled
  <2> QED
    BY <2>1, <2>5, <2>6, <2>7, <2>8, <2>9
<1> QED
  BY <1>1, <1>2, <1>3, <1>4, <1>5

(* In every state there is a handler for what may come in it.              *)
LEMMA Handled ==
  /\ \A d \in DirState : "GetM" \in DirHandled[d] /\ "GetS" \in DirHandled[d]
  /\ \A d \in {"M", "I_M", "M_M", "M_S"} : "Put" \in DirHandled[d]
  /\ \A d \in {"I_M", "I_M_I", "S_M"} : "Ack" \in DirHandled[d]
<1>1. /\ DirHandled["I"] = {"GetM", "GetS"}
      /\ DirHandled["M"] = {"GetM", "GetS", "Put"}
      /\ DirHandled["S"] = {"GetM", "GetS"}
      /\ DirHandled["I_M"] = {"GetM", "GetS", "Ack", "Put"}
  BY DEF DirHandled
<1>2. /\ DirHandled["I_M_I"] = {"GetM", "GetS", "Ack"}
      /\ DirHandled["M_M"] = {"GetM", "GetS", "Put"}
      /\ DirHandled["S_M"] = {"GetM", "GetS", "Ack"}
      /\ DirHandled["M_S"] = {"GetM", "GetS", "Put"}
  BY DEF DirHandled
<1> QED
  BY <1>1, <1>2 DEF DirState

(* So is the directory's, to a cache to which at most data is under way.   *)
LEMMA DirDelivers ==
  ASSUME Shape, ProtocolInv, Roomy, NEW r \in Proc,
         NEW t \in {"Data", "Ack", "Inv"}, NEW s \in Node,
         r \notin putAcked, r \notin recalled, r \notin invalidated,
         t # "Data" \/ (s = Dir /\ r \notin data)
  PROVE  /\ Cardinality(chan[r]) \in Nat /\ Cardinality(chan[r]) < NetMax
         /\ Message(t, s) \notin chan[r] /\ Delivers({To(r, t, s)})
<1>1. Cardinality(chan[r]) \in Nat /\ Cardinality(chan[r]) < NetMax
  BY RoomAtCache
<1>2. Message(t, s) \notin chan[r]
  BY RoomAtCache DEF data, FromDir
<1> QED
  BY <1>1, <1>2, DeliversOne

(* The directory's steps.                                                  *)
LEMMA DirThrowsNothing ==
  ASSUME Shape, ProtocolInv, Roomy, error = "none", NEW m \in chan[Dir],
         DirReceive(m)
  PROVE  error' = "none"
<1>0. /\ Dir \in Node /\ Proc \subseteq Node /\ NoProc \notin Proc
      /\ completion \in Accepted /\ dir_state \in DirState
  BY NodeAssumption DEF Node, Shape, TypeOK
<1>1. ASSUME NEW out, NEW dir, DirTakes(m, out, dir), Delivers(out)
      PROVE  error' = "none"
  BY <1>1, Delivered DEF DirTakes
<1>2. ASSUME NEW r \in Proc, NEW t \in {"Data", "Ack", "Inv"}, NEW dir,
             r \notin putAcked, r \notin recalled, r \notin invalidated,
             t = "Data" => r \notin data,
             DirTakes(m, {To(r, t, Dir)}, dir)
      PROVE  error' = "none"
  <2>1. Delivers({To(r, t, Dir)})
    BY <1>0, <1>2, DirDelivers
  <2> QED
    BY <1>1, <1>2, <2>1
<1>3. /\ m.src \in Proc /\ m.mtype \in {"GetM", "GetS", "Put", "Ack"}
      /\ m.mtype \in {"GetM", "GetS"} => m.src \in asking
      /\ m.mtype = "Put" => m.src \in puts
      /\ m.mtype = "Ack" => m.src \in acked
  BY DirHas DEF asking
<1>4. /\ m.src \in asking => /\ m.src \notin data /\ m.src \notin putAcked
                             /\ m.src \notin recalled
      /\ m.src \in puts => /\ m.src \notin putAcked
                           /\ dir_state \in {"M", "I_M", "M_M", "M_S"}
      /\ m.src \in acked => dir_state \in {"I_M", "I_M_I", "S_M"}
      /\ dir_state # "S_M" => m.src \notin invalidated
  BY DEF ProtocolInv, RequestInv, PutInv, AckInv, asking
<1>5. /\ dir_state \in {"M", "I_M", "M_M", "S_M"} <=> owner \in Proc
      /\ owner \in Proc \cup {NoProc}
      /\ sharers \in SUBSET Proc
      /\ sharers # {} => dir_state \in {"S", "M_S"}
  BY DEF ProtocolInv, DirectoryInv
<1>6. /\ dir_state \in {"M", "I_M", "M_M", "S_M"} =>
           owner \notin putAcked /\ owner \notin recalled
      /\ dir_state \in {"M", "M_M", "S_M"} => owner \notin data
      /\ owner \notin invalidated
  BY <1>5 DEF ProtocolInv, OwnerInv, DataInv, PutInv, AckInv
<1>7. CASE DirI(m)
  BY <1>2, <1>3, <1>4, <1>7 DEF DirI
<1>8. CASE DirM(m)
  <2>1. CASE m.mtype \in {"GetM", "GetS"}
    BY <1>2, <1>5, <1>6, <1>8, <2>1 DEF DirM
  <2>2. CASE m.mtype = "Put"
    <3>1. m.src = owner
      BY <1>3, <1>8, <2>2 DEF DirM, ProtocolInv, PutInv
    <3> QED
      BY <1>2, <1>5, <1>6, <1>8, <2>2, <3>1 DEF DirM
  <2> QED
    BY <1>8, <2>1, <2>2 DEF DirM
<1>9. CASE DirS(m)
  <2>1. \/ \E dir : DirTakes(m, {To(m.src, "Data", Dir)}, dir)
        \/ \E dir : DirTakes(m, {To(p, "Inv", m.src) :
                                   p \in sharers \ {m.src}}, dir)
    BY <1>9 DEF DirS
  <2>2. dir_state = "S" /\ m.mtype \in {"GetM", "GetS"}
    BY <1>9 DEF DirS
  <2>3. ASSUME NEW p \in sharers
        PROVE  /\ Cardinality(chan[p]) \in Nat
               /\ Cardinality(chan[p]) < NetMax
               /\ Message("Inv", m.src) \notin chan[p]
    <3>1. p \in Proc /\ p \notin putAcked /\ p \notin recalled
            /\ p \notin invalidated
      BY <2>2, <1>5 DEF ProtocolInv, DirectoryInv, PutInv, AckInv
    <3> QED
      BY <1>0, <1>3, <3>1, DirDelivers
  <2>4. Delivers({To(p, "Inv", m.src) : p \in sharers \ {m.src}})
    <3>1. \A p : /\ To(p, "Inv", m.src)[1] = p
                 /\ To(p, "Inv", m.src)[2] = Message("Inv", m.src)
      BY Envelope
    <3> QED
      BY <2>3, <3>1 DEF Delivers
  <2> QED
    BY <1>1, <1>2, <1>3, <1>4, <2>1, <2>2, <2>4
<1>10. CASE DirS_M(m)
  <2>1. \/ \E dir : DirTakes(m, {To(owner, "Data", Dir)}, dir)
        \/ \E dir : DirTakes(m, {}, dir)
    BY <1>10 DEF DirS_M
  <2>2. dir_state = "S_M"
    BY <1>10 DEF DirS_M
  <2> QED
    BY <1>1, <1>2, <1>5, <1>6, <2>1, <2>2, DeliversNone
<1>11. CASE DirM_M(m)
  BY <1>2, <1>5, <1>6, <1>11 DEF DirM_M
<1>12. CASE DirI_M_I(m)
  BY <1>1, <1>12, DeliversNone DEF DirI_M_I
<1>13. CASE DirI_M(m)
  <2>1. CASE m.mtype = "Ack"
    <3>1. completion.I_M_Ack_Response = "none"
      BY <1>0, AcceptedHoles
    <3>2. \E dir : DirTakes(m, Response("none", m), dir)
      BY <1>13, <2>1, <3>1 DEF DirI_M, Holes
    <3>3. Response("none", m) = {}
      BY DEF Response
    <3> QED
      BY <1>1, <3>2, <3>3, DeliversNone
  <2>2. CASE m.mtype = "Put"
    <3>1. m.src = owner
      BY <1>3, <1>13, <2>2 DEF DirI_M, ProtocolInv, PutInv
    <3> QED
      BY <1>2, <1>5, <1>6, <1>13, <2>2, <3>1 DEF DirI_M
  <2> QED
    BY <1>13, <2>1, <2>2 DEF DirI_M
<1>14. CASE DirM_S(m)
  <2>1. PICK option : option = completion.M_S_Put_Response
    OBVIOUS
  <2>2. option \in {"none", "Data to sharer"}
    BY <1>0, <2>1, AcceptedHoles
  <2>3. PICK dir : DirTakes(m, Response(option, m), dir)
    BY <1>14, <2>1, <2>2 DEF DirM_S, Holes
  <2>4. CASE option = "none"
    <3>1. Response(option, m) = {}
      BY <2>4 DEF Response
    <3> QED
      BY <1>1, <2>3, <3>1, DeliversNone
  <2>5. CASE option = "Data to sharer"
    <3>1. Response(option, m) = {To(p, "Data", Dir) : p \in sharers}
      BY <2>5 DEF Response
    <3>2. ASSUME NEW p \in sharers
          PROVE  /\ Cardinality(chan[p]) \in Nat
                 /\ Cardinality(chan[p]) < NetMax
                 /\ Message("Data", Dir) \notin chan[p]
      <4>1. dir_state = "M_S" /\ p \in Proc
        BY <1>5, <1>14 DEF DirM_S
      <4>2. p \notin data /\ p \notin putAcked /\ p \notin recalled
              /\ p \notin invalidated
        BY <4>1 DEF ProtocolInv, DirectoryInv, PutInv, AckInv
      <4> QED
        BY <1>0, <4>1, <4>2, DirDelivers
    <3>3. Delivers({To(p, "Data", Dir) : p \in sharers})
      <4>1. \A p : /\ To(p, "Data", Dir)[1] = p
                   /\ To(p, "Data", Dir)[2] = Message("Data", Dir)
        BY Envelope
      <4> QED
        BY <3>2, <4>1 DEF Delivers
    <3> QED
      BY <1>1, <2>3, <3>1, <3>3
  <2> QED
    BY <2>2, <2>4, <2>5
<1>15. ~ DirErrs(m)
  <2>1. m.mtype \in DirHandled[dir_state]
    BY <1>0, <1>3, <1>4, Handled
  <2>2. dir_state \in {"M", "M_M", "S_M"} => owner # NoProc
    BY <1>0, <1>5
  <2>3. dir_state = "M" => sharers = {}
    BY <1>5
  <2>4. dir_state = "S" => owner = NoProc
    BY <1>5
  <2> QED
    BY <2>1, <2>2, <2>3, <2>4 DEF DirErrs
<1> QED
  BY <1>7, <1>8, <1>9, <1>10, <1>11, <1>12, <1>13, <1>14, <1>15 DEF DirReceive

(* With room enough in the channels no step throws: no channel overflows,  *)
(* every message has a handler and the directory's assertions hold.        *)
THEOREM NothingThrown ==
  ASSUME Completions \subseteq Accepted,
         Cardinality(Proc) < NetMax, 2 * Cardinality(Proc) <= NetMax + 2
  PROVE  Spec => []NoErrorThrown
<1>1. Spec => [](Shape /\ ProtocolInv)
  BY Invariance
<1>2. Init => NoErrorThrown
  BY DEF Init, NoErrorThrown
<1>3. Shape /\ ProtocolInv /\ NoErrorThrown /\ [Next]_vars => NoErrorThrown'
  <2> SUFFICES ASSUME Shape, ProtocolInv, error = "none", [Next]_vars
               PROVE  error' = "none"
    BY DEF NoErrorThrown
  <2>1. Roomy
    BY DEF Roomy
  <2>2. CASE Next
    <3>1. PICK p \in Proc :
            \/ I_Read(p) \/ I_Write(p) \/ S_Write(p) \/ S_Replacement(p)
            \/ M_Replacement(p) \/ L1ReceiveUnordered(p) \/ DirReceiveFrom(p)
      BY <2>2 DEF Next
    <3> QED
      BY <2>1, <3>1, CacheThrowsNothing, DirThrowsNothing DEF DirReceiveFrom
  <2>3. CASE UNCHANGED vars
    BY <2>3 DEF vars
  <2> QED
    BY <2>2, <2>3
<1> QED
  BY <1>1, <1>2, <1>3, PTL DEF Spec
=============================================================================
