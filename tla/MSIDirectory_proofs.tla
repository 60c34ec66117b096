------------------------ MODULE MSIDirectory_proofs ------------------------
(***************************************************************************)
(* Proofs about the MSI directory protocol, for any number of caches.      *)
(***************************************************************************)
EXTENDS MSIDirectory, FiniteSetTheorems, FunctionTheorems, TLAPS

-----------------------------------------------------------------------------
(***************************************************************************)
(* What the channels hold, seen from the caches: the request and the data  *)
(* written back that p has on the way to the directory, the data and the   *)
(* number of acknowledgements announced on the way to p, the caches whose  *)
(* acknowledgements are, and the caches for which an invalidation or a     *)
(* forward is on its way to q.                                             *)
(***************************************************************************)
Requests == {"GetS", "GetM", "PutS", "PutM"}
Asked(p, t) == Message(t, p, 0) \in chan[Dir]
Holds(q, mtype, src) ==
  \E i \in DOMAIN q : q[i].mtype = mtype /\ q[i].src = src

(* The one element of S, or d if there is none.                            *)
The(S, d) == IF S = {} THEN d ELSE CHOOSE x \in S : TRUE

request == [p \in Proc |-> The({t \in Requests : Asked(p, t)}, "none")]
writebacks == {p \in Proc : Asked(p, "Data")}
served == {p \in Proc : \E m \in chan[p] : m.mtype = "Data"}
announced ==
  [p \in Proc |-> The({m.need_acks : m \in Announced(p)}, 0)]
acked == [p \in Proc |-> {q \in Proc : Message("Inv_Ack", q, 0) \in chan[p]}]
Sender(q, mtype) == The({p \in Proc : Holds(fwd_chan[q], mtype, p)}, NoProc)
invalidator == [q \in Proc |-> Sender(q, "Inv")]
fwdS == [q \in Proc |-> Sender(q, "Fwd_GetS")]
fwdM == [q \in Proc |-> Sender(q, "Fwd_GetM")]
putAcked == {p \in Proc : Holds(fwd_chan[p], "Put_Ack", Dir)}

Kind(mtype) == IF mtype \in {"Fwd_GetS", "Fwd_GetM"} THEN "Fwd" ELSE mtype
Distinct(q) ==
  \A i, j \in DOMAIN q : Kind(q[i].mtype) = Kind(q[j].mtype) => i = j
AckLast(q) == \A i \in DOMAIN q : q[i].mtype = "Put_Ack" => i = Len(q)

ChanShape ==
  /\ \A m \in chan[Dir] :
       /\ m.mtype \in Requests \cup {"Data"}
       /\ m.src \in Proc /\ m.need_acks = 0
  /\ \A m, n \in chan[Dir] :
       m.mtype \in Requests /\ n.mtype \in Requests /\ m.src = n.src => m = n
  /\ \A p \in Proc : \A m \in chan[p] :
       /\ m.mtype \in {"Data", "Inv_Ack"}
       /\ m.mtype = "Inv_Ack" \/ m.src # Dir => m.need_acks = 0
       /\ m.mtype = "Inv_Ack" => m.src \in Proc
       /\ \A n \in chan[p] : m.mtype = "Data" /\ n.mtype = "Data" => m = n
QueueShape ==
  \A p \in Proc :
    /\ \A i \in DOMAIN fwd_chan[p] :
         /\ fwd_chan[p][i].mtype \in {"Inv", "Fwd_GetS", "Fwd_GetM",
              "Put_Ack"}
         /\ fwd_chan[p][i].src \in
              IF fwd_chan[p][i].mtype = "Put_Ack" THEN {Dir} ELSE Proc
    /\ Distinct(fwd_chan[p])
    /\ AckLast(fwd_chan[p])

-----------------------------------------------------------------------------
(***************************************************************************)
(* The inductive invariant.                                                *)
(***************************************************************************)
Upgrading == {"IM_AD", "SM_AD"}
Counting == {"IM_A", "SM_A"}
Putting == {"MI_A", "SI_A", "II_A"}
Owning == {"IM_AD", "SM_AD", "IM_A", "SM_A", "M", "MI_A"}

(* Who has the line to itself, apart from copies that are being invalidated.*)
Holders ==
  {p \in Proc :
     \/ l1_state[p] \in {"M"} \cup Counting
     \/ l1_state[p] = "MI_A" /\ (fwdS[p] # NoProc \/ fwdM[p] # NoProc
                                 \/ p \notin putAcked)
     \/ l1_state[p] \in Upgrading /\ p \in served}

(* Who has a copy to read, or is about to receive it.                      *)
Readers ==
  {p \in Proc : l1_state[p] = "S" \/ (l1_state[p] = "IS_D" /\ p \in served)}

(* Who waits for acknowledgements, and from whom they are still to come.   *)
Waiting ==
  {p \in Proc :
     \/ l1_state[p] \in Counting
     \/ l1_state[p] \in Upgrading /\ announced[p] # 0}
pending == [p \in Proc |-> {q \in Proc : invalidator[q] = p} \cup acked[p]]

(* A request is in the channel only in the states that wait for its answer.*)
RequestInv ==
  \A p \in Proc :
    /\ request[p] = "GetS" => l1_state[p] = "IS_D"
    /\ request[p] = "GetM" => l1_state[p] \in Upgrading
    /\ request[p] = "PutS" => l1_state[p] \in {"SI_A", "II_A"}
    /\ request[p] = "PutM" => l1_state[p] \in Putting
    /\ request[p] \in {"GetS", "GetM"} =>
         /\ p \notin served /\ fwdS[p] = NoProc /\ fwdM[p] = NoProc
         /\ \A q \in Proc : fwdS[q] # p /\ fwdM[q] # p
         /\ ~ (dir_state = "M" /\ owner = p)
    /\ request[p] \in {"PutS", "PutM"} => p \notin putAcked

(* Data is under way only to a cache that waits for it.                    *)
DataInv ==
  \A p \in Proc :
    /\ p \in served => l1_state[p] \in {"IS_D"} \cup Upgrading
    /\ announced[p] # 0 => p \in served /\ l1_state[p] # "IS_D"

(* A forward goes to the owner-to-be of the line, on behalf of one cache   *)
(* that waits for it; only one read is being forwarded at a time.          *)
ForwardInv ==
  /\ \A q, r \in Proc :
       /\ fwdS[q] = r => /\ l1_state[r] = "IS_D" /\ dir_state = "S_D"
                         /\ writebacks = {} /\ r \in sharers
                         /\ q \in sharers \/ l1_state[q] = "MI_A"
       /\ fwdM[q] = r => /\ l1_state[r] \in Upgrading
                         /\ r \in sharers => fwdS[r] # NoProc
       /\ fwdS[q] = r \/ fwdM[q] = r => /\ r \notin served /\ r # q
                                        /\ l1_state[q] \in Owning
  /\ \A q, u, r \in Proc : fwdM[q] = r /\ fwdM[u] = r => q = u
  /\ \A q, u \in Proc : fwdS[q] # NoProc /\ fwdS[u] # NoProc => q = u

(* A cache whose Put is acknowledged is forgotten by the directory.        *)
PutAckInv ==
  \A p \in putAcked : /\ l1_state[p] \in Putting
                      /\ ~ (dir_state = "M" /\ owner = p)
                      /\ p \notin sharers

(* The directory's state agrees with what it knows.                        *)
DirectoryInv ==
  /\ dir_state = "M" => /\ owner \in Proc /\ l1_state[owner] \in Owning
                        /\ fwdS[owner] = NoProc /\ fwdM[owner] = NoProc
  /\ dir_state \in {"I", "M"} => sharers = {}
  /\ writebacks # {} => dir_state = "S_D"
  /\ \A p, q \in writebacks : p = q

(* A sharer has a copy, gave it up and said so, or is about to be served.  *)
SharerInv ==
  \A q \in sharers :
    \/ fwdS[q] # NoProc
    \/ /\ invalidator[q] = NoProc
       /\ \/ l1_state[q] \in {"S", "SM_AD", "SI_A"} /\ q \notin Holders
          \/ /\ l1_state[q] = "IS_D"
             /\ q \in served \/ \E x \in Proc : fwdS[x] = q

(* There is one holder at most, none while the directory has the line, and *)
(* the directory knows it, or has sent a forward to it.                    *)
HolderInv ==
  /\ \A p, q \in Holders : p = q
  /\ dir_state \in {"I", "S"} \/ writebacks # {} => Holders = {}
  /\ \A p \in Proc : p \in Holders \/ (\E q \in Proc : fwdM[q] = p) =>
       \/ dir_state = "M" /\ owner = p
       \/ fwdS[p] # NoProc
       \/ fwdM[p] # NoProc

(* Other copies are being invalidated for the holder; the directory knows  *)
(* the rest.                                                               *)
ReaderInv ==
  /\ \A p \in Holders, q \in Readers : p # q => invalidator[q] = p
  /\ \A q \in Readers : \/ dir_state \in {"S", "S_D"} /\ q \in sharers
                        \/ invalidator[q] # NoProc

(* Invalidations are sent for a cache that waits for them, to caches that  *)
(* have a copy to give up.                                                 *)
InvalidationInv ==
  /\ \A p \in Proc : pending[p] # {} => p \in Waiting
  /\ \A p, q \in Proc : invalidator[q] = p => q # p /\ q \notin acked[p]
  /\ \A p \in Proc : p \notin acked[p]
  /\ \A q \in Proc : invalidator[q] # NoProc =>
       \/ l1_state[q] \in {"S", "SM_AD", "SI_A"}
       \/ l1_state[q] = "IS_D" /\ q \in served

(* The acknowledgements counted and announced are those that are pending.  *)
CountInv ==
  \A p \in Proc :
    /\ need_acks[p] + announced[p] = Cardinality(pending[p])
    /\ l1_state[p] \in Upgrading => need_acks[p] <= 0

ProtocolInv ==
  /\ RequestInv /\ DataInv /\ ForwardInv /\ PutAckInv /\ DirectoryInv
  /\ SharerInv /\ HolderInv /\ ReaderInv /\ InvalidationInv /\ CountInv

-----------------------------------------------------------------------------
(***************************************************************************)
(* Queues.                                                                 *)
(***************************************************************************)

(* A message at the end of a queue is held from then on.                   *)
LEMMA AppendHolds ==
  ASSUME NEW q \in Seq(Msg), NEW m \in Msg, NEW t, NEW s
  PROVE  Holds(Append(q, m), t, s) <=> Holds(q, t, s)
           \/ (m.mtype = t /\ m.src = s)
<1>1. DOMAIN Append(q, m) = 1 .. Len(q) + 1 /\ DOMAIN q = 1 .. Len(q)
        /\ Len(q) \in Nat
  OBVIOUS
<1>2. \A i \in 1 .. Len(q) : Append(q, m)[i] = q[i]
  OBVIOUS
<1>3. Append(q, m)[Len(q) + 1] = m
  OBVIOUS
<1>4. \A i \in 1 .. Len(q) + 1 : i \in 1 .. Len(q) \/ i = Len(q) + 1
  BY <1>1
<1>5. Holds(q, t, s) => Holds(Append(q, m), t, s)
  BY <1>1, <1>2 DEF Holds
<1>6. m.mtype = t /\ m.src = s => Holds(Append(q, m), t, s)
  BY <1>1, <1>3 DEF Holds
<1>7. Holds(Append(q, m), t, s) => Holds(q, t, s)
        \/ (m.mtype = t /\ m.src = s)
  BY <1>1, <1>2, <1>3, <1>4 DEF Holds
<1> QED
  BY <1>5, <1>6, <1>7

(* A queue that holds nothing of the kind of a message, and no Put_Ack,    *)
(* may be extended by it.                                                  *)
LEMMA AppendShape ==
  ASSUME NEW q \in Seq(Msg), NEW m \in Msg, Distinct(q), AckLast(q),
         \A t, s : Holds(q, t, s) => Kind(t) # Kind(m.mtype) /\ t # "Put_Ack"
  PROVE  Distinct(Append(q, m)) /\ AckLast(Append(q, m))
<1>1. DOMAIN Append(q, m) = 1 .. Len(q) + 1 /\ DOMAIN q = 1 .. Len(q)
        /\ Len(q) \in Nat
      /\ Len(Append(q, m)) = Len(q) + 1
  OBVIOUS
<1>2. \A i \in 1 .. Len(q) : Append(q, m)[i] = q[i]
  OBVIOUS
<1>3. Append(q, m)[Len(q) + 1] = m
  OBVIOUS
<1>4. \A i \in 1 .. Len(q) + 1 : i \in 1 .. Len(q) \/ i = Len(q) + 1
  BY <1>1
<1>5. \A i \in 1 .. Len(q) : Kind(q[i].mtype) # Kind(m.mtype)
        /\ q[i].mtype # "Put_Ack"
  BY <1>1 DEF Holds
<1>6. Distinct(Append(q, m))
  BY <1>1, <1>2, <1>3, <1>4, <1>5 DEF Distinct
<1>7. AckLast(Append(q, m))
  BY <1>1, <1>2, <1>3, <1>4, <1>5 DEF AckLast
<1> QED
  BY <1>6, <1>7

(* Taking the head leaves what is of another kind.                         *)
LEMMA TailHolds ==
  ASSUME NEW q \in Seq(Msg), q # <<>>, Distinct(q), AckLast(q)
  PROVE  /\ Tail(q) \in Seq(Msg) /\ Head(q) \in Msg
         /\ Distinct(Tail(q)) /\ AckLast(Tail(q))
         /\ Holds(q, Head(q).mtype, Head(q).src)
         /\ \A t, s : Holds(Tail(q), t, s)
                       <=> Holds(q, t, s) /\ Kind(t) # Kind(Head(q).mtype)
         /\ Head(q).mtype = "Put_Ack" => \A t, s : ~ Holds(Tail(q), t, s)
         /\ \A i \in DOMAIN Tail(q) : i + 1 \in DOMAIN q
              /\ Tail(q)[i] = q[i + 1]
<1>1. /\ Len(q) \in Nat /\ Len(q) >= 1 /\ DOMAIN q = 1 .. Len(q)
      /\ DOMAIN Tail(q) = 1 .. Len(q) - 1 /\ Len(Tail(q)) = Len(q) - 1
      /\ Tail(q) \in Seq(Msg) /\ Head(q) = q[1] /\ Head(q) \in Msg
  OBVIOUS
<1>2. \A i \in 1 .. Len(q) - 1 : i + 1 \in 1 .. Len(q)
        /\ Tail(q)[i] = q[i + 1]
  BY <1>1
<1>3. Distinct(Tail(q))
  <2> SUFFICES ASSUME NEW i \in 1 .. Len(q) - 1, NEW j \in 1 .. Len(q) - 1,
                      Kind(Tail(q)[i].mtype) = Kind(Tail(q)[j].mtype)
               PROVE  i = j
    BY <1>1 DEF Distinct
  <2>1. i + 1 = j + 1
    BY <1>1, <1>2 DEF Distinct
  <2> QED
    BY <1>1, <2>1
<1>4. AckLast(Tail(q))
  <2> SUFFICES ASSUME NEW i \in 1 .. Len(q) - 1, Tail(q)[i].mtype = "Put_Ack"
               PROVE  i = Len(q) - 1
    BY <1>1 DEF AckLast
  <2>1. i + 1 = Len(q)
    BY <1>1, <1>2 DEF AckLast
  <2>2. i \in Nat /\ Len(q) \in Nat
    BY <1>1
  <2> QED
    BY <2>1, <2>2
<1>5. ASSUME NEW t, NEW s, Holds(Tail(q), t, s)
      PROVE  Holds(q, t, s) /\ Kind(t) # Kind(Head(q).mtype)
  <2>1. PICK i \in 1 .. Len(q) - 1 : Tail(q)[i].mtype = t
               /\ Tail(q)[i].src = s
    BY <1>1, <1>5 DEF Holds
  <2>2. q[i + 1].mtype = t /\ q[i + 1].src = s /\ i + 1 \in DOMAIN q
          /\ i + 1 # 1
    BY <1>1, <1>2, <2>1
  <2>3. Kind(q[i + 1].mtype) # Kind(q[1].mtype)
    BY <1>1, <2>2 DEF Distinct
  <2> QED
    BY <1>1, <2>2, <2>3 DEF Holds
<1>6. ASSUME NEW t, NEW s, Holds(q, t, s), Kind(t) # Kind(Head(q).mtype)
      PROVE  Holds(Tail(q), t, s)
  <2>1. PICK i \in 1 .. Len(q) : q[i].mtype = t /\ q[i].src = s
    BY <1>1, <1>6 DEF Holds
  <2>2. i # 1
    BY <1>1, <1>6, <2>1
  <2>3. i - 1 \in 1 .. Len(q) - 1 /\ (i - 1) + 1 = i
    BY <1>1, <2>2
  <2>4. Tail(q)[i - 1] = q[i]
    BY <1>2, <2>3
  <2> QED
    BY <1>1, <2>1, <2>3, <2>4 DEF Holds
<1>7. Head(q).mtype = "Put_Ack" => Len(q) = 1
  BY <1>1 DEF AckLast
<1>8. Head(q).mtype = "Put_Ack" => \A t, s : ~ Holds(Tail(q), t, s)
  BY <1>1, <1>7 DEF Holds
<1>9. Holds(q, Head(q).mtype, Head(q).src)
  BY <1>1 DEF Holds
<1> QED
  BY <1>1, <1>2, <1>3, <1>4, <1>5, <1>6, <1>8, <1>9

-----------------------------------------------------------------------------
(***************************************************************************)
(* What a step does to the contents of the channels.                       *)
(***************************************************************************)

(* The channels after `out' was sent and `got' was taken from n.           *)
LEMMA Sent ==
  ASSUME NEW out, NEW n, NEW got, Send(out, n, got)
  PROVE  /\ chan' = [k \in Node |-> chan'[k]]
         /\ \A k \in Node : \A m : m \in chan'[k] <=>
              /\ m \in chan[k] \/ \E x \in out : x.dst = k /\ x.msg = m
              /\ ~ (k = n /\ m \in got)
BY DEF Send, Delivered

(* The fields of an envelope.                                              *)
LEMMA Envelope ==
  \A n, t, s, a : To(n, t, s, a).dst = n
    /\ To(n, t, s, a).msg = Message(t, s, a)
BY DEF To

(* Different messages differ in a field, and a message is its fields.      *)
LEMMA MessageFields ==
  /\ \A t, s, a, u, r, b :
       Message(t, s, a) = Message(u, r, b) <=> t = u /\ s = r /\ a = b
  /\ \A t, s, a : /\ Message(t, s, a).mtype = t /\ Message(t, s, a).src = s
                  /\ Message(t, s, a).need_acks = a
  /\ \A m \in Msg : m = Message(m.mtype, m.src, m.need_acks)
  /\ \A t \in MsgType, s \in Node, a \in Nat : Message(t, s, a) \in Msg
BY DEF Message, Msg

-----------------------------------------------------------------------------
(***************************************************************************)
(* How each kind of step preserves the invariant.                          *)
(***************************************************************************)
ViewOK ==
  /\ request \in [Proc -> Requests \cup {"none"}]
  /\ announced \in [Proc -> Nat]
  /\ acked \in [Proc -> SUBSET Proc]
  /\ invalidator \in [Proc -> Proc \cup {NoProc}]
  /\ fwdS \in [Proc -> Proc \cup {NoProc}]
  /\ fwdM \in [Proc -> Proc \cup {NoProc}]
  /\ writebacks \in SUBSET Proc
  /\ served \in SUBSET Proc
  /\ putAcked \in SUBSET Proc
  /\ l1_state \in [Proc -> L1State]
  /\ need_acks \in [Proc -> Int]
  /\ dir_state \in DirState
  /\ sharers \in SUBSET Proc
  /\ NoProc \notin Proc

(* There are finitely many caches to wait for, or to invalidate.           *)
LEMMA CachesFinite ==
  ASSUME NEW S \in SUBSET Proc
  PROVE  /\ IsFiniteSet(S) /\ Cardinality(S) \in Nat
         /\ Cardinality(S) = 0 <=> S = {}
<1>1. IsFiniteSet(S)
  BY NodeAssumption, FS_Subset
<1> QED
  BY <1>1, FS_CardinalityType, FS_EmptySet

(* The caches a writer waits for are finitely many.                        *)
LEMMA PendingCaches ==
  ASSUME ViewOK, NEW p \in Proc
  PROVE  /\ pending[p] \in SUBSET Proc
         /\ IsFiniteSet(pending[p]) /\ Cardinality(pending[p]) \in Nat
         /\ Cardinality(pending[p]) = 0 <=> pending[p] = {}
<1>1. pending[p] \in SUBSET Proc
  BY DEF pending, ViewOK
<1> QED
  BY <1>1, CachesFinite

(* A cache asks the directory.                                             *)
Asks(p, t, to) ==
  /\ \/ l1_state[p] = "I" /\ t = "GetS" /\ to = "IS_D"
     \/ l1_state[p] = "I" /\ t = "GetM" /\ to = "IM_AD"
     \/ l1_state[p] = "S" /\ t = "GetM" /\ to = "SM_AD"
     \/ l1_state[p] = "S" /\ t = "PutS" /\ to = "SI_A"
     \/ l1_state[p] = "M" /\ t = "PutM" /\ to = "MI_A"
  /\ request' = [request EXCEPT ![p] = t]
  /\ l1_state' = [l1_state EXCEPT ![p] = to]
  /\ UNCHANGED <<writebacks, served, announced, acked, invalidator,
                 fwdS, fwdM, putAcked, need_acks, dir_state, owner,
                 sharers>>

(* A cache in a stable state has nothing under way but an invalidation.    *)
LEMMA AsksPreserves ==
  ASSUME ViewOK, ProtocolInv, NEW p \in Proc, NEW t, NEW to, Asks(p, t, to)
  PROVE  ProtocolInv'
<1> USE DEF ViewOK
<1>1. \/ l1_state[p] = "I" /\ t = "GetS" /\ to = "IS_D"
      \/ l1_state[p] = "I" /\ t = "GetM" /\ to = "IM_AD"
      \/ l1_state[p] = "S" /\ t = "GetM" /\ to = "SM_AD"
      \/ l1_state[p] = "S" /\ t = "PutS" /\ to = "SI_A"
      \/ l1_state[p] = "M" /\ t = "PutM" /\ to = "MI_A"
  BY DEF Asks
<1>2. /\ request'[p] = t
      /\ \A x \in Proc : x # p => request'[x] = request[x]
      /\ l1_state'[p] = to
      /\ \A x \in Proc : x # p => l1_state'[x] = l1_state[x]
      /\ UNCHANGED <<writebacks, served, announced, acked, invalidator,
                     fwdS, fwdM, putAcked, need_acks, dir_state, owner,
                     sharers>>
  BY DEF Asks
<1>3. /\ request[p] = "none" /\ p \notin served /\ p \notin putAcked
      /\ announced[p] = 0
      /\ l1_state[p] # "M" => fwdS[p] = NoProc /\ fwdM[p] = NoProc
           /\ ~ (dir_state = "M" /\ owner = p)
      /\ \A q \in Proc : fwdS[q] # p /\ fwdM[q] # p
  <2>1. request[p] = "none"
    BY <1>1 DEF ProtocolInv, RequestInv, Upgrading, Putting, Requests
  <2>2. p \notin served /\ announced[p] = 0
    BY <1>1 DEF ProtocolInv, DataInv, Upgrading
  <2>3. p \notin putAcked
    BY <1>1 DEF ProtocolInv, PutAckInv, Putting
  <2>4. l1_state[p] # "M" => fwdS[p] = NoProc /\ fwdM[p] = NoProc
    BY <1>1 DEF ProtocolInv, ForwardInv, Owning
  <2>5. l1_state[p] # "M" => ~ (dir_state = "M" /\ owner = p)
    BY <1>1 DEF ProtocolInv, DirectoryInv, Owning
  <2>6. \A q \in Proc : fwdS[q] # p /\ fwdM[q] # p
    BY <1>1 DEF ProtocolInv, ForwardInv, Upgrading
  <2> QED
    BY <2>1, <2>2, <2>3, <2>4, <2>5, <2>6
<1>4. /\ l1_state[p] # "S" => invalidator[p] = NoProc
      /\ pending[p] = {}
  BY <1>1, <1>2, <1>3
     DEF ProtocolInv, InvalidationInv, Waiting, Upgrading, Counting
<1>5. Holders' = Holders
  BY <1>1, <1>2, <1>3, <1>4 DEF Holders, Upgrading, Counting, Putting
<1>6. Readers' = Readers \ {p}
  BY <1>1, <1>2, <1>3, <1>4 DEF Readers, Upgrading, Counting, Putting
<1>7. Waiting' = Waiting
  BY <1>1, <1>2, <1>3, <1>4 DEF Waiting, Upgrading, Counting, Putting
<1>8. pending' = pending
  BY <1>1, <1>2, <1>3, <1>4 DEF pending
<1>9. RequestInv'
  BY <1>1, <1>2, <1>3, <1>4 DEF ProtocolInv, RequestInv, Upgrading, Putting
<1>10. DataInv'
  BY <1>1, <1>2, <1>3, <1>4 DEF ProtocolInv, DataInv, Upgrading
<1>11. ForwardInv'
  BY <1>1, <1>2, <1>3, <1>4 DEF ProtocolInv, ForwardInv, Upgrading, Owning
<1>12. PutAckInv'
  BY <1>1, <1>2, <1>3, <1>4 DEF ProtocolInv, PutAckInv, Putting
<1>13. DirectoryInv'
  BY <1>1, <1>2, <1>3, <1>4 DEF ProtocolInv, DirectoryInv, Owning
<1>14. SharerInv'
  BY <1>1, <1>2, <1>3, <1>4, <1>5 DEF ProtocolInv, SharerInv
<1>15. HolderInv'
  BY <1>1, <1>2, <1>3, <1>4, <1>5 DEF ProtocolInv, HolderInv
<1>16. ReaderInv'
  BY <1>1, <1>2, <1>3, <1>4, <1>5, <1>6 DEF ProtocolInv, ReaderInv
<1>17. InvalidationInv'
  BY <1>1, <1>2, <1>3, <1>4, <1>7, <1>8 DEF ProtocolInv, InvalidationInv
<1>18. CountInv'
  <2>1. need_acks[p] = 0
    BY <1>3, <1>4, PendingCaches DEF ProtocolInv, CountInv
  <2> QED
    BY <1>1, <1>2, <1>8, <2>1 DEF ProtocolInv, CountInv, Upgrading
<1> QED
  BY <1>9, <1>10, <1>11, <1>12, <1>13, <1>14, <1>15, <1>16, <1>17, <1>18
     DEF ProtocolInv

(* A cache gives its copy up and acknowledges the invalidation.            *)
Invalidates(p, s, to) ==
  /\ invalidator[p] = s
  /\ \/ l1_state[p] = "S" /\ to = "I"
     \/ l1_state[p] = "SM_AD" /\ to = "IM_AD"
     \/ l1_state[p] = "SI_A" /\ to = "II_A"
  /\ invalidator' = [invalidator EXCEPT ![p] = NoProc]
  /\ acked' = [acked EXCEPT ![s] = @ \cup {p}]
  /\ l1_state' = [l1_state EXCEPT ![p] = to]
  /\ UNCHANGED <<request, writebacks, served, announced, fwdS, fwdM,
                 putAcked, need_acks, dir_state, owner, sharers>>

(* An invalidation becomes an acknowledgement: the writer still waits.     *)
LEMMA InvalidatesPreserves ==
  ASSUME ViewOK, ProtocolInv, NEW p \in Proc, NEW s \in Proc, NEW to,
         Invalidates(p, s, to)
  PROVE  ProtocolInv'
<1> USE DEF ViewOK
<1>1. /\ invalidator[p] = s
      /\ \/ l1_state[p] = "S" /\ to = "I"
         \/ l1_state[p] = "SM_AD" /\ to = "IM_AD"
         \/ l1_state[p] = "SI_A" /\ to = "II_A"
  BY DEF Invalidates
<1>2. /\ invalidator'[p] = NoProc
      /\ \A x \in Proc : x # p => invalidator'[x] = invalidator[x]
      /\ acked'[s] = acked[s] \cup {p}
      /\ \A x \in Proc : x # s => acked'[x] = acked[x]
      /\ l1_state'[p] = to
      /\ \A x \in Proc : x # p => l1_state'[x] = l1_state[x]
      /\ UNCHANGED <<request, writebacks, served, announced, fwdS, fwdM,
                     putAcked, need_acks, dir_state, owner, sharers>>
  BY DEF Invalidates
<1>3. /\ s # p
      /\ p \in sharers => fwdS[p] # NoProc
      /\ p \in Holders => l1_state[p] = "SM_AD" /\ p \in served
      /\ ~ (p \in Readers' )
  BY <1>1, <1>2
     DEF ProtocolInv, InvalidationInv, SharerInv, Holders, Readers, Counting,
         Upgrading
<1>4. Holders' = Holders
  BY <1>1, <1>2, <1>3 DEF Holders, Upgrading, Counting, Putting
<1>5. Readers' = Readers \ {p}
  BY <1>1, <1>2, <1>3 DEF Readers, Upgrading, Counting, Putting
<1>6. Waiting' = Waiting
  BY <1>1, <1>2, <1>3 DEF Waiting, Upgrading, Counting, Putting
<1>7. pending' = pending
  BY <1>1, <1>2, <1>3 DEF pending
<1>8. RequestInv'
  BY <1>1, <1>2, <1>3 DEF ProtocolInv, RequestInv, Upgrading, Putting
<1>9. DataInv'
  BY <1>1, <1>2, <1>3 DEF ProtocolInv, DataInv, Upgrading
<1>10. ForwardInv'
  BY <1>1, <1>2, <1>3 DEF ProtocolInv, ForwardInv, Upgrading, Owning
<1>11. PutAckInv'
  BY <1>1, <1>2, <1>3 DEF ProtocolInv, PutAckInv, Putting
<1>12. DirectoryInv'
  BY <1>1, <1>2, <1>3 DEF ProtocolInv, DirectoryInv, Owning
<1>13. SharerInv'
  BY <1>1, <1>2, <1>3, <1>4 DEF ProtocolInv, SharerInv
<1>14. HolderInv'
  BY <1>1, <1>2, <1>3, <1>4 DEF ProtocolInv, HolderInv
<1>15. ReaderInv'
  <2>1. \A x \in Proc : x \in Readers' => x \in Readers
          /\ invalidator'[x] = invalidator[x]
    BY <1>2, <1>5
  <2> QED
    BY <1>2, <1>4, <1>5, <2>1 DEF ProtocolInv, ReaderInv, Readers
<1>16. InvalidationInv'
  BY <1>1, <1>2, <1>3, <1>6, <1>7 DEF ProtocolInv, InvalidationInv
<1>17. CountInv'
  BY <1>1, <1>2, <1>3, <1>7 DEF ProtocolInv, CountInv, Upgrading
<1> QED
  BY <1>8, <1>9, <1>10, <1>11, <1>12, <1>13, <1>14, <1>15, <1>16, <1>17
     DEF ProtocolInv

(* A reader gets its data.                                                 *)
ReadsData(p) ==
  /\ p \in served /\ l1_state[p] = "IS_D"
  /\ served' = served \ {p}
  /\ announced' = [announced EXCEPT ![p] = 0]
  /\ l1_state' = [l1_state EXCEPT ![p] = "S"]
  /\ UNCHANGED <<request, writebacks, acked, invalidator, fwdS, fwdM,
                 putAcked, need_acks, dir_state, owner, sharers>>

(* It was counted as a reader since the data was sent.                     *)
LEMMA ReadsDataPreserves ==
  ASSUME ViewOK, ProtocolInv, NEW p \in Proc, ReadsData(p)
  PROVE  ProtocolInv'
<1> USE DEF ViewOK
<1>1. p \in served /\ l1_state[p] = "IS_D"
  BY DEF ReadsData
<1>2. /\ served' = served \ {p}
      /\ announced'[p] = 0
      /\ \A x \in Proc : x # p => announced'[x] = announced[x]
      /\ l1_state'[p] = "S"
      /\ \A x \in Proc : x # p => l1_state'[x] = l1_state[x]
      /\ UNCHANGED <<request, writebacks, acked, invalidator, fwdS, fwdM,
                     putAcked, need_acks, dir_state, owner, sharers>>
  BY DEF ReadsData
<1>3. /\ announced[p] = 0
      /\ announced' = announced
      /\ request[p] = "none" /\ p \notin putAcked
      /\ \A q \in Proc : fwdS[q] # p /\ fwdM[q] # p
      /\ p \notin Holders /\ p \notin Waiting
  <2>1. announced[p] = 0
    BY <1>1 DEF ProtocolInv, DataInv
  <2>2. announced' = announced
    BY <2>1 DEF ReadsData
  <2>3. request[p] = "none" /\ p \notin putAcked
    BY <1>1 DEF ProtocolInv, RequestInv, PutAckInv, Upgrading, Putting,
      Requests
  <2>4. \A q \in Proc : fwdS[q] # p /\ fwdM[q] # p
    BY <1>1 DEF ProtocolInv, ForwardInv
  <2>5. p \notin Holders /\ p \notin Waiting
    BY <1>1 DEF Holders, Waiting, Upgrading, Counting
  <2> QED
    BY <2>1, <2>2, <2>3, <2>4, <2>5
<1>4. Holders' = Holders
  BY <1>1, <1>2, <1>3 DEF Holders, Upgrading, Counting, Putting
<1>5. Readers' = Readers
  BY <1>1, <1>2, <1>3 DEF Readers, Upgrading, Counting, Putting
<1>6. Waiting' = Waiting
  BY <1>1, <1>2, <1>3 DEF Waiting, Upgrading, Counting, Putting
<1>7. pending' = pending
  BY <1>1, <1>2, <1>3 DEF pending
<1>8. RequestInv'
  BY <1>1, <1>2, <1>3 DEF ProtocolInv, RequestInv, Upgrading, Putting
<1>9. DataInv'
  BY <1>1, <1>2, <1>3 DEF ProtocolInv, DataInv, Upgrading
<1>10. ForwardInv'
  BY <1>1, <1>2, <1>3 DEF ProtocolInv, ForwardInv, Upgrading, Owning
<1>11. PutAckInv'
  BY <1>1, <1>2, <1>3 DEF ProtocolInv, PutAckInv, Putting
<1>12. DirectoryInv'
  BY <1>1, <1>2, <1>3 DEF ProtocolInv, DirectoryInv, Owning
<1>13. SharerInv'
  BY <1>1, <1>2, <1>3, <1>4 DEF ProtocolInv, SharerInv
<1>14. HolderInv'
  BY <1>1, <1>2, <1>3, <1>4 DEF ProtocolInv, HolderInv
<1>15. ReaderInv'
  BY <1>1, <1>2, <1>3, <1>4, <1>5 DEF ProtocolInv, ReaderInv
<1>16. InvalidationInv'
  BY <1>1, <1>2, <1>3, <1>6, <1>7 DEF ProtocolInv, InvalidationInv
<1>17. CountInv'
  BY <1>1, <1>2, <1>3, <1>7 DEF ProtocolInv, CountInv, Upgrading
<1> QED
  BY <1>8, <1>9, <1>10, <1>11, <1>12, <1>13, <1>14, <1>15, <1>16, <1>17
     DEF ProtocolInv

(* A writer gets its data, and with it the number of acknowledgements      *)
(* to come if it is the directory that grants M.                           *)
WritesData(p, to) ==
  /\ p \in served /\ l1_state[p] \in Upgrading
  /\ IF announced[p] = 0 \/ need_acks[p] + announced[p] = 0 THEN to = "M"
                                            ELSE to \in Counting
  /\ served' = served \ {p}
  /\ announced' = [announced EXCEPT ![p] = 0]
  /\ l1_state' = [l1_state EXCEPT ![p] = to]
  /\ need_acks' = [need_acks EXCEPT ![p] = @ + announced[p]]
  /\ UNCHANGED <<request, writebacks, acked, invalidator, fwdS, fwdM,
                 putAcked, dir_state, owner, sharers>>

(* It has the line already; it is modified when no invalidation is left.   *)
LEMMA WritesDataPreserves ==
  ASSUME ViewOK, ProtocolInv, NEW p \in Proc, NEW to, WritesData(p, to)
  PROVE  ProtocolInv'
<1> USE DEF ViewOK
<1>1. /\ p \in served /\ l1_state[p] \in Upgrading
      /\ IF announced[p] = 0 \/ need_acks[p] + announced[p] = 0 THEN to = "M"
                                                ELSE to \in Counting
  BY DEF WritesData
<1>2. /\ served' = served \ {p}
      /\ announced'[p] = 0
      /\ \A x \in Proc : x # p => announced'[x] = announced[x]
      /\ l1_state'[p] = to
      /\ \A x \in Proc : x # p => l1_state'[x] = l1_state[x]
      /\ need_acks'[p] = need_acks[p] + announced[p]
      /\ \A x \in Proc : x # p => need_acks'[x] = need_acks[x]
      /\ UNCHANGED <<request, writebacks, acked, invalidator, fwdS, fwdM,
                     putAcked, dir_state, owner, sharers>>
  BY DEF WritesData
<1>3. /\ need_acks[p] + announced[p] = Cardinality(pending[p])
      /\ announced[p] = 0 => pending[p] = {}
      /\ to = "M" \/ to \in Counting
      /\ to = "M" <=> pending[p] = {}
  <2>1. need_acks[p] + announced[p] = Cardinality(pending[p])
    BY DEF ProtocolInv, CountInv
  <2>2. announced[p] = 0 => p \notin Waiting
    BY <1>1 DEF Waiting, Upgrading, Counting
  <2>3. announced[p] = 0 => pending[p] = {}
    BY <2>2 DEF ProtocolInv, InvalidationInv
  <2>4. "M" \notin Counting
    BY DEF Counting
  <2> QED
    BY <1>1, <2>1, <2>3, <2>4, PendingCaches
<1>4. /\ p \in Holders /\ \A x \in Holders : x = p
      /\ invalidator[p] = NoProc
      /\ p \in sharers => fwdS[p] # NoProc
      /\ request[p] = "none" /\ p \notin putAcked
      /\ \A q \in Proc : fwdS[q] # p /\ fwdM[q] # p
      /\ p \notin Readers
  <2>1. p \in Holders /\ p \notin Readers
    BY <1>1 DEF Holders, Readers, Upgrading
  <2>2. \A x \in Holders : x = p
    BY <2>1 DEF ProtocolInv, HolderInv
  <2>3. p \in sharers => fwdS[p] # NoProc
    BY <1>1, <2>1 DEF ProtocolInv, SharerInv, Upgrading
  <2>4. invalidator[p] = NoProc
    <3> SUFFICES ASSUME invalidator[p] # NoProc PROVE FALSE
      OBVIOUS
    <3>1. PICK s \in Proc : s = invalidator[p]
      OBVIOUS
    <3>2. s # p /\ p \in pending[s]
      BY <3>1 DEF ProtocolInv, InvalidationInv, pending
    <3>3. s \in Waiting
      BY <3>2 DEF ProtocolInv, InvalidationInv
    <3>4. s \in Holders
      BY <3>3 DEF Waiting, Holders, ProtocolInv, DataInv
    <3> QED
      BY <2>2, <3>2, <3>4
  <2>5. request[p] = "none" /\ p \notin putAcked
    BY <1>1 DEF ProtocolInv, RequestInv, PutAckInv, Putting, Upgrading,
      Requests
  <2>6. \A q \in Proc : fwdS[q] # p /\ fwdM[q] # p
    BY <1>1 DEF ProtocolInv, ForwardInv
  <2> QED
    BY <2>1, <2>2, <2>3, <2>4, <2>5, <2>6
<1>5. Holders' = Holders
  BY <1>1, <1>2, <1>3, <1>4 DEF Holders, Upgrading, Counting, Putting
<1>6. Readers' = Readers
  BY <1>1, <1>2, <1>3, <1>4 DEF Readers, Upgrading, Counting, Putting
<1>7. Waiting' = IF to = "M" THEN Waiting \ {p} ELSE Waiting
  BY <1>1, <1>2, <1>3, <1>4 DEF Waiting, Upgrading, Counting, Putting
<1>8. pending' = pending
  BY <1>1, <1>2, <1>3, <1>4 DEF pending
<1>9. RequestInv'
  BY <1>1, <1>2, <1>3, <1>4
     DEF ProtocolInv, RequestInv, Upgrading, Counting, Putting
<1>10. DataInv'
  BY <1>1, <1>2, <1>3, <1>4 DEF ProtocolInv, DataInv, Upgrading, Counting
<1>11. ForwardInv'
  BY <1>1, <1>2, <1>3, <1>4
     DEF ProtocolInv, ForwardInv, Upgrading, Counting, Owning
<1>12. PutAckInv'
  BY <1>1, <1>2, <1>3, <1>4
     DEF ProtocolInv, PutAckInv, Upgrading, Counting, Putting
<1>13. DirectoryInv'
  BY <1>1, <1>2, <1>3, <1>4
     DEF ProtocolInv, DirectoryInv, Upgrading, Counting, Owning
<1>14. SharerInv'
  BY <1>1, <1>2, <1>3, <1>4, <1>5
     DEF ProtocolInv, SharerInv, Upgrading, Counting
<1>15. HolderInv'
  BY <1>1, <1>2, <1>3, <1>4, <1>5
     DEF ProtocolInv, HolderInv, Upgrading, Counting
<1>16. ReaderInv'
  BY <1>1, <1>2, <1>3, <1>4, <1>5, <1>6
     DEF ProtocolInv, ReaderInv, Upgrading, Counting
<1>17. InvalidationInv'
  BY <1>1, <1>2, <1>3, <1>4, <1>7, <1>8
     DEF ProtocolInv, InvalidationInv, Upgrading, Counting
<1>18. CountInv'
  BY <1>1, <1>2, <1>3, <1>4, <1>8
     DEF ProtocolInv, CountInv, Upgrading, Counting
<1> QED
  BY <1>9, <1>10, <1>11, <1>12, <1>13, <1>14, <1>15, <1>16, <1>17, <1>18
     DEF ProtocolInv

(* A writer counts an acknowledgement.                                     *)
CountsAck(p, q, to) ==
  /\ q \in acked[p] /\ l1_state[p] \in Upgrading \cup Counting
  /\ to = IF need_acks[p] - 1 = 0 /\ l1_state[p] # "SM_AD" THEN "M"
                                                   ELSE l1_state[p]
  /\ acked' = [acked EXCEPT ![p] = @ \ {q}]
  /\ l1_state' = [l1_state EXCEPT ![p] = to]
  /\ need_acks' = [need_acks EXCEPT ![p] = @ - 1]
  /\ UNCHANGED <<request, writebacks, served, announced, invalidator,
                 fwdS, fwdM, putAcked, dir_state, owner, sharers>>

(* With the last one no reader is left.                                    *)
LEMMA CountsAckPreserves ==
  ASSUME ViewOK, ProtocolInv, NEW p \in Proc, NEW q \in Proc, NEW to,
         CountsAck(p, q, to)
  PROVE  ProtocolInv'
<1> USE DEF ViewOK
<1>1. /\ q \in acked[p] /\ l1_state[p] \in Upgrading \cup Counting
      /\ to = IF need_acks[p] - 1 = 0 /\ l1_state[p] # "SM_AD" THEN "M"
                                                       ELSE l1_state[p]
  BY DEF CountsAck
<1>2. /\ acked'[p] = acked[p] \ {q}
      /\ \A x \in Proc : x # p => acked'[x] = acked[x]
      /\ l1_state'[p] = to
      /\ \A x \in Proc : x # p => l1_state'[x] = l1_state[x]
      /\ need_acks'[p] = need_acks[p] - 1
      /\ \A x \in Proc : x # p => need_acks'[x] = need_acks[x]
      /\ UNCHANGED <<request, writebacks, served, announced, invalidator,
                     fwdS, fwdM, putAcked, dir_state, owner, sharers>>
  BY DEF CountsAck
<1>3. /\ q \in pending[p] /\ p \in Waiting
      /\ invalidator[q] # p
      /\ p \in Holders /\ \A x \in Holders : x = p
  <2>1. q \in pending[p]
    BY <1>1 DEF pending
  <2>2. p \in Waiting /\ invalidator[q] # p
    BY <1>1, <2>1 DEF ProtocolInv, InvalidationInv
  <2>3. p \in Holders
    BY <2>2 DEF Waiting, Holders, ProtocolInv, DataInv
  <2> QED
    BY <2>1, <2>2, <2>3 DEF ProtocolInv, HolderInv
<1>4. /\ pending'[p] = pending[p] \ {q}
      /\ \A x \in Proc : x # p => pending'[x] = pending[x]
      /\ Cardinality(pending'[p]) = Cardinality(pending[p]) - 1
      /\ Cardinality(pending[p]) \in Nat /\ Cardinality(pending'[p]) \in Nat
      /\ Cardinality(pending'[p]) = 0 <=> pending'[p] = {}
  <2>1. pending'[p] = pending[p] \ {q}
    BY <1>1, <1>2, <1>3 DEF pending
  <2>2. \A x \in Proc : x # p => pending'[x] = pending[x]
    BY <1>2 DEF pending
  <2>3. IsFiniteSet(pending[p]) /\ Cardinality(pending[p]) \in Nat
    BY PendingCaches
  <2>4. /\ IsFiniteSet(pending[p] \ {q})
        /\ Cardinality(pending[p] \ {q}) = Cardinality(pending[p]) - 1
    BY <1>3, <2>3, FS_RemoveElement
  <2>5. /\ Cardinality(pending[p] \ {q}) \in Nat
        /\ Cardinality(pending[p] \ {q}) = 0 <=> pending[p] \ {q} = {}
    BY <2>4, FS_CardinalityType, FS_EmptySet
  <2> QED
    BY <2>1, <2>2, <2>3, <2>4, <2>5
<1>5. /\ to = "M" => pending'[p] = {} /\ l1_state[p] \in Counting
      /\ to # "M" => to = l1_state[p]
      /\ to # "M" /\ l1_state[p] \in Counting => pending'[p] # {}
  <2>1. l1_state[p] \in Upgrading => need_acks[p] <= 0
    BY DEF ProtocolInv, CountInv
  <2>2. l1_state[p] \in Counting => announced[p] = 0
    BY DEF ProtocolInv, DataInv, Counting, Upgrading
  <2>3. need_acks[p] + announced[p] = Cardinality(pending[p])
    BY DEF ProtocolInv, CountInv
  <2>4. need_acks[p] \in Int /\ announced[p] \in Nat
    OBVIOUS
  <2>5. l1_state[p] \in Counting => l1_state[p] # "SM_AD"
    BY DEF Counting
  <2>6. CASE need_acks[p] - 1 = 0 /\ l1_state[p] # "SM_AD"
    <3>1. l1_state[p] \in Counting
      BY <1>1, <2>1, <2>4, <2>6
    <3>2. Cardinality(pending'[p]) = 0
      BY <1>4, <2>2, <2>3, <2>4, <2>6, <3>1
    <3> QED
      BY <1>1, <1>4, <2>6, <3>1, <3>2
  <2>7. CASE ~ (need_acks[p] - 1 = 0 /\ l1_state[p] # "SM_AD")
    <3>1. to = l1_state[p] /\ to # "M"
      BY <1>1, <2>7 DEF Upgrading, Counting
    <3>2. ASSUME l1_state[p] \in Counting
          PROVE  Cardinality(pending'[p]) # 0
      BY <1>4, <2>2, <2>3, <2>4, <2>5, <2>7, <3>2
    <3> QED
      BY <1>4, <3>1, <3>2
  <2> QED
    BY <2>6, <2>7
<1>6. Holders' = Holders
  BY <1>1, <1>2, <1>3, <1>4, <1>5 DEF Holders, Upgrading, Counting, Putting
<1>7. Readers' = Readers
  BY <1>1, <1>2, <1>3, <1>4, <1>5 DEF Readers, Upgrading, Counting, Putting
<1>8. Waiting' = IF to = "M" THEN Waiting \ {p} ELSE Waiting
  BY <1>1, <1>2, <1>3, <1>4, <1>5 DEF Waiting, Upgrading, Counting, Putting
<1>9. RequestInv'
  BY <1>1, <1>2, <1>3, <1>4, <1>5
     DEF ProtocolInv, RequestInv, Upgrading, Counting, Putting
<1>10. DataInv'
  BY <1>1, <1>2, <1>3, <1>4, <1>5
     DEF ProtocolInv, DataInv, Upgrading, Counting
<1>11. ForwardInv'
  BY <1>1, <1>2, <1>3, <1>4, <1>5
     DEF ProtocolInv, ForwardInv, Upgrading, Counting, Owning
<1>12. PutAckInv'
  BY <1>1, <1>2, <1>3, <1>4, <1>5
     DEF ProtocolInv, PutAckInv, Upgrading, Counting, Putting
<1>13. DirectoryInv'
  BY <1>1, <1>2, <1>3, <1>4, <1>5
     DEF ProtocolInv, DirectoryInv, Upgrading, Counting, Owning
<1>14. SharerInv'
  BY <1>1, <1>2, <1>3, <1>4, <1>5, <1>6
     DEF ProtocolInv, SharerInv, Upgrading, Counting
<1>15. HolderInv'
  BY <1>1, <1>2, <1>3, <1>4, <1>5, <1>6
     DEF ProtocolInv, HolderInv, Upgrading, Counting
<1>16. ReaderInv'
  BY <1>1, <1>2, <1>3, <1>4, <1>5, <1>6, <1>7
     DEF ProtocolInv, ReaderInv, Upgrading, Counting
<1>17. InvalidationInv'
  BY <1>1, <1>2, <1>3, <1>4, <1>5, <1>8
     DEF ProtocolInv, InvalidationInv, Upgrading, Counting
<1>18. CountInv'
  <2> SUFFICES ASSUME NEW x \in Proc
               PROVE  /\ need_acks'[x] + announced'[x]
                           = Cardinality(pending'[x])
                      /\ l1_state'[x] \in Upgrading => need_acks'[x] <= 0
    BY DEF CountInv
  <2>1. /\ need_acks[x] + announced[x] = Cardinality(pending[x])
        /\ l1_state[x] \in Upgrading => need_acks[x] <= 0
    BY DEF ProtocolInv, CountInv
  <2>2. need_acks[x] \in Int /\ announced[x] \in Nat /\ announced' = announced
    BY <1>2
  <2>3. CASE x = p
    <3>1. l1_state'[x] \in Upgrading => l1_state[x] \in Upgrading
      BY <1>2, <1>5, <2>3 DEF Upgrading
    <3>2. need_acks'[x] = need_acks[x] - 1 /\ announced'[x] = announced[x]
      BY <1>2, <2>2, <2>3
    <3>3. /\ Cardinality(pending'[x]) = Cardinality(pending[x]) - 1
          /\ Cardinality(pending[x]) \in Nat
      BY <1>4, <2>3
    <3> QED
      BY <2>1, <2>2, <3>1, <3>2, <3>3
  <2>4. CASE x # p
    BY <1>2, <1>4, <2>1, <2>2, <2>4
  <2> QED
    BY <2>3, <2>4
<1> QED
  BY <1>9, <1>10, <1>11, <1>12, <1>13, <1>14, <1>15, <1>16, <1>17, <1>18
     DEF ProtocolInv

(* The owner serves a read and writes the data back.                       *)
ServesGetS(p, r, to) ==
  /\ fwdS[p] = r /\ fwdM[p] = NoProc
  /\ \/ l1_state[p] = "M" /\ to = "S"
     \/ l1_state[p] = "MI_A" /\ to = "SI_A"
  /\ fwdS' = [fwdS EXCEPT ![p] = NoProc]
  /\ served' = served \cup {r}
  /\ writebacks' = writebacks \cup {p}
  /\ l1_state' = [l1_state EXCEPT ![p] = to]
  /\ UNCHANGED <<request, announced, acked, invalidator, fwdM,
                 putAcked, need_acks, dir_state, owner, sharers>>

(* After that nobody has the line to itself.                               *)
LEMMA ServesGetSPreserves ==
  ASSUME ViewOK, ProtocolInv, NEW p \in Proc, NEW r \in Proc, NEW to,
         ServesGetS(p, r, to)
  PROVE  ProtocolInv'
<1> USE DEF ViewOK
<1>1. /\ fwdS[p] = r /\ fwdM[p] = NoProc
      /\ \/ l1_state[p] = "M" /\ to = "S"
         \/ l1_state[p] = "MI_A" /\ to = "SI_A"
  BY DEF ServesGetS
<1>2. /\ fwdS'[p] = NoProc
      /\ \A x \in Proc : x # p => fwdS'[x] = fwdS[x]
      /\ served' = served \cup {r}
      /\ writebacks' = writebacks \cup {p}
      /\ l1_state'[p] = to
      /\ \A x \in Proc : x # p => l1_state'[x] = l1_state[x]
      /\ UNCHANGED <<request, announced, acked, invalidator, fwdM,
                     putAcked, need_acks, dir_state, owner, sharers>>
  BY DEF ServesGetS
<1>3. p \in Holders /\ \A x \in Holders : x = p
  BY <1>1, <1>2 DEF ProtocolInv, HolderInv, Holders
<1>4. /\ r # p /\ l1_state[r] = "IS_D" /\ r \notin served /\ r \in sharers
      /\ dir_state = "S_D" /\ writebacks = {}
      /\ p \in sharers \/ l1_state[p] = "MI_A"
      /\ \A x \in Proc : x # p => fwdS[x] = NoProc
      /\ \A x \in Proc : fwdM[x] # r /\ fwdM[x] # p /\ fwdS[x] # p
  BY <1>1 DEF ProtocolInv, ForwardInv, Upgrading
<1>5. /\ p \notin Waiting /\ pending[p] = {} /\ p \notin Readers
      /\ \A x \in Proc : invalidator[x] # p
      /\ invalidator[p] = NoProc /\ invalidator[r] = NoProc
      /\ Readers = {}
  <2>1. p \notin Waiting /\ p \notin Readers
    BY <1>1 DEF Waiting, Readers, Upgrading, Counting
  <2>2. pending[p] = {}
    BY <2>1 DEF ProtocolInv, InvalidationInv
  <2>3. \A x \in Proc : invalidator[x] # p
    BY <2>2 DEF pending
  <2>4. invalidator[p] = NoProc /\ invalidator[r] = NoProc
    BY <1>1, <1>4 DEF ProtocolInv, InvalidationInv
  <2>5. \A x \in Readers : FALSE
    BY <1>3, <2>1, <2>3 DEF ProtocolInv, ReaderInv, Readers
  <2> QED
    BY <2>1, <2>2, <2>3, <2>4, <2>5
<1>6. Holders' = {}
  BY <1>1, <1>2, <1>3, <1>4, <1>5 DEF Holders, Upgrading, Counting, Putting
<1>7. Readers' = {r} \cup (IF to = "S" THEN {p} ELSE {})
  BY <1>1, <1>2, <1>3, <1>4, <1>5 DEF Readers, Upgrading, Counting, Putting
<1>8. Waiting' = Waiting
  BY <1>1, <1>2, <1>3, <1>4, <1>5 DEF Waiting, Upgrading, Counting, Putting
<1>9. pending' = pending
  BY <1>1, <1>2, <1>3, <1>4, <1>5 DEF pending
<1>10. RequestInv'
  BY <1>1, <1>2, <1>3, <1>4, <1>5
     DEF ProtocolInv, RequestInv, Upgrading, Putting
<1>11. DataInv'
  BY <1>1, <1>2, <1>3, <1>4, <1>5 DEF ProtocolInv, DataInv, Upgrading
<1>12. ForwardInv'
  BY <1>1, <1>2, <1>3, <1>4, <1>5
     DEF ProtocolInv, ForwardInv, Upgrading, Owning
<1>13. PutAckInv'
  BY <1>1, <1>2, <1>3, <1>4, <1>5 DEF ProtocolInv, PutAckInv, Putting
<1>14. DirectoryInv'
  BY <1>1, <1>2, <1>3, <1>4, <1>5 DEF ProtocolInv, DirectoryInv, Owning
<1>15. SharerInv'
  BY <1>1, <1>2, <1>3, <1>4, <1>5, <1>6 DEF ProtocolInv, SharerInv
<1>16. HolderInv'
  BY <1>1, <1>2, <1>3, <1>4, <1>5, <1>6 DEF ProtocolInv, HolderInv
<1>17. ReaderInv'
  BY <1>1, <1>2, <1>3, <1>4, <1>5, <1>6, <1>7 DEF ProtocolInv, ReaderInv
<1>18. InvalidationInv'
  BY <1>1, <1>2, <1>3, <1>4, <1>5, <1>8, <1>9 DEF ProtocolInv, InvalidationInv
<1>19. CountInv'
  BY <1>1, <1>2, <1>3, <1>4, <1>5, <1>9 DEF ProtocolInv, CountInv, Upgrading
<1> QED
  BY <1>10, <1>11, <1>12, <1>13, <1>14, <1>15, <1>16, <1>17, <1>18, <1>19
     DEF ProtocolInv

(* The owner passes the line on to the next writer.                        *)
ServesGetM(p, r, to) ==
  /\ fwdM[p] = r /\ fwdS[p] = NoProc
  /\ \/ l1_state[p] = "M" /\ to = "I"
     \/ l1_state[p] = "MI_A" /\ to = "II_A"
  /\ fwdM' = [fwdM EXCEPT ![p] = NoProc]
  /\ served' = served \cup {r}
  /\ l1_state' = [l1_state EXCEPT ![p] = to]
  /\ UNCHANGED <<request, writebacks, announced, acked, invalidator,
                 fwdS, putAcked, need_acks, dir_state, owner, sharers>>

(* There is one holder before and one after.                               *)
LEMMA ServesGetMPreserves ==
  ASSUME ViewOK, ProtocolInv, NEW p \in Proc, NEW r \in Proc, NEW to,
         ServesGetM(p, r, to)
  PROVE  ProtocolInv'
<1> USE DEF ViewOK
<1>1. /\ fwdM[p] = r /\ fwdS[p] = NoProc
      /\ \/ l1_state[p] = "M" /\ to = "I"
         \/ l1_state[p] = "MI_A" /\ to = "II_A"
  BY DEF ServesGetM
<1>2. /\ fwdM'[p] = NoProc
      /\ \A x \in Proc : x # p => fwdM'[x] = fwdM[x]
      /\ served' = served \cup {r}
      /\ l1_state'[p] = to
      /\ \A x \in Proc : x # p => l1_state'[x] = l1_state[x]
      /\ UNCHANGED <<request, writebacks, announced, acked, invalidator,
                     fwdS, putAcked, need_acks, dir_state, owner, sharers>>
  BY DEF ServesGetM
<1>3. p \in Holders /\ \A x \in Holders : x = p
  BY <1>1, <1>2 DEF ProtocolInv, HolderInv, Holders
<1>4. /\ r # p /\ l1_state[r] \in Upgrading /\ r \notin served
      /\ r \in sharers => fwdS[r] # NoProc
      /\ \A x \in Proc : fwdM[x] = r => x = p
      /\ \A x \in Proc : fwdM[x] # p /\ fwdS[x] # r /\ fwdS[x] # p
  BY <1>1 DEF ProtocolInv, ForwardInv, Upgrading
<1>5. /\ p \notin Waiting /\ pending[p] = {} /\ p \notin Readers
      /\ \A x \in Proc : invalidator[x] # p
      /\ invalidator[p] = NoProc
      /\ Readers = {}
  <2>1. p \notin Waiting /\ p \notin Readers
    BY <1>1 DEF Waiting, Readers, Upgrading, Counting
  <2>2. pending[p] = {}
    BY <2>1 DEF ProtocolInv, InvalidationInv
  <2>3. \A x \in Proc : invalidator[x] # p
    BY <2>2 DEF pending
  <2>4. invalidator[p] = NoProc
    BY <1>1 DEF ProtocolInv, InvalidationInv
  <2>5. \A x \in Readers : FALSE
    BY <1>3, <2>1, <2>3 DEF ProtocolInv, ReaderInv, Readers
  <2> QED
    BY <2>1, <2>2, <2>3, <2>4, <2>5
<1>6. /\ request[r] = "none" \/ request[r] \in {"PutS", "PutM"}
      /\ p \notin sharers \/ fwdS[p] # NoProc
  BY <1>1, <1>3, <1>4
     DEF ProtocolInv, RequestInv, SharerInv, Requests, Upgrading
<1>7. Holders' = {r}
  BY <1>1, <1>2, <1>3, <1>4, <1>5, <1>6
     DEF Holders, Upgrading, Counting, Putting
<1>8. Readers' = {}
  BY <1>1, <1>2, <1>3, <1>4, <1>5, <1>6
     DEF Readers, Upgrading, Counting, Putting
<1>9. Waiting' = Waiting
  BY <1>1, <1>2, <1>3, <1>4, <1>5, <1>6
     DEF Waiting, Upgrading, Counting, Putting
<1>10. pending' = pending
  BY <1>1, <1>2, <1>3, <1>4, <1>5, <1>6 DEF pending
<1>11. RequestInv'
  BY <1>1, <1>2, <1>3, <1>4, <1>5, <1>6
     DEF ProtocolInv, RequestInv, Upgrading, Putting
<1>12. DataInv'
  BY <1>1, <1>2, <1>3, <1>4, <1>5, <1>6 DEF ProtocolInv, DataInv, Upgrading
<1>13. ForwardInv'
  BY <1>1, <1>2, <1>3, <1>4, <1>5, <1>6
     DEF ProtocolInv, ForwardInv, Upgrading, Owning
<1>14. PutAckInv'
  BY <1>1, <1>2, <1>3, <1>4, <1>5, <1>6 DEF ProtocolInv, PutAckInv, Putting
<1>15. DirectoryInv'
  BY <1>1, <1>2, <1>3, <1>4, <1>5, <1>6 DEF ProtocolInv, DirectoryInv, Owning
<1>16. SharerInv'
  BY <1>1, <1>2, <1>3, <1>4, <1>5, <1>6, <1>7 DEF ProtocolInv, SharerInv
<1>17. HolderInv'
  BY <1>1, <1>2, <1>3, <1>4, <1>5, <1>6, <1>7 DEF ProtocolInv, HolderInv
<1>18. ReaderInv'
  BY <1>1, <1>2, <1>3, <1>4, <1>5, <1>6, <1>7, <1>8 DEF ProtocolInv, ReaderInv
<1>19. InvalidationInv'
  BY <1>1, <1>2, <1>3, <1>4, <1>5, <1>6, <1>9, <1>10
     DEF ProtocolInv, InvalidationInv
<1>20. CountInv'
  BY <1>1, <1>2, <1>3, <1>4, <1>5, <1>6, <1>10
     DEF ProtocolInv, CountInv, Upgrading
<1> QED
  BY <1>11, <1>12, <1>13, <1>14, <1>15, <1>16, <1>17, <1>18, <1>19, <1>20
     DEF ProtocolInv

(* A Put is acknowledged.                                                  *)
EndsPut(p) ==
  /\ p \in putAcked /\ l1_state[p] \in Putting
  /\ fwdS[p] = NoProc /\ fwdM[p] = NoProc /\ invalidator[p] = NoProc
  /\ putAcked' = putAcked \ {p}
  /\ l1_state' = [l1_state EXCEPT ![p] = "I"]
  /\ UNCHANGED <<request, writebacks, served, announced, acked,
                 invalidator, fwdS, fwdM, need_acks, dir_state, owner,
                 sharers>>

(* The directory has forgotten the cache before.                           *)
LEMMA EndsPutPreserves ==
  ASSUME ViewOK, ProtocolInv, NEW p \in Proc, EndsPut(p)
  PROVE  ProtocolInv'
<1> USE DEF ViewOK
<1>1. /\ p \in putAcked /\ l1_state[p] \in Putting
      /\ fwdS[p] = NoProc /\ fwdM[p] = NoProc /\ invalidator[p] = NoProc
  BY DEF EndsPut
<1>2. /\ putAcked' = putAcked \ {p}
      /\ l1_state'[p] = "I"
      /\ \A x \in Proc : x # p => l1_state'[x] = l1_state[x]
      /\ UNCHANGED <<request, writebacks, served, announced, acked,
                     invalidator, fwdS, fwdM, need_acks, dir_state, owner,
                     sharers>>
  BY DEF EndsPut
<1>3. /\ request[p] = "none" /\ p \notin sharers /\ p \notin served
      /\ ~ (dir_state = "M" /\ owner = p)
      /\ \A x \in Proc : fwdM[x] # p /\ fwdS[x] # p
  BY <1>1, <1>2
     DEF ProtocolInv, RequestInv, PutAckInv, DataInv, ForwardInv, Upgrading,
         Putting, Requests
<1>4. Holders' = Holders
  BY <1>1, <1>2, <1>3 DEF Holders, Upgrading, Counting, Putting, Putting
<1>5. Readers' = Readers
  BY <1>1, <1>2, <1>3 DEF Readers, Upgrading, Counting, Putting, Putting
<1>6. Waiting' = Waiting
  BY <1>1, <1>2, <1>3 DEF Waiting, Upgrading, Counting, Putting, Putting
<1>7. pending' = pending
  BY <1>1, <1>2, <1>3 DEF pending
<1>8. RequestInv'
  BY <1>1, <1>2, <1>3 DEF ProtocolInv, RequestInv, Upgrading, Putting
<1>9. DataInv'
  BY <1>1, <1>2, <1>3 DEF ProtocolInv, DataInv, Upgrading, Putting
<1>10. ForwardInv'
  BY <1>1, <1>2, <1>3 DEF ProtocolInv, ForwardInv, Upgrading, Putting, Owning
<1>11. PutAckInv'
  BY <1>1, <1>2, <1>3 DEF ProtocolInv, PutAckInv, Putting
<1>12. DirectoryInv'
  BY <1>1, <1>2, <1>3 DEF ProtocolInv, DirectoryInv, Putting, Owning
<1>13. SharerInv'
  BY <1>1, <1>2, <1>3, <1>4 DEF ProtocolInv, SharerInv, Putting
<1>14. HolderInv'
  BY <1>1, <1>2, <1>3, <1>4 DEF ProtocolInv, HolderInv, Putting
<1>15. ReaderInv'
  BY <1>1, <1>2, <1>3, <1>4, <1>5 DEF ProtocolInv, ReaderInv, Putting
<1>16. InvalidationInv'
  BY <1>1, <1>2, <1>3, <1>6, <1>7 DEF ProtocolInv, InvalidationInv, Putting
<1>17. CountInv'
  BY <1>1, <1>2, <1>3, <1>7 DEF ProtocolInv, CountInv, Upgrading, Putting
<1> QED
  BY <1>8, <1>9, <1>10, <1>11, <1>12, <1>13, <1>14, <1>15, <1>16, <1>17
     DEF ProtocolInv

(* The directory grants a read.                                            *)
GrantsS(r) ==
  /\ request[r] = "GetS" /\ dir_state \in {"I", "S"}
  /\ request' = [request EXCEPT ![r] = "none"]
  /\ served' = served \cup {r}
  /\ announced' = [announced EXCEPT ![r] = 0]
  /\ dir_state' = "S"
  /\ sharers' = sharers \cup {r}
  /\ UNCHANGED <<writebacks, acked, invalidator, fwdS, fwdM, putAcked,
                 l1_state, need_acks, owner>>

(* Nobody has the line to itself while the directory has it.               *)
LEMMA GrantsSPreserves ==
  ASSUME ViewOK, ProtocolInv, NEW r \in Proc, GrantsS(r)
  PROVE  ProtocolInv'
<1> USE DEF ViewOK
<1>1. request[r] = "GetS" /\ dir_state \in {"I", "S"}
  BY DEF GrantsS
<1>2. /\ request'[r] = "none"
      /\ \A x \in Proc : x # r => request'[x] = request[x]
      /\ served' = served \cup {r}
      /\ announced'[r] = 0
      /\ \A x \in Proc : x # r => announced'[x] = announced[x]
      /\ dir_state' = "S"
      /\ sharers' = sharers \cup {r}
      /\ UNCHANGED <<writebacks, acked, invalidator, fwdS, fwdM, putAcked,
                     l1_state, need_acks, owner>>
  BY DEF GrantsS
<1>3. /\ Holders = {} /\ Waiting = {} /\ writebacks = {}
      /\ \A x \in Proc : pending[x] = {} /\ acked[x] = {}
      /\ \A x \in Proc : invalidator[x] = NoProc /\ fwdS[x] = NoProc
  <2>1. writebacks = {} /\ \A x \in Proc : fwdS[x] = NoProc
    BY <1>1 DEF ProtocolInv, DirectoryInv, ForwardInv
  <2>2. \A x \in Proc : x \notin Holders
    BY <1>1 DEF ProtocolInv, HolderInv
  <2>3. \A x \in Proc : x \notin Waiting
    BY <2>2 DEF Waiting, Holders, ProtocolInv, DataInv
  <2>4. \A x \in Proc : pending[x] = {}
    BY <2>3 DEF ProtocolInv, InvalidationInv
  <2>5. \A x \in Proc : invalidator[x] = NoProc /\ acked[x] = {}
    BY <2>4 DEF pending
  <2> QED
    BY <2>1, <2>2, <2>3, <2>4, <2>5 DEF Holders, Waiting
<1>4. /\ l1_state[r] = "IS_D" /\ r \notin served /\ r \notin putAcked
      /\ announced[r] = 0
      /\ announced' = announced
      /\ \A x \in Proc : fwdM[x] # r
  <2>1. l1_state[r] = "IS_D" /\ r \notin served /\ \A x \in Proc : fwdM[x] # r
    BY <1>1 DEF ProtocolInv, RequestInv
  <2>2. r \notin putAcked /\ announced[r] = 0
    BY <2>1 DEF ProtocolInv, PutAckInv, DataInv, Putting
  <2>3. announced' = announced
    BY <2>2 DEF GrantsS
  <2> QED
    BY <2>1, <2>2, <2>3
<1>5. Holders' = {}
  BY <1>1, <1>2, <1>3, <1>4 DEF Holders, Upgrading, Counting, Putting
<1>6. Readers' = Readers \cup {r}
  BY <1>1, <1>2, <1>3, <1>4 DEF Readers, Upgrading, Counting, Putting
<1>7. Waiting' = {}
  BY <1>1, <1>2, <1>3, <1>4 DEF Waiting, Upgrading, Counting, Putting
<1>8. pending' = pending
  BY <1>1, <1>2, <1>3, <1>4 DEF pending
<1>9. RequestInv'
  BY <1>1, <1>2, <1>3, <1>4 DEF ProtocolInv, RequestInv, Upgrading, Putting
<1>10. DataInv'
  BY <1>1, <1>2, <1>3, <1>4 DEF ProtocolInv, DataInv, Upgrading
<1>11. ForwardInv'
  BY <1>1, <1>2, <1>3, <1>4 DEF ProtocolInv, ForwardInv, Upgrading, Owning
<1>12. PutAckInv'
  BY <1>1, <1>2, <1>3, <1>4 DEF ProtocolInv, PutAckInv, Putting
<1>13. DirectoryInv'
  BY <1>1, <1>2, <1>3, <1>4 DEF ProtocolInv, DirectoryInv, Owning
<1>14. SharerInv'
  BY <1>1, <1>2, <1>3, <1>4, <1>5 DEF ProtocolInv, SharerInv
<1>15. HolderInv'
  BY <1>1, <1>2, <1>3, <1>4, <1>5 DEF ProtocolInv, HolderInv
<1>16. ReaderInv'
  BY <1>1, <1>2, <1>3, <1>4, <1>5, <1>6 DEF ProtocolInv, ReaderInv
<1>17. InvalidationInv'
  BY <1>1, <1>2, <1>3, <1>4, <1>7, <1>8 DEF ProtocolInv, InvalidationInv
<1>18. CountInv'
  BY <1>1, <1>2, <1>3, <1>4, <1>8 DEF ProtocolInv, CountInv, Upgrading
<1> QED
  BY <1>9, <1>10, <1>11, <1>12, <1>13, <1>14, <1>15, <1>16, <1>17, <1>18
     DEF ProtocolInv

(* The directory grants a write, and invalidates the other sharers.        *)
GrantsM(r) ==
  /\ request[r] = "GetM" /\ dir_state \in {"I", "S"}
  /\ request' = [request EXCEPT ![r] = "none"]
  /\ served' = served \cup {r}
  /\ announced' = [announced EXCEPT ![r] = Cardinality(sharers \ {r})]
  /\ invalidator' = [x \in Proc |->
        IF x \in sharers \ {r} THEN r ELSE invalidator[x]]
  /\ dir_state' = "M"
  /\ owner' = r
  /\ sharers' = {}
  /\ UNCHANGED <<writebacks, acked, fwdS, fwdM, putAcked, l1_state,
                 need_acks>>

(* Every other reader is a sharer and so is sent an invalidation.          *)
LEMMA GrantsMPreserves ==
  ASSUME ViewOK, ProtocolInv, NEW r \in Proc, GrantsM(r)
  PROVE  ProtocolInv'
<1> USE DEF ViewOK
<1>1. request[r] = "GetM" /\ dir_state \in {"I", "S"}
  BY DEF GrantsM
<1>2. /\ request'[r] = "none"
      /\ \A x \in Proc : x # r => request'[x] = request[x]
      /\ served' = served \cup {r}
      /\ announced'[r] = Cardinality(sharers \ {r})
      /\ \A x \in Proc : x # r => announced'[x] = announced[x]
      /\ invalidator' = [x \in Proc |->
            IF x \in sharers \ {r} THEN r ELSE invalidator[x]]
      /\ dir_state' = "M"
      /\ owner' = r
      /\ sharers' = {}
      /\ UNCHANGED <<writebacks, acked, fwdS, fwdM, putAcked, l1_state,
                     need_acks>>
  BY DEF GrantsM
<1>3. /\ Holders = {} /\ Waiting = {} /\ writebacks = {}
      /\ \A x \in Proc : pending[x] = {} /\ acked[x] = {}
      /\ \A x \in Proc : invalidator[x] = NoProc /\ fwdS[x] = NoProc
  <2>1. writebacks = {} /\ \A x \in Proc : fwdS[x] = NoProc
    BY <1>1 DEF ProtocolInv, DirectoryInv, ForwardInv
  <2>2. \A x \in Proc : x \notin Holders
    BY <1>1 DEF ProtocolInv, HolderInv
  <2>3. \A x \in Proc : x \notin Waiting
    BY <2>2 DEF Waiting, Holders, ProtocolInv, DataInv
  <2>4. \A x \in Proc : pending[x] = {}
    BY <2>3 DEF ProtocolInv, InvalidationInv
  <2>5. \A x \in Proc : invalidator[x] = NoProc /\ acked[x] = {}
    BY <2>4 DEF pending
  <2> QED
    BY <2>1, <2>2, <2>3, <2>4, <2>5 DEF Holders, Waiting
<1>4. /\ l1_state[r] \in Upgrading /\ r \notin served /\ r \notin putAcked
      /\ fwdM[r] = NoProc
      /\ announced[r] = 0 /\ r \notin Readers
      /\ \A x \in Proc : fwdM[x] # r
  BY <1>1
     DEF ProtocolInv, RequestInv, PutAckInv, DataInv, Putting, Upgrading,
         Readers
<1>5. /\ \A x \in Proc : invalidator'[x] = IF x \in sharers \ {r} THEN r
           ELSE NoProc
      /\ pending'[r] = sharers \ {r}
      /\ \A x \in Proc : x # r => pending'[x] = {}
      /\ announced'[r] \in Nat
      /\ announced'[r] = 0 <=> pending'[r] = {}
  <2>1. \A x \in Proc : invalidator'[x] = IF x \in sharers \ {r} THEN r
          ELSE NoProc
    BY <1>2, <1>3
  <2>2. \A x \in Proc : acked'[x] = {}
    BY <1>2, <1>3
  <2>3. pending'[r] = sharers \ {r} /\ \A x \in Proc : x # r
          => pending'[x] = {}
    BY <2>1, <2>2 DEF pending
  <2>4. sharers \ {r} \in SUBSET Proc
    OBVIOUS
  <2> QED
    BY <1>2, <2>1, <2>3, <2>4, CachesFinite
<1>6. Holders' = {r}
  BY <1>1, <1>2, <1>3, <1>4, <1>5 DEF Holders, Upgrading, Counting, Putting
<1>7. Readers' = Readers
  BY <1>1, <1>2, <1>3, <1>4, <1>5 DEF Readers, Upgrading, Counting, Putting
<1>8. Waiting' = IF sharers \ {r} = {} THEN {} ELSE {r}
  BY <1>1, <1>2, <1>3, <1>4, <1>5 DEF Waiting, Upgrading, Counting, Putting
<1>9. RequestInv'
  BY <1>1, <1>2, <1>3, <1>4, <1>5
     DEF ProtocolInv, RequestInv, Upgrading, Putting
<1>10. DataInv'
  BY <1>1, <1>2, <1>3, <1>4, <1>5 DEF ProtocolInv, DataInv, Upgrading
<1>11. ForwardInv'
  BY <1>1, <1>2, <1>3, <1>4, <1>5
     DEF ProtocolInv, ForwardInv, Upgrading, Owning
<1>12. PutAckInv'
  BY <1>1, <1>2, <1>3, <1>4, <1>5 DEF ProtocolInv, PutAckInv, Putting
<1>13. DirectoryInv'
  BY <1>1, <1>2, <1>3, <1>4, <1>5
     DEF ProtocolInv, DirectoryInv, Owning, Upgrading
<1>14. SharerInv'
  BY <1>1, <1>2, <1>3, <1>4, <1>5, <1>6 DEF ProtocolInv, SharerInv
<1>15. HolderInv'
  BY <1>1, <1>2, <1>3, <1>4, <1>5, <1>6 DEF ProtocolInv, HolderInv
<1>16. ReaderInv'
  <2>1. \A x \in Readers : x \in sharers /\ x # r
    BY <1>1, <1>3, <1>4 DEF ProtocolInv, ReaderInv, Readers
  <2>2. \A x \in Readers : invalidator'[x] = r
    BY <1>5, <2>1 DEF Readers
  <2> QED
    BY <1>6, <1>7, <2>2 DEF ReaderInv
<1>17. InvalidationInv'
  <2>1. \A x \in Proc : pending'[x] # {} => x \in Waiting'
    BY <1>5, <1>8
  <2>2. \A x \in Proc : acked'[x] = {}
    BY <1>2, <1>3
  <2>3. \A x \in Proc : invalidator'[x] # NoProc =>
          x \in sharers /\ x # r /\ invalidator'[x] = r
    BY <1>5
  <2>4. \A x \in sharers : \/ l1_state[x] \in {"S", "SM_AD", "SI_A"}
                         \/ (l1_state[x] = "IS_D" /\ x \in served)
    BY <1>3 DEF ProtocolInv, SharerInv
  <2> QED
    BY <1>2, <2>1, <2>2, <2>3, <2>4 DEF InvalidationInv
<1>18. CountInv'
  <2>1. \A x \in Proc : need_acks[x] + announced[x] = 0
    BY <1>3, PendingCaches DEF ProtocolInv, CountInv
  <2>2. sharers \ {r} \in SUBSET Proc
    OBVIOUS
  <2>3. Cardinality(sharers \ {r}) \in Nat
    BY <2>2, CachesFinite
  <2>4. \A x \in Proc : need_acks'[x] \in Int /\ announced[x] \in Nat
    BY <1>2
  <2>5. need_acks'[r] + announced'[r] = Cardinality(pending'[r])
    BY <1>2, <1>4, <1>5, <2>1, <2>3, <2>4
  <2>6. \A x \in Proc : x # r =>
          need_acks'[x] + announced'[x] = Cardinality(pending'[x])
    BY <1>2, <1>5, <2>1, FS_EmptySet
  <2>7. \A x \in Proc : l1_state'[x] \in Upgrading => need_acks'[x] <= 0
    BY <1>2 DEF ProtocolInv, CountInv
  <2> QED
    BY <2>5, <2>6, <2>7 DEF CountInv
<1> QED
  BY <1>9, <1>10, <1>11, <1>12, <1>13, <1>14, <1>15, <1>16, <1>17, <1>18
     DEF ProtocolInv

(* The directory forwards a read to the owner.                             *)
ForwardsS(r) ==
  /\ request[r] = "GetS" /\ dir_state = "M" /\ owner \in Proc
  /\ request' = [request EXCEPT ![r] = "none"]
  /\ fwdS' = [fwdS EXCEPT ![owner] = r]
  /\ dir_state' = "S_D"
  /\ owner' = NoProc
  /\ sharers' = sharers \cup {r, owner}
  /\ UNCHANGED <<writebacks, served, announced, acked, invalidator,
                 fwdM, putAcked, l1_state, need_acks>>

(* The owner has the line until it takes the forward.                      *)
LEMMA ForwardsSPreserves ==
  ASSUME ViewOK, ProtocolInv, NEW r \in Proc, ForwardsS(r)
  PROVE  ProtocolInv'
<1> USE DEF ViewOK
<1>1. request[r] = "GetS" /\ dir_state = "M" /\ owner \in Proc
  BY DEF ForwardsS
<1>2. /\ request'[r] = "none"
      /\ \A x \in Proc : x # r => request'[x] = request[x]
      /\ fwdS'[owner] = r
      /\ \A x \in Proc : x # owner => fwdS'[x] = fwdS[x]
      /\ dir_state' = "S_D"
      /\ owner' = NoProc
      /\ sharers' = sharers \cup {r, owner}
      /\ UNCHANGED <<writebacks, served, announced, acked, invalidator,
                     fwdM, putAcked, l1_state, need_acks>>
  BY DEF ForwardsS
<1>3. /\ owner \in Proc /\ l1_state[owner] \in Owning
      /\ fwdS[owner] = NoProc /\ fwdM[owner] = NoProc /\ owner \notin putAcked
      /\ writebacks = {} /\ sharers = {}
      /\ \A x \in Proc : fwdS[x] = NoProc
  BY <1>1 DEF ProtocolInv, DirectoryInv, ForwardInv, PutAckInv
<1>4. /\ l1_state[r] = "IS_D" /\ r # owner /\ r \notin served
           /\ r \notin putAcked
      /\ \A x \in Proc : fwdM[x] # r
      /\ fwdM[r] = NoProc
      /\ invalidator[r] = NoProc
  BY <1>1, <1>3
     DEF ProtocolInv, RequestInv, PutAckInv, InvalidationInv, Putting
<1>5. Holders' = Holders
  BY <1>1, <1>2, <1>3, <1>4 DEF Holders, Upgrading, Counting, Putting
<1>6. Readers' = Readers
  BY <1>1, <1>2, <1>3, <1>4 DEF Readers, Upgrading, Counting, Putting
<1>7. Waiting' = Waiting
  BY <1>1, <1>2, <1>3, <1>4 DEF Waiting, Upgrading, Counting, Putting
<1>8. pending' = pending
  BY <1>1, <1>2, <1>3, <1>4 DEF pending
<1>9. RequestInv'
  BY <1>1, <1>2, <1>3, <1>4 DEF ProtocolInv, RequestInv, Upgrading, Putting
<1>10. DataInv'
  BY <1>1, <1>2, <1>3, <1>4 DEF ProtocolInv, DataInv, Upgrading
<1>11. ForwardInv'
  BY <1>1, <1>2, <1>3, <1>4 DEF ProtocolInv, ForwardInv, Upgrading, Owning
<1>12. PutAckInv'
  BY <1>1, <1>2, <1>3, <1>4 DEF ProtocolInv, PutAckInv, Putting
<1>13. DirectoryInv'
  BY <1>1, <1>2, <1>3, <1>4 DEF ProtocolInv, DirectoryInv, Owning
<1>14. SharerInv'
  BY <1>1, <1>2, <1>3, <1>4, <1>5 DEF ProtocolInv, SharerInv
<1>15. HolderInv'
  BY <1>1, <1>2, <1>3, <1>4, <1>5 DEF ProtocolInv, HolderInv
<1>16. ReaderInv'
  BY <1>1, <1>2, <1>3, <1>4, <1>5, <1>6 DEF ProtocolInv, ReaderInv
<1>17. InvalidationInv'
  BY <1>1, <1>2, <1>3, <1>4, <1>7, <1>8 DEF ProtocolInv, InvalidationInv
<1>18. CountInv'
  BY <1>1, <1>2, <1>3, <1>4, <1>8 DEF ProtocolInv, CountInv, Upgrading
<1> QED
  BY <1>9, <1>10, <1>11, <1>12, <1>13, <1>14, <1>15, <1>16, <1>17, <1>18
     DEF ProtocolInv

(* The directory forwards a write to the owner.                            *)
ForwardsM(r) ==
  /\ request[r] = "GetM" /\ dir_state = "M" /\ owner \in Proc
  /\ request' = [request EXCEPT ![r] = "none"]
  /\ fwdM' = [fwdM EXCEPT ![owner] = r]
  /\ owner' = r
  /\ UNCHANGED <<writebacks, served, announced, acked, invalidator,
                 fwdS, putAcked, l1_state, need_acks, dir_state,
                 sharers>>

(* The new owner waits for its data from the old one.                      *)
LEMMA ForwardsMPreserves ==
  ASSUME ViewOK, ProtocolInv, NEW r \in Proc, ForwardsM(r)
  PROVE  ProtocolInv'
<1> USE DEF ViewOK
<1>1. request[r] = "GetM" /\ dir_state = "M" /\ owner \in Proc
  BY DEF ForwardsM
<1>2. /\ request'[r] = "none"
      /\ \A x \in Proc : x # r => request'[x] = request[x]
      /\ fwdM'[owner] = r
      /\ \A x \in Proc : x # owner => fwdM'[x] = fwdM[x]
      /\ owner' = r
      /\ UNCHANGED <<writebacks, served, announced, acked, invalidator,
                     fwdS, putAcked, l1_state, need_acks, dir_state,
                     sharers>>
  BY DEF ForwardsM
<1>3. /\ owner \in Proc /\ l1_state[owner] \in Owning
      /\ fwdS[owner] = NoProc /\ fwdM[owner] = NoProc /\ owner \notin putAcked
      /\ writebacks = {} /\ sharers = {}
      /\ \A x \in Proc : fwdS[x] = NoProc
  BY <1>1 DEF ProtocolInv, DirectoryInv, ForwardInv, PutAckInv
<1>4. /\ l1_state[r] \in Upgrading /\ r # owner /\ r \notin served
           /\ r \notin putAcked
      /\ fwdM[r] = NoProc
      /\ \A x \in Proc : fwdM[x] # r
  BY <1>1, <1>3 DEF ProtocolInv, RequestInv, PutAckInv, Putting, Upgrading
<1>5. Holders' = Holders
  BY <1>1, <1>2, <1>3, <1>4 DEF Holders, Upgrading, Counting, Putting
<1>6. Readers' = Readers
  BY <1>1, <1>2, <1>3, <1>4 DEF Readers, Upgrading, Counting, Putting
<1>7. Waiting' = Waiting
  BY <1>1, <1>2, <1>3, <1>4 DEF Waiting, Upgrading, Counting, Putting
<1>8. pending' = pending
  BY <1>1, <1>2, <1>3, <1>4 DEF pending
<1>9. RequestInv'
  BY <1>1, <1>2, <1>3, <1>4 DEF ProtocolInv, RequestInv, Upgrading, Putting
<1>10. DataInv'
  BY <1>1, <1>2, <1>3, <1>4 DEF ProtocolInv, DataInv, Upgrading
<1>11. ForwardInv'
  BY <1>1, <1>2, <1>3, <1>4 DEF ProtocolInv, ForwardInv, Upgrading, Owning
<1>12. PutAckInv'
  BY <1>1, <1>2, <1>3, <1>4 DEF ProtocolInv, PutAckInv, Putting
<1>13. DirectoryInv'
  BY <1>1, <1>2, <1>3, <1>4 DEF ProtocolInv, DirectoryInv, Owning, Upgrading
<1>14. SharerInv'
  BY <1>1, <1>2, <1>3, <1>4, <1>5 DEF ProtocolInv, SharerInv
<1>15. HolderInv'
  BY <1>1, <1>2, <1>3, <1>4, <1>5 DEF ProtocolInv, HolderInv
<1>16. ReaderInv'
  BY <1>1, <1>2, <1>3, <1>4, <1>5, <1>6 DEF ProtocolInv, ReaderInv
<1>17. InvalidationInv'
  BY <1>1, <1>2, <1>3, <1>4, <1>7, <1>8 DEF ProtocolInv, InvalidationInv
<1>18. CountInv'
  BY <1>1, <1>2, <1>3, <1>4, <1>8 DEF ProtocolInv, CountInv, Upgrading
<1> QED
  BY <1>9, <1>10, <1>11, <1>12, <1>13, <1>14, <1>15, <1>16, <1>17, <1>18
     DEF ProtocolInv

(* The directory takes the line back from its owner.                       *)
TakesBack(p) ==
  /\ request[p] = "PutM" /\ dir_state = "M" /\ owner = p
  /\ request' = [request EXCEPT ![p] = "none"]
  /\ putAcked' = putAcked \cup {p}
  /\ dir_state' = "I"
  /\ owner' = NoProc
  /\ UNCHANGED <<writebacks, served, announced, acked, invalidator,
                 fwdS, fwdM, l1_state, need_acks, sharers>>

(* The owner that puts the line back is its holder.                        *)
LEMMA TakesBackPreserves ==
  ASSUME ViewOK, ProtocolInv, NEW p \in Proc, TakesBack(p)
  PROVE  ProtocolInv'
<1> USE DEF ViewOK
<1>1. request[p] = "PutM" /\ dir_state = "M" /\ owner = p
  BY DEF TakesBack
<1>2. /\ request'[p] = "none"
      /\ \A x \in Proc : x # p => request'[x] = request[x]
      /\ putAcked' = putAcked \cup {p}
      /\ dir_state' = "I"
      /\ owner' = NoProc
      /\ UNCHANGED <<writebacks, served, announced, acked, invalidator,
                     fwdS, fwdM, l1_state, need_acks, sharers>>
  BY DEF TakesBack
<1>3. /\ l1_state[p] = "MI_A" /\ fwdS[p] = NoProc /\ fwdM[p] = NoProc
      /\ p \notin putAcked /\ writebacks = {} /\ sharers = {}
      /\ \A x \in Proc : fwdS[x] = NoProc
      /\ \A x \in Proc : fwdM[x] # p
  BY <1>1
     DEF ProtocolInv, RequestInv, DirectoryInv, ForwardInv, Upgrading, Owning,
         Putting
<1>4. /\ p \in Holders /\ \A x \in Holders : x = p
      /\ p \notin Waiting /\ pending[p] = {}
      /\ Readers = {}
  <2>1. p \in Holders
    BY <1>3 DEF Holders
  <2>2. \A x \in Holders : x = p
    BY <2>1 DEF ProtocolInv, HolderInv
  <2>3. p \notin Waiting /\ p \notin Readers
    BY <1>3 DEF Waiting, Readers, Upgrading, Counting
  <2>4. pending[p] = {}
    BY <2>3 DEF ProtocolInv, InvalidationInv
  <2>5. \A x \in Proc : invalidator[x] # p
    BY <2>4 DEF pending
  <2>6. \A x \in Readers : FALSE
    BY <2>1, <2>3, <2>5 DEF ProtocolInv, ReaderInv, Readers
  <2> QED
    BY <2>1, <2>2, <2>3, <2>4, <2>6
<1>5. Holders' = {}
  BY <1>1, <1>2, <1>3, <1>4 DEF Holders, Upgrading, Counting, Putting
<1>6. Readers' = {}
  BY <1>1, <1>2, <1>3, <1>4 DEF Readers, Upgrading, Counting, Putting
<1>7. Waiting' = Waiting
  BY <1>1, <1>2, <1>3, <1>4 DEF Waiting, Upgrading, Counting, Putting
<1>8. pending' = pending
  BY <1>1, <1>2, <1>3, <1>4 DEF pending
<1>9. RequestInv'
  BY <1>1, <1>2, <1>3, <1>4 DEF ProtocolInv, RequestInv, Upgrading, Putting
<1>10. DataInv'
  BY <1>1, <1>2, <1>3, <1>4 DEF ProtocolInv, DataInv, Upgrading
<1>11. ForwardInv'
  BY <1>1, <1>2, <1>3, <1>4 DEF ProtocolInv, ForwardInv, Upgrading, Owning
<1>12. PutAckInv'
  BY <1>1, <1>2, <1>3, <1>4 DEF ProtocolInv, PutAckInv, Putting
<1>13. DirectoryInv'
  BY <1>1, <1>2, <1>3, <1>4 DEF ProtocolInv, DirectoryInv, Owning
<1>14. SharerInv'
  BY <1>1, <1>2, <1>3, <1>4, <1>5 DEF ProtocolInv, SharerInv
<1>15. HolderInv'
  BY <1>1, <1>2, <1>3, <1>4, <1>5 DEF ProtocolInv, HolderInv
<1>16. ReaderInv'
  BY <1>1, <1>2, <1>3, <1>4, <1>5, <1>6 DEF ProtocolInv, ReaderInv
<1>17. InvalidationInv'
  BY <1>1, <1>2, <1>3, <1>4, <1>7, <1>8 DEF ProtocolInv, InvalidationInv
<1>18. CountInv'
  BY <1>1, <1>2, <1>3, <1>4, <1>8 DEF ProtocolInv, CountInv, Upgrading
<1> QED
  BY <1>9, <1>10, <1>11, <1>12, <1>13, <1>14, <1>15, <1>16, <1>17, <1>18
     DEF ProtocolInv

(* The directory acknowledges a Put of a cache that is not the owner.      *)
AcksPut(p, t) ==
  /\ t \in {"PutS", "PutM"} /\ request[p] = t
  /\ ~ (dir_state = "M" /\ owner = p /\ t = "PutM")
  /\ request' = [request EXCEPT ![p] = "none"]
  /\ putAcked' = putAcked \cup {p}
  /\ sharers' = sharers \ {p}
  /\ \/ dir_state' = dir_state
     \/ dir_state = "S" /\ dir_state' = "I" /\ sharers \ {p} = {}
  /\ UNCHANGED <<writebacks, served, announced, acked, invalidator,
                 fwdS, fwdM, l1_state, need_acks, owner>>

(* It does not hold the line, or a forward is on its way to it.            *)
LEMMA AcksPutPreserves ==
  ASSUME ViewOK, ProtocolInv, NEW p \in Proc, NEW t, AcksPut(p, t)
  PROVE  ProtocolInv'
<1> USE DEF ViewOK
<1>1. /\ t \in {"PutS", "PutM"} /\ request[p] = t
      /\ ~ (dir_state = "M" /\ owner = p /\ t = "PutM")
  BY DEF AcksPut
<1>2. /\ request'[p] = "none"
      /\ \A x \in Proc : x # p => request'[x] = request[x]
      /\ putAcked' = putAcked \cup {p}
      /\ sharers' = sharers \ {p}
      /\ \/ dir_state' = dir_state
         \/ dir_state = "S" /\ dir_state' = "I" /\ sharers \ {p} = {}
      /\ UNCHANGED <<writebacks, served, announced, acked, invalidator,
                     fwdS, fwdM, l1_state, need_acks, owner>>
  BY DEF AcksPut
<1>3. /\ l1_state[p] \in Putting /\ p \notin putAcked /\ p \notin served
      /\ t = "PutS" => l1_state[p] # "MI_A"
      /\ p \notin Readers
      /\ \A x \in Proc : fwdM[x] # p /\ fwdS[x] # p
  BY <1>1
     DEF ProtocolInv, RequestInv, DataInv, ForwardInv, Upgrading, Putting,
         Readers
<1>4. /\ ~ (dir_state = "M" /\ owner = p)
      /\ l1_state[p] = "MI_A" => fwdS[p] # NoProc \/ fwdM[p] # NoProc
      /\ p \in Holders => fwdS[p] # NoProc \/ fwdM[p] # NoProc
  BY <1>1, <1>3
     DEF ProtocolInv, DirectoryInv, HolderInv, Holders, Owning, Upgrading,
         Counting, Putting
<1>5. Holders' = Holders
  BY <1>1, <1>2, <1>3, <1>4 DEF Holders, Upgrading, Counting, Putting
<1>6. Readers' = Readers
  BY <1>1, <1>2, <1>3, <1>4 DEF Readers, Upgrading, Counting, Putting
<1>7. Waiting' = Waiting
  BY <1>1, <1>2, <1>3, <1>4 DEF Waiting, Upgrading, Counting, Putting
<1>8. pending' = pending
  BY <1>1, <1>2, <1>3, <1>4 DEF pending
<1>9. RequestInv'
  BY <1>1, <1>2, <1>3, <1>4 DEF ProtocolInv, RequestInv, Upgrading, Putting
<1>10. DataInv'
  BY <1>1, <1>2, <1>3, <1>4 DEF ProtocolInv, DataInv, Upgrading
<1>11. ForwardInv'
  BY <1>1, <1>2, <1>3, <1>4
     DEF ProtocolInv, ForwardInv, Upgrading, Owning, Putting
<1>12. PutAckInv'
  BY <1>1, <1>2, <1>3, <1>4 DEF ProtocolInv, PutAckInv, Putting
<1>13. DirectoryInv'
  BY <1>1, <1>2, <1>3, <1>4 DEF ProtocolInv, DirectoryInv, Owning
<1>14. SharerInv'
  BY <1>1, <1>2, <1>3, <1>4, <1>5 DEF ProtocolInv, SharerInv
<1>15. HolderInv'
  BY <1>1, <1>2, <1>3, <1>4, <1>5 DEF ProtocolInv, HolderInv
<1>16. ReaderInv'
  BY <1>1, <1>2, <1>3, <1>4, <1>5, <1>6 DEF ProtocolInv, ReaderInv
<1>17. InvalidationInv'
  BY <1>1, <1>2, <1>3, <1>4, <1>7, <1>8 DEF ProtocolInv, InvalidationInv
<1>18. CountInv'
  BY <1>1, <1>2, <1>3, <1>4, <1>8 DEF ProtocolInv, CountInv, Upgrading
<1> QED
  BY <1>9, <1>10, <1>11, <1>12, <1>13, <1>14, <1>15, <1>16, <1>17, <1>18
     DEF ProtocolInv

(* The directory gets the data back that it waits for in S_D.              *)
EndsS_D(p) ==
  /\ p \in writebacks /\ dir_state = "S_D"
  /\ writebacks' = writebacks \ {p}
  /\ dir_state' = "S"
  /\ UNCHANGED <<request, served, announced, acked, invalidator, fwdS,
                 fwdM, putAcked, l1_state, need_acks, owner, sharers>>

(* Nobody has the line to itself while the data is under way.              *)
LEMMA EndsS_DPreserves ==
  ASSUME ViewOK, ProtocolInv, NEW p \in Proc, EndsS_D(p)
  PROVE  ProtocolInv'
<1> USE DEF ViewOK
<1>1. p \in writebacks /\ dir_state = "S_D"
  BY DEF EndsS_D
<1>2. /\ writebacks' = writebacks \ {p}
      /\ dir_state' = "S"
      /\ UNCHANGED <<request, served, announced, acked, invalidator, fwdS,
                     fwdM, putAcked, l1_state, need_acks, owner, sharers>>
  BY DEF EndsS_D
<1>3. /\ writebacks' = {} /\ Holders = {}
      /\ \A x \in Proc : fwdS[x] = NoProc
  BY <1>1, <1>2 DEF ProtocolInv, DirectoryInv, HolderInv, ForwardInv
<1>4. Holders' = {}
  BY <1>1, <1>2, <1>3 DEF Holders, Upgrading, Counting, Putting
<1>5. Readers' = Readers
  BY <1>1, <1>2, <1>3 DEF Readers, Upgrading, Counting, Putting
<1>6. Waiting' = Waiting
  BY <1>1, <1>2, <1>3 DEF Waiting, Upgrading, Counting, Putting
<1>7. pending' = pending
  BY <1>1, <1>2, <1>3 DEF pending
<1>8. RequestInv'
  BY <1>1, <1>2, <1>3 DEF ProtocolInv, RequestInv, Upgrading, Putting
<1>9. DataInv'
  BY <1>1, <1>2, <1>3 DEF ProtocolInv, DataInv, Upgrading
<1>10. ForwardInv'
  BY <1>1, <1>2, <1>3 DEF ProtocolInv, ForwardInv, Upgrading, Owning
<1>11. PutAckInv'
  BY <1>1, <1>2, <1>3 DEF ProtocolInv, PutAckInv, Putting
<1>12. DirectoryInv'
  BY <1>1, <1>2, <1>3 DEF ProtocolInv, DirectoryInv, Owning
<1>13. SharerInv'
  BY <1>1, <1>2, <1>3, <1>4 DEF ProtocolInv, SharerInv
<1>14. HolderInv'
  BY <1>1, <1>2, <1>3, <1>4 DEF ProtocolInv, HolderInv
<1>15. ReaderInv'
  BY <1>1, <1>2, <1>3, <1>4, <1>5 DEF ProtocolInv, ReaderInv
<1>16. InvalidationInv'
  BY <1>1, <1>2, <1>3, <1>6, <1>7 DEF ProtocolInv, InvalidationInv
<1>17. CountInv'
  BY <1>1, <1>2, <1>3, <1>7 DEF ProtocolInv, CountInv, Upgrading
<1> QED
  BY <1>8, <1>9, <1>10, <1>11, <1>12, <1>13, <1>14, <1>15, <1>16, <1>17
     DEF ProtocolInv

-----------------------------------------------------------------------------
(***************************************************************************)
(* The view of the channels says what they hold.                           *)
(***************************************************************************)
Shape == TypeOK /\ ChanShape /\ QueueShape

Faithful ==
  /\ ViewOK
  /\ \A p \in Proc : \A t \in Requests :
       request[p] = t <=> Message(t, p, 0) \in chan[Dir]
  /\ \A p \in Proc : p \in writebacks <=> Message("Data", p, 0) \in chan[Dir]
  /\ \A p \in Proc : p \in served <=> \E m \in chan[p] : m.mtype = "Data"
  /\ \A p \in Proc : \A m \in chan[p] : m.mtype = "Data" =>
       announced[p] = IF m.src = Dir THEN m.need_acks ELSE 0
  /\ \A p \in Proc : p \notin served => announced[p] = 0
  /\ \A p, q \in Proc : q \in acked[p]
       <=> Message("Inv_Ack", q, 0) \in chan[p]
  /\ \A q, p \in Proc :
       /\ invalidator[q] = p <=> Holds(fwd_chan[q], "Inv", p)
       /\ fwdS[q] = p <=> Holds(fwd_chan[q], "Fwd_GetS", p)
       /\ fwdM[q] = p <=> Holds(fwd_chan[q], "Fwd_GetM", p)
  /\ \A p \in Proc : p \in putAcked <=> Holds(fwd_chan[p], "Put_Ack", Dir)

(* The one element of a set, or the default.                               *)
LEMMA TheIs ==
  ASSUME NEW S, NEW d
  PROVE  /\ S = {} => The(S, d) = d
         /\ S # {} => The(S, d) \in S
         /\ \A x : S = {x} => The(S, d) = x
BY DEF The

(* A queue holds one message of a kind, so there is one sender of it.      *)
LEMMA OneSender ==
  ASSUME NEW q, Distinct(q), NEW t, NEW r, NEW s, Holds(q, t, r),
           Holds(q, t, s)
  PROVE  r = s
BY DEF Distinct, Holds

(* The sender found in a queue is the one whose message the queue holds.   *)
LEMMA SenderIs ==
  ASSUME NEW c, Distinct(c), NEW t, NoProc \notin Proc
  PROVE  /\ The({p \in Proc : Holds(c, t, p)}, NoProc) \in Proc \cup {NoProc}
         /\ \A p \in Proc :
              The({q \in Proc : Holds(c, t, q)}, NoProc) = p
                <=> Holds(c, t, p)
<1> PICK S : S = {p \in Proc : Holds(c, t, p)}
  OBVIOUS
<1>1. The(S, NoProc) \in Proc \cup {NoProc}
  BY TheIs
<1>2. ASSUME NEW p \in Proc PROVE The(S, NoProc) = p <=> Holds(c, t, p)
  <2>1. CASE Holds(c, t, p)
    <3>1. S = {p}
      BY <2>1, OneSender
    <3> QED
      BY <2>1, <3>1, TheIs
  <2>2. CASE ~ Holds(c, t, p)
    <3>1. The(S, NoProc) \in S \/ The(S, NoProc) = NoProc
      BY TheIs
    <3> QED
      BY <2>2, <3>1
  <2> QED
    BY <2>1, <2>2
<1> QED
  BY <1>1, <1>2

(* The view says what the channels hold when they have their shape.        *)
LEMMA ViewIs == Shape => Faithful
<1> SUFFICES ASSUME Shape PROVE Faithful
  OBVIOUS
<1>0. NoProc \notin Proc /\ Dir \notin Proc
  BY NodeAssumption
<1>1. \A q \in Proc : Distinct(fwd_chan[q])
  BY DEF Shape, QueueShape
<1>2. /\ invalidator \in [Proc -> Proc \cup {NoProc}]
      /\ \A q, p \in Proc : invalidator[q] = p
           <=> Holds(fwd_chan[q], "Inv", p)
  BY <1>0, <1>1, SenderIs DEF invalidator, Sender
<1>3. /\ fwdS \in [Proc -> Proc \cup {NoProc}]
      /\ \A q, p \in Proc : fwdS[q] = p <=> Holds(fwd_chan[q], "Fwd_GetS", p)
  BY <1>0, <1>1, SenderIs DEF fwdS, Sender
<1>4. /\ fwdM \in [Proc -> Proc \cup {NoProc}]
      /\ \A q, p \in Proc : fwdM[q] = p <=> Holds(fwd_chan[q], "Fwd_GetM", p)
  BY <1>0, <1>1, SenderIs DEF fwdM, Sender
<1>5. /\ request \in [Proc -> Requests \cup {"none"}]
      /\ \A p \in Proc : \A t \in Requests :
           request[p] = t <=> Message(t, p, 0) \in chan[Dir]
  <2> SUFFICES ASSUME NEW p \in Proc
               PROVE  /\ request[p] \in Requests \cup {"none"}
                      /\ \A t \in Requests :
                           request[p] = t <=> Message(t, p, 0) \in chan[Dir]
    BY DEF request
  <2> PICK S : S = {t \in Requests : Message(t, p, 0) \in chan[Dir]}
    OBVIOUS
  <2>1. request[p] = The(S, "none")
    BY DEF request, Asked
  <2>2. "none" \notin Requests
    BY DEF Requests
  <2>3. \A s, t \in S : s = t
    <3> SUFFICES ASSUME NEW s \in S, NEW t \in S PROVE s = t
      OBVIOUS
    <3>1. Message(s, p, 0) = Message(t, p, 0)
      BY MessageFields DEF Shape, ChanShape
    <3> QED
      BY <3>1, MessageFields
  <2>4. The(S, "none") \in Requests \cup {"none"}
    BY TheIs
  <2>5. ASSUME NEW t \in Requests PROVE The(S, "none") = t <=> t \in S
    <3>1. t \in S => S = {t}
      BY <2>3
    <3> QED
      BY <2>2, <3>1, TheIs
  <2> QED
    BY <2>1, <2>4, <2>5
<1>6. /\ announced \in [Proc -> Nat]
      /\ \A p \in Proc : \A m \in chan[p] : m.mtype = "Data" =>
           announced[p] = IF m.src = Dir THEN m.need_acks ELSE 0
      /\ \A p \in Proc : p \notin served => announced[p] = 0
  <2> SUFFICES ASSUME NEW p \in Proc
               PROVE  /\ announced[p] \in Nat
                      /\ \A m \in chan[p] : m.mtype = "Data" =>
                           announced[p] = IF m.src = Dir THEN m.need_acks
                             ELSE 0
                      /\ p \notin served => announced[p] = 0
    BY DEF announced
  <2> PICK S : S = {m.need_acks : m \in Announced(p)}
    OBVIOUS
  <2>1. announced[p] = The(S, 0)
    BY DEF announced
  <2>2. S \subseteq Nat
    BY DEF Announced, Shape, TypeOK, Msg, Node
  <2>3. p \notin served => S = {}
    BY DEF Announced, served
  <2>4. ASSUME NEW m \in chan[p], m.mtype = "Data"
        PROVE  The(S, 0) = IF m.src = Dir THEN m.need_acks ELSE 0
    <3>1. \A n \in Announced(p) : n = m
      BY <2>4 DEF Announced, Shape, ChanShape
    <3>2. CASE m.src = Dir
      <4>1. S = {m.need_acks}
        BY <2>4, <3>1, <3>2 DEF Announced
      <4> QED
        BY <3>2, <4>1, TheIs
    <3>3. CASE m.src # Dir
      <4>1. S = {}
        BY <3>1, <3>3 DEF Announced
      <4> QED
        BY <3>3, <4>1, TheIs
    <3> QED
      BY <3>2, <3>3
  <2> QED
    BY <2>1, <2>2, <2>3, <2>4, TheIs
<1>7. /\ acked \in [Proc -> SUBSET Proc]
      /\ \A p, q \in Proc : q \in acked[p]
           <=> Message("Inv_Ack", q, 0) \in chan[p]
  BY DEF acked
<1>8. /\ \A p \in Proc : p \in writebacks
           <=> Message("Data", p, 0) \in chan[Dir]
      /\ \A p \in Proc : p \in served <=> \E m \in chan[p] : m.mtype = "Data"
      /\ \A p \in Proc : p \in putAcked <=> Holds(fwd_chan[p], "Put_Ack", Dir)
      /\ writebacks \in SUBSET Proc /\ served \in SUBSET Proc
      /\ putAcked \in SUBSET Proc
  BY DEF writebacks, served, putAcked, Asked
<1>9. ViewOK
  BY <1>0, <1>2, <1>3, <1>4, <1>5, <1>6, <1>7, <1>8 DEF ViewOK, Shape, TypeOK
<1> QED
  BY <1>2, <1>3, <1>4, <1>5, <1>6, <1>7, <1>8, <1>9 DEF Faithful

(* The same after a step.                                                  *)
LEMMA ViewIsNext == Shape' => Faithful'
BY ViewIs, PTL

(* A view is determined by its parts.                                      *)
LEMMA OneChanged ==
  ASSUME NEW S, NEW T, NEW f \in [S -> T], NEW g \in [S -> T], NEW i \in S,
         \A x \in S : x # i => g[x] = f[x]
  PROVE  g = [f EXCEPT ![i] = g[i]]
OBVIOUS

(* A view none of whose parts changes is the same.                         *)
LEMMA NoneChanged ==
  ASSUME NEW S, NEW T, NEW f \in [S -> T], NEW g \in [S -> T],
         \A x \in S : g[x] = f[x]
  PROVE  g = f
OBVIOUS

-----------------------------------------------------------------------------
(***************************************************************************)
(* What the steps do to the channels.                                      *)
(***************************************************************************)
queueView == <<invalidator, fwdS, fwdM, putAcked>>

(* A step that leaves the ordered channels alone leaves their view alone.  *)
LEMMA QueueUnchanged == UNCHANGED fwd_chan => UNCHANGED queueView
BY DEF queueView, invalidator, fwdS, fwdM, putAcked, Sender

(* A channel that stays the same to a cache, or to the directory.          *)
LEMMA ChanUnchanged ==
  /\ chan'[Dir] = chan[Dir] => UNCHANGED <<request, writebacks>>
  /\ (\A p \in Proc : chan'[p] = chan[p])
       => UNCHANGED <<served, announced, acked>>
BY DEF request, writebacks, served, announced, acked, Asked, Announced

(* What can be in a queue.                                                 *)
LEMMA QueueHolds ==
  ASSUME Shape, NEW p \in Proc, NEW t, NEW s, Holds(fwd_chan[p], t, s)
  PROVE  \/ t = "Put_Ack" /\ s = Dir /\ p \in putAcked
         \/ /\ s \in Proc
            /\ \/ t = "Inv" /\ invalidator[p] = s
               \/ t = "Fwd_GetS" /\ fwdS[p] = s
               \/ t = "Fwd_GetM" /\ fwdM[p] = s
<1>1. PICK i \in DOMAIN fwd_chan[p] :
           fwd_chan[p][i].mtype = t /\ fwd_chan[p][i].src = s
  BY DEF Holds
<1>2. /\ t \in {"Inv", "Fwd_GetS", "Fwd_GetM", "Put_Ack"}
      /\ s \in IF t = "Put_Ack" THEN {Dir} ELSE Proc
  BY <1>1 DEF Shape, QueueShape
<1> QED
  BY <1>2, ViewIs DEF Faithful

(* The head of a queue is taken.                                           *)
LEMMA TakesHead ==
  ASSUME Shape, NEW p \in Proc, fwd_chan[p] # <<>>,
         fwd_chan' = [fwd_chan EXCEPT ![p] = Tail(@)]
  PROVE  /\ fwd_chan' \in [Proc -> Seq(Msg)] /\ QueueShape'
         /\ Head(fwd_chan[p]) \in Msg
         /\ Holds(fwd_chan[p], Head(fwd_chan[p]).mtype, Head(fwd_chan[p]).src)
         /\ Head(fwd_chan[p]).mtype = "Put_Ack"
              => \A t, s : ~ Holds(fwd_chan'[p], t, s)
         /\ \A t, s : Holds(fwd_chan'[p], t, s) <=>
              Holds(fwd_chan[p], t, s)
                /\ Kind(t) # Kind(Head(fwd_chan[p]).mtype)
         /\ \A x \in Proc : x # p => fwd_chan'[x] = fwd_chan[x]
<1>1. /\ fwd_chan \in [Proc -> Seq(Msg)] /\ fwd_chan[p] \in Seq(Msg)
      /\ Distinct(fwd_chan[p]) /\ AckLast(fwd_chan[p])
  BY DEF Shape, TypeOK, QueueShape
<1> PICK q : q = fwd_chan[p]
  OBVIOUS
<1>2. /\ Tail(q) \in Seq(Msg) /\ Head(q) \in Msg
      /\ Distinct(Tail(q)) /\ AckLast(Tail(q))
      /\ Holds(q, Head(q).mtype, Head(q).src)
      /\ \A t, s : Holds(Tail(q), t, s)
                    <=> Holds(q, t, s) /\ Kind(t) # Kind(Head(q).mtype)
      /\ Head(q).mtype = "Put_Ack" => \A t, s : ~ Holds(Tail(q), t, s)
      /\ \A i \in DOMAIN Tail(q) : i + 1 \in DOMAIN q /\ Tail(q)[i] = q[i + 1]
  BY <1>1, TailHolds
<1>3. /\ fwd_chan'[p] = Tail(q)
      /\ \A x \in Proc : x # p => fwd_chan'[x] = fwd_chan[x]
      /\ fwd_chan' \in [Proc -> Seq(Msg)]
  BY <1>1, <1>2
<1>4. QueueShape'
  <2>1. \A i \in DOMAIN Tail(q) :
          /\ Tail(q)[i].mtype \in {"Inv", "Fwd_GetS", "Fwd_GetM", "Put_Ack"}
          /\ Tail(q)[i].src \in
               IF Tail(q)[i].mtype = "Put_Ack" THEN {Dir} ELSE Proc
    BY <1>2 DEF Shape, QueueShape
  <2> QED
    BY <1>2, <1>3, <2>1 DEF Shape, QueueShape
<1> QED
  BY <1>2, <1>3, <1>4

(* A message is put at the end of the queues of some caches, which may     *)
(* hold nothing of its kind and no acknowledgement of a Put.               *)
LEMMA Extends ==
  ASSUME Shape, NEW to \in SUBSET Proc, NEW m \in Msg, SendOrdered(to, m),
         m.mtype \in {"Inv", "Fwd_GetS", "Fwd_GetM", "Put_Ack"},
         m.src \in IF m.mtype = "Put_Ack" THEN {Dir} ELSE Proc,
         \A x \in to :
           /\ x \notin putAcked
           /\ m.mtype = "Inv" => invalidator[x] = NoProc
           /\ m.mtype \in {"Fwd_GetS", "Fwd_GetM"} =>
                fwdS[x] = NoProc /\ fwdM[x] = NoProc
  PROVE  /\ fwd_chan' \in [Proc -> Seq(Msg)] /\ QueueShape'
         /\ \A x \in Proc : \A t, s : Holds(fwd_chan'[x], t, s) <=>
              \/ Holds(fwd_chan[x], t, s)
              \/ x \in to /\ m.mtype = t /\ m.src = s
<1>0. NoProc \notin Proc
  BY NodeAssumption
<1>1. /\ fwd_chan \in [Proc -> Seq(Msg)]
      /\ fwd_chan' = [x \in Proc |-> IF x \in to THEN Append(fwd_chan[x], m)
                                               ELSE fwd_chan[x]]
  BY DEF Shape, TypeOK, SendOrdered
<1>2. ASSUME NEW x \in Proc
      PROVE  /\ fwd_chan'[x] \in Seq(Msg)
             /\ \A i \in DOMAIN fwd_chan'[x] :
                  /\ fwd_chan'[x][i].mtype
                       \in {"Inv", "Fwd_GetS", "Fwd_GetM", "Put_Ack"}
                  /\ fwd_chan'[x][i].src \in
                       IF fwd_chan'[x][i].mtype = "Put_Ack" THEN {Dir}
                         ELSE Proc
             /\ Distinct(fwd_chan'[x]) /\ AckLast(fwd_chan'[x])
             /\ \A t, s : Holds(fwd_chan'[x], t, s) <=>
                  \/ Holds(fwd_chan[x], t, s)
                  \/ x \in to /\ m.mtype = t /\ m.src = s
  <2> PICK q : q = fwd_chan[x]
    OBVIOUS
  <2>1. /\ q \in Seq(Msg) /\ Distinct(q) /\ AckLast(q)
        /\ \A i \in DOMAIN q :
             /\ q[i].mtype \in {"Inv", "Fwd_GetS", "Fwd_GetM", "Put_Ack"}
             /\ q[i].src \in IF q[i].mtype = "Put_Ack" THEN {Dir} ELSE Proc
    BY <1>1 DEF Shape, QueueShape
  <2>2. CASE x \notin to
    <3>1. fwd_chan'[x] = q
      BY <1>1, <2>2
    <3> QED
      BY <2>1, <2>2, <3>1
  <2>3. CASE x \in to
    <3>1. fwd_chan'[x] = Append(q, m)
      BY <1>1, <2>3
    <3>2. \A t, s : Holds(q, t, s) => Kind(t) # Kind(m.mtype) /\ t # "Put_Ack"
      <4> SUFFICES ASSUME NEW t, NEW s, Holds(q, t, s)
                   PROVE  Kind(t) # Kind(m.mtype) /\ t # "Put_Ack"
        OBVIOUS
      <4>1. \/ t = "Inv" /\ invalidator[x] = s /\ s \in Proc
            \/ t = "Fwd_GetS" /\ fwdS[x] = s /\ s \in Proc
            \/ t = "Fwd_GetM" /\ fwdM[x] = s /\ s \in Proc
        BY <2>3, QueueHolds
      <4> QED
        BY <1>0, <2>3, <4>1 DEF Kind
    <3>3. Distinct(Append(q, m)) /\ AckLast(Append(q, m))
      BY <2>1, <3>2, AppendShape
    <3>4. \A t, s : Holds(Append(q, m), t, s)
                      <=> Holds(q, t, s) \/ (m.mtype = t /\ m.src = s)
      BY <2>1, AppendHolds
    <3>5. /\ Append(q, m) \in Seq(Msg)
               /\ DOMAIN Append(q, m) = 1 .. Len(q) + 1
          /\ DOMAIN q = 1 .. Len(q) /\ Len(q) \in Nat
          /\ \A i \in 1 .. Len(q) : Append(q, m)[i] = q[i]
          /\ Append(q, m)[Len(q) + 1] = m
      BY <2>1
    <3>6. \A i \in 1 .. Len(q) + 1 : i \in 1 .. Len(q) \/ i = Len(q) + 1
      BY <3>5
    <3>7. \A i \in DOMAIN Append(q, m) :
            Append(q, m)[i] = m \/ \E j \in DOMAIN q : Append(q, m)[i] = q[j]
      BY <3>5, <3>6
    <3> QED
      BY <2>1, <2>3, <3>1, <3>3, <3>4, <3>5, <3>7
  <2> QED
    BY <2>2, <2>3
<1>3. fwd_chan' \in [Proc -> Seq(Msg)]
  BY <1>1, <1>2
<1> QED
  BY <1>2, <1>3 DEF QueueShape


(* Messages that the channels do not hold yet: one request of a cache, and *)
(* data for a cache that has none on the way.                              *)
Sendable(out) ==
  /\ \A x \in out :
       \/ /\ x.dst = Dir
          /\ \E t \in Requests, s \in Proc :
               x.msg = Message(t, s, 0) /\ request[s] = "none"
       \/ x.dst = Dir /\ \E s \in Proc : x.msg = Message("Data", s, 0)
       \/ x.dst \in Proc /\ \E s \in Proc : x.msg = Message("Inv_Ack", s, 0)
       \/ /\ x.dst \in Proc /\ x.dst \notin served
          /\ \E s \in Node, a \in Nat : x.msg = Message("Data", s, a)
                                        /\ (s # Dir => a = 0)
  /\ \A x, y \in out : x.dst = y.dst => x.msg = y.msg

(* Sending messages that may be sent keeps the shape of the channels.      *)
LEMMA SentShape ==
  ASSUME Shape, NEW out, NEW n, NEW got, Send(out, n, got), Sendable(out)
  PROVE  chan' \in [Node -> SUBSET Msg] /\ ChanShape'
<1> USE DEF Sendable
<1>0. Dir \notin Proc /\ Node = Proc \cup {Dir}
  BY NodeAssumption DEF Node
<1>1. /\ chan' = [k \in Node |-> chan'[k]]
      /\ \A k \in Node : \A m : m \in chan'[k] =>
           m \in chan[k] \/ \E x \in out : x.dst = k /\ x.msg = m
  BY Sent
<1>2. Faithful
  BY ViewIs
<1>3. \A k \in Node : chan[k] \subseteq Msg
  BY DEF Shape, TypeOK
<1>4. \A x \in out : x.msg \in Msg
  <2> TAKE x \in out
  <2>1. Requests \cup {"Data", "Inv_Ack"} \subseteq MsgType /\ 0 \in Nat
    BY DEF Requests, MsgType
  <2> QED
    BY <1>0, <2>1, MessageFields
<1>5. chan' \in [Node -> SUBSET Msg]
  <2>1. \A k \in Node : chan'[k] \subseteq Msg
    BY <1>1, <1>3, <1>4
  <2> QED
    BY <1>1, <2>1
<1>6. \A m \in chan'[Dir] :
        /\ m.mtype \in Requests \cup {"Data"}
        /\ m.src \in Proc /\ m.need_acks = 0
  BY <1>0, <1>1, MessageFields DEF Shape, ChanShape
<1>7. \A m, k \in chan'[Dir] :
        m.mtype \in Requests /\ k.mtype \in Requests /\ m.src = k.src => m = k
  <2> SUFFICES ASSUME NEW m \in chan'[Dir], NEW k \in chan'[Dir],
                      m.mtype \in Requests, k.mtype \in Requests,
                        m.src = k.src
               PROVE  m = k
    OBVIOUS
  <2>1. ASSUME NEW u \in chan'[Dir], u.mtype \in Requests
        PROVE  u \in chan[Dir] \/ request[u.src] = "none"
    <3>1. \A x \in out : x.dst = Dir /\ x.msg = u => request[u.src] = "none"
      <4> SUFFICES ASSUME NEW x \in out, x.dst = Dir, x.msg = u
                   PROVE  request[u.src] = "none"
        OBVIOUS
      <4>1. "Data" \notin Requests
        BY DEF Requests
      <4> QED
        BY <1>0, <2>1, <4>1, MessageFields
    <3> QED
      BY <1>0, <1>1, <3>1
  <2>2. ASSUME NEW u \in chan[Dir], u.mtype \in Requests
        PROVE  request[u.src] # "none"
    <3>1. u \in Msg /\ u.src \in Proc /\ u.need_acks = 0
      BY <1>0, <1>3, <2>2 DEF Shape, ChanShape
    <3>2. u = Message(u.mtype, u.src, 0)
      BY <3>1, MessageFields
    <3>3. request[u.src] = u.mtype
      BY <1>2, <2>2, <3>1, <3>2 DEF Faithful
    <3> QED
      BY <2>2, <3>3 DEF Requests
  <2>3. CASE m \in chan[Dir] /\ k \in chan[Dir]
    BY <2>3 DEF Shape, ChanShape
  <2>4. CASE m \notin chan[Dir] /\ k \notin chan[Dir]
    BY <1>0, <1>1, <2>4
  <2>5. CASE ~ (m \in chan[Dir] <=> k \in chan[Dir])
    BY <2>1, <2>2, <2>5
  <2> QED
    BY <2>3, <2>4, <2>5
<1>8. ASSUME NEW p \in Proc, NEW m \in chan'[p]
      PROVE  /\ m.mtype \in {"Data", "Inv_Ack"}
             /\ m.mtype = "Inv_Ack" \/ m.src # Dir => m.need_acks = 0
             /\ m.mtype = "Inv_Ack" => m.src \in Proc
  <2>1. CASE m \in chan[p]
    BY <2>1 DEF Shape, ChanShape
  <2>2. CASE m \notin chan[p]
    <3>1. PICK x \in out : x.dst = p /\ x.msg = m
      BY <1>0, <1>1, <2>2
    <3> QED
      BY <1>0, <3>1, MessageFields
  <2> QED
    BY <2>1, <2>2
<1>9. ASSUME NEW p \in Proc, NEW m \in chan'[p], NEW k \in chan'[p],
             m.mtype = "Data", k.mtype = "Data"
      PROVE  m = k
  <2>1. ASSUME NEW u \in chan'[p], u.mtype = "Data", u \notin chan[p]
        PROVE  p \notin served
    <3>1. PICK x \in out : x.dst = p /\ x.msg = u
      BY <1>0, <1>1, <2>1
    <3> QED
      BY <1>0, <2>1, <3>1, MessageFields
  <2>2. \A u \in chan[p] : u.mtype = "Data" => p \in served
    BY <1>2 DEF Faithful
  <2>3. CASE m \in chan[p] /\ k \in chan[p]
    BY <1>9, <2>3 DEF Shape, ChanShape
  <2>4. CASE m \notin chan[p] /\ k \notin chan[p]
    BY <1>0, <1>1, <2>4
  <2>5. CASE ~ (m \in chan[p] <=> k \in chan[p])
    BY <1>9, <2>1, <2>2, <2>5
  <2> QED
    BY <2>3, <2>4, <2>5
<1> QED
  BY <1>5, <1>6, <1>7, <1>8, <1>9 DEF ChanShape


(* Sets with the same elements are the same.                               *)
LEMMA SameSet == ASSUME NEW A, NEW B, \A x : x \in A <=> x \in B PROVE A = B
OBVIOUS

(* Two sets of caches with the same members are equal.                     *)
LEMMA SameCaches ==
  ASSUME NEW A \in SUBSET Proc, NEW B \in SUBSET Proc,
         \A x \in Proc : x \in A <=> x \in B
  PROVE  A = B
OBVIOUS

(* A cache that has the same data on its way.                              *)
LEMMA SameData ==
  ASSUME Faithful, Faithful', NEW x \in Proc,
         \A u : u.mtype = "Data" => (u \in chan'[x] <=> u \in chan[x])
  PROVE  (x \in served' <=> x \in served) /\ announced'[x] = announced[x]
<1>1. x \in served' <=> x \in served
  BY DEF Faithful
<1>2. CASE x \in served
  <2>1. PICK u \in chan[x] : u.mtype = "Data"
    BY <1>2 DEF Faithful
  <2>2. u \in chan'[x]
    BY <2>1
  <2>3. announced[x] = IF u.src = Dir THEN u.need_acks ELSE 0
    BY <2>1 DEF Faithful
  <2>4. announced'[x] = IF u.src = Dir THEN u.need_acks ELSE 0
    BY <2>1, <2>2 DEF Faithful
  <2> QED
    BY <1>1, <2>3, <2>4
<1>3. CASE x \notin served
  BY <1>1, <1>3 DEF Faithful
<1> QED
  BY <1>1, <1>2, <1>3

(* A step that changes no data under way changes neither who is served nor *)
(* what is announced.                                                      *)
LEMMA DataUnchanged ==
  ASSUME Faithful, Faithful',
         \A x \in Proc : \A u : u.mtype = "Data"
           => (u \in chan'[x] <=> u \in chan[x])
  PROVE  UNCHANGED <<served, announced>>
<1>1. \A x \in Proc :
        (x \in served' <=> x \in served) /\ announced'[x] = announced[x]
  BY SameData
<1>2. served' = served
  BY <1>1, SameCaches DEF Faithful, ViewOK
<1>3. announced' = announced
  BY <1>1, NoneChanged DEF Faithful, ViewOK
<1> QED
  BY <1>2, <1>3

(* A step that changes no acknowledgement under way leaves their view      *)
(* alone.                                                                  *)
LEMMA AckedUnchanged ==
  ASSUME Faithful, Faithful',
         \A x, q \in Proc : q \in acked'[x] <=> q \in acked[x]
  PROVE  acked' = acked
<1>1. ASSUME NEW x \in Proc PROVE acked'[x] = acked[x]
  <2>1. acked'[x] \in SUBSET Proc /\ acked[x] \in SUBSET Proc
    BY DEF Faithful, ViewOK
  <2> QED
    BY <2>1, SameCaches
<1> QED
  BY <1>1, NoneChanged DEF Faithful, ViewOK

(* A step that changes those to one cache changes that cache's part only.  *)
LEMMA AckedChanged ==
  ASSUME Faithful, Faithful', NEW p \in Proc, NEW A \in SUBSET Proc,
         \A x, q \in Proc : q \in acked'[x] <=> IF x = p THEN q \in A
           ELSE q \in acked[x]
  PROVE  acked' = [acked EXCEPT ![p] = A]
<1>0. \A x \in Proc : acked'[x] \in SUBSET Proc /\ acked[x] \in SUBSET Proc
  BY DEF Faithful, ViewOK
<1>1. acked'[p] = A
  BY <1>0, SameCaches
<1>2. ASSUME NEW x \in Proc, x # p PROVE acked'[x] = acked[x]
  BY <1>0, <1>2, SameCaches
<1> QED
  BY <1>1, <1>2, OneChanged DEF Faithful, ViewOK

(* A step that changes the requests of one cache changes that part only.   *)
LEMMA RequestChanged ==
  ASSUME Faithful, Faithful', NEW p \in Proc,
           NEW t \in Requests \cup {"none"},
         \A s \in Requests : request'[p] = s <=> t = s,
         \A x \in Proc : \A s \in Requests :
           x # p => (request'[x] = s <=> request[x] = s)
  PROVE  request' = [request EXCEPT ![p] = t]
<1>1. "none" \notin Requests
  BY DEF Requests
<1>2. request'[p] = t
  BY <1>1 DEF Faithful, ViewOK
<1>3. \A x \in Proc : x # p => request'[x] = request[x]
  BY <1>1 DEF Faithful, ViewOK
<1> QED
  BY <1>2, <1>3, OneChanged DEF Faithful, ViewOK

(* A step that changes no request under way leaves their view alone.       *)
LEMMA RequestUnchanged ==
  ASSUME Faithful, Faithful',
         \A x \in Proc : \A s \in Requests : request'[x] = s
           <=> request[x] = s
  PROVE  request' = request
<1>1. "none" \notin Requests
  BY DEF Requests
<1>2. \A x \in Proc : request'[x] = request[x]
  BY <1>1 DEF Faithful, ViewOK
<1> QED
  BY <1>2, NoneChanged DEF Faithful, ViewOK

(* What a cache or the directory sends and takes, as the view has it.      *)
LEMMA NothingSent ==
  ASSUME Shape, NEW n, Send({}, n, {})
  PROVE  chan' = chan
           /\ UNCHANGED <<request, writebacks, served, announced, acked>>
<1>1. chan' = chan
  BY DEF Send, Delivered, Shape, TypeOK
<1> QED
  BY <1>1, ChanUnchanged, NodeAssumption DEF Node

(* A cache sends a request.                                                *)
LEMMA RequestSent ==
  ASSUME Shape, Shape', NEW p \in Proc, NEW t \in Requests,
         Send({To(Dir, t, p, 0)}, Dir, {})
  PROVE  /\ request' = [request EXCEPT ![p] = t]
         /\ UNCHANGED <<writebacks, served, announced, acked>>
<1>0. Dir \notin Proc /\ Node = Proc \cup {Dir} /\ "Data" \notin Requests
      /\ "none" \notin Requests
  BY NodeAssumption DEF Node, Requests
<1>1. \A k \in Node : \A m : m \in chan'[k] <=>
        m \in chan[k] \/ (k = Dir /\ m = Message(t, p, 0))
  <2> PICK out : out = {To(Dir, t, p, 0)}
    OBVIOUS
  <2>1. Send(out, Dir, {})
    OBVIOUS
  <2> QED
    BY <2>1, Sent, Envelope
<1>2. Faithful /\ Faithful'
  BY ViewIs, ViewIsNext
<1>3. \A x \in Proc : chan'[x] = chan[x]
  BY <1>0, <1>1, SameSet
<1>4. \A x \in Proc : \A s \in Requests :
        request'[x] = s <=> request[x] = s \/ (x = p /\ s = t)
  BY <1>0, <1>1, <1>2, MessageFields DEF Faithful
<1>5. request'[p] = t
  BY <1>4
<1>6. request' = [request EXCEPT ![p] = t]
  BY <1>2, <1>4, <1>5, RequestChanged
<1>7. \A x \in Proc : x \in writebacks' <=> x \in writebacks
  BY <1>0, <1>1, <1>2, MessageFields DEF Faithful
<1>8. writebacks' = writebacks
  BY <1>2, <1>7, SameCaches DEF Faithful, ViewOK
<1> QED
  BY <1>3, <1>6, <1>8, ChanUnchanged

(* A cache takes data from its channel.                                    *)
LEMMA DataTaken ==
  ASSUME Shape, Shape', NEW p \in Proc, NEW m \in chan[p], m.mtype = "Data",
         Send({}, p, {m})
  PROVE  /\ p \in served
         /\ announced[p] = IF m.src = Dir THEN m.need_acks ELSE 0
         /\ served' = served \ {p}
         /\ announced' = [announced EXCEPT ![p] = 0]
         /\ UNCHANGED <<request, writebacks, acked>>
<1>0. Dir \notin Proc /\ Node = Proc \cup {Dir}
  BY NodeAssumption DEF Node
<1>1. \A k \in Node : \A u : u \in chan'[k] <=>
        u \in chan[k] /\ ~ (k = p /\ u = m)
  <2> PICK got : got = {m}
    OBVIOUS
  <2>1. Send({}, p, got)
    OBVIOUS
  <2> QED
    BY <2>1, Sent
<1>2. Faithful /\ Faithful'
  BY ViewIs, ViewIsNext
<1>3. chan'[Dir] = chan[Dir] /\ \A x \in Proc : x # p => chan'[x] = chan[x]
  <2> SUFFICES ASSUME NEW x \in Node, x # p PROVE chan'[x] = chan[x]
    BY <1>0
  <2>1. \A u : u \in chan'[x] <=> u \in chan[x]
    BY <1>1
  <2> QED
    BY <2>1, SameSet
<1>4. /\ p \in served
      /\ announced[p] = IF m.src = Dir THEN m.need_acks ELSE 0
  BY <1>2 DEF Faithful
<1>5. p \notin served' /\ announced'[p] = 0
  <2>1. \A u \in chan'[p] : u.mtype # "Data"
    BY <1>0, <1>1 DEF Shape, ChanShape
  <2>2. p \notin served'
    BY <1>2, <2>1 DEF Faithful
  <2> QED
    BY <1>2, <2>2 DEF Faithful
<1>6. ASSUME NEW x \in Proc, x # p
      PROVE  (x \in served' <=> x \in served) /\ announced'[x] = announced[x]
  BY <1>2, <1>3, <1>6, SameData
<1>7. served' = served \ {p}
  BY <1>2, <1>5, <1>6, SameCaches DEF Faithful, ViewOK
<1>8. announced' = [announced EXCEPT ![p] = 0]
  BY <1>2, <1>5, <1>6, OneChanged DEF Faithful, ViewOK
<1>9. \A x, q \in Proc : q \in acked'[x] <=> q \in acked[x]
  BY <1>0, <1>1, <1>2, MessageFields DEF Faithful
<1>10. acked' = acked
  BY <1>2, <1>9, AckedUnchanged
<1> QED
  BY <1>3, <1>4, <1>7, <1>8, <1>10, ChanUnchanged

(* A cache takes an acknowledgement from its channel.                      *)
LEMMA AckTaken ==
  ASSUME Shape, Shape', NEW p \in Proc, NEW m \in chan[p],
           m.mtype = "Inv_Ack",
         Send({}, p, {m})
  PROVE  /\ m.src \in Proc /\ m.src \in acked[p]
         /\ acked' = [acked EXCEPT ![p] = @ \ {m.src}]
         /\ UNCHANGED <<request, writebacks, served, announced>>
<1>0. Dir \notin Proc /\ Node = Proc \cup {Dir}
  BY NodeAssumption DEF Node
<1>1. \A k \in Node : \A u : u \in chan'[k] <=>
        u \in chan[k] /\ ~ (k = p /\ u = m)
  <2> PICK got : got = {m}
    OBVIOUS
  <2>1. Send({}, p, got)
    OBVIOUS
  <2> QED
    BY <2>1, Sent
<1>2. Faithful /\ Faithful'
  BY ViewIs, ViewIsNext
<1>3. chan'[Dir] = chan[Dir] /\ \A x \in Proc : x # p => chan'[x] = chan[x]
  <2> SUFFICES ASSUME NEW x \in Node, x # p PROVE chan'[x] = chan[x]
    BY <1>0
  <2>1. \A u : u \in chan'[x] <=> u \in chan[x]
    BY <1>1
  <2> QED
    BY <2>1, SameSet
<1>4. m = Message("Inv_Ack", m.src, 0) /\ m.src \in Proc
  <2>1. m \in Msg
    BY <1>0 DEF Shape, TypeOK
  <2>2. m.src \in Proc /\ m.need_acks = 0
    BY DEF Shape, ChanShape
  <2> QED
    BY <2>1, <2>2, MessageFields
<1>5. m.src \in acked[p]
  BY <1>2, <1>4 DEF Faithful
<1>6. \A x, q \in Proc : q \in acked'[x] <=> q \in acked[x]
        /\ ~ (x = p /\ q = m.src)
  BY <1>0, <1>1, <1>2, <1>4, MessageFields DEF Faithful
<1>7. acked' = [acked EXCEPT ![p] = @ \ {m.src}]
  <2> PICK A : A = acked[p] \ {m.src}
    OBVIOUS
  <2>1. A \in SUBSET Proc
    BY <1>2 DEF Faithful, ViewOK
  <2>2. acked' = [acked EXCEPT ![p] = A]
    BY <1>2, <1>6, <2>1, AckedChanged
  <2> QED
    BY <2>2
<1>8. \A x \in Proc : \A u : u.mtype = "Data"
        => (u \in chan'[x] <=> u \in chan[x])
  BY <1>0, <1>1
<1>9. UNCHANGED <<served, announced>>
  BY <1>2, <1>8, DataUnchanged
<1> QED
  BY <1>3, <1>4, <1>5, <1>7, <1>9, ChanUnchanged


(* A cache sends an acknowledgement to another.                            *)
LEMMA AckSent ==
  ASSUME Shape, Shape', NEW p \in Proc, NEW s \in Proc,
         Send({To(s, "Inv_Ack", p, 0)}, p, {})
  PROVE  /\ acked' = [acked EXCEPT ![s] = @ \cup {p}]
         /\ UNCHANGED <<request, writebacks, served, announced>>
<1>0. Dir \notin Proc /\ Node = Proc \cup {Dir}
  BY NodeAssumption DEF Node
<1>1. \A k \in Node : \A u : u \in chan'[k] <=>
        u \in chan[k] \/ (k = s /\ u = Message("Inv_Ack", p, 0))
  <2> PICK out : out = {To(s, "Inv_Ack", p, 0)}
    OBVIOUS
  <2>1. Send(out, p, {})
    OBVIOUS
  <2> QED
    BY <2>1, Sent, Envelope
<1>2. Faithful /\ Faithful'
  BY ViewIs, ViewIsNext
<1>3. chan'[Dir] = chan[Dir]
  <2>1. \A u : u \in chan'[Dir] <=> u \in chan[Dir]
    BY <1>0, <1>1
  <2> QED
    BY <2>1, SameSet
<1>4. \A x, q \in Proc : q \in acked'[x] <=> q \in acked[x]
        \/ (x = s /\ q = p)
  BY <1>0, <1>1, <1>2, MessageFields DEF Faithful
<1>5. acked' = [acked EXCEPT ![s] = @ \cup {p}]
  <2> PICK A : A = acked[s] \cup {p}
    OBVIOUS
  <2>1. A \in SUBSET Proc
    BY <1>2 DEF Faithful, ViewOK
  <2>2. acked' = [acked EXCEPT ![s] = A]
    BY <1>2, <1>4, <2>1, AckedChanged
  <2> QED
    BY <2>2
<1>6. \A x \in Proc : \A u : u.mtype = "Data"
        => (u \in chan'[x] <=> u \in chan[x])
  BY <1>0, <1>1, MessageFields
<1>7. UNCHANGED <<served, announced>>
  BY <1>2, <1>6, DataUnchanged
<1> QED
  BY <1>3, <1>5, <1>7, ChanUnchanged

(* Data joins the channel of a cache that had none on its way.             *)
LEMMA DataJoins ==
  ASSUME Shape, Shape', NEW r \in Proc, r \notin served,
         NEW s \in Node, NEW a \in Nat, s # Dir => a = 0,
         \A x \in Proc : \A u : u \in chan'[x] <=>
            u \in chan[x] \/ (x = r /\ u = Message("Data", s, a))
  PROVE  /\ served' = served \cup {r}
         /\ announced' = [announced EXCEPT ![r] = a]
         /\ UNCHANGED acked
<1>2. Faithful /\ Faithful'
  BY ViewIs, ViewIsNext
<1>3. r \in served' /\ announced'[r] = a
  <2>1. Message("Data", s, a) \in chan'[r]
    OBVIOUS
  <2> QED
    BY <1>2, <2>1, MessageFields DEF Faithful
<1>4. ASSUME NEW x \in Proc, x # r
      PROVE  (x \in served' <=> x \in served) /\ announced'[x] = announced[x]
  BY <1>2, <1>4, SameData
<1>5. served' = served \cup {r}
  BY <1>2, <1>3, <1>4, SameCaches DEF Faithful, ViewOK
<1>6. announced' = [announced EXCEPT ![r] = a]
  BY <1>2, <1>3, <1>4, OneChanged DEF Faithful, ViewOK
<1>7. \A x, q \in Proc : q \in acked'[x] <=> q \in acked[x]
  BY <1>2, MessageFields DEF Faithful
<1>8. acked' = acked
  BY <1>2, <1>7, AckedUnchanged
<1> QED
  BY <1>5, <1>6, <1>8

(* A cache sends data to another.                                          *)
LEMMA DataSent ==
  ASSUME Shape, Shape', NEW p \in Proc, NEW r \in Proc, r \notin served,
         Send({To(r, "Data", p, 0)}, p, {})
  PROVE  /\ served' = served \cup {r}
         /\ UNCHANGED <<request, writebacks, announced, acked>>
<1>0. Dir \notin Proc /\ Node = Proc \cup {Dir}
  BY NodeAssumption DEF Node
<1>1. \A k \in Node : \A u : u \in chan'[k] <=>
        u \in chan[k] \/ (k = r /\ u = Message("Data", p, 0))
  <2> PICK out : out = {To(r, "Data", p, 0)}
    OBVIOUS
  <2>1. Send(out, p, {})
    OBVIOUS
  <2> QED
    BY <2>1, Sent, Envelope
<1>2. \A u : u \in chan'[Dir] <=> u \in chan[Dir]
  BY <1>0, <1>1
<1>3. UNCHANGED <<request, writebacks>>
  BY <1>2, SameSet, ChanUnchanged
<1>4. /\ served' = served \cup {r} /\ UNCHANGED acked
      /\ announced' = [announced EXCEPT ![r] = 0]
  BY <1>0, <1>1, DataJoins
<1>5. announced \in [Proc -> Nat] /\ announced[r] = 0
  BY ViewIs DEF Faithful, ViewOK
<1>6. announced' = announced
  BY <1>4, <1>5
<1> QED
  BY <1>3, <1>4, <1>6

(* A cache sends data to another and to the directory.                     *)
LEMMA DataSentToBoth ==
  ASSUME Shape, Shape', NEW p \in Proc, NEW r \in Proc, r \notin served,
         Send({To(r, "Data", p, 0), To(Dir, "Data", p, 0)}, p, {})
  PROVE  /\ served' = served \cup {r}
         /\ writebacks' = writebacks \cup {p}
         /\ UNCHANGED <<request, announced, acked>>
<1>0. Dir \notin Proc /\ Node = Proc \cup {Dir} /\ "Data" \notin Requests
  BY NodeAssumption DEF Node, Requests
<1>1. \A k \in Node : \A u : u \in chan'[k] <=>
        u \in chan[k] \/ (k \in {r, Dir} /\ u = Message("Data", p, 0))
  <2> PICK out : out = {To(r, "Data", p, 0), To(Dir, "Data", p, 0)}
    OBVIOUS
  <2>1. Send(out, p, {})
    OBVIOUS
  <2> QED
    BY <2>1, Sent, Envelope
<1>2. Faithful /\ Faithful'
  BY ViewIs, ViewIsNext
<1>3. \A x \in Proc : \A s \in Requests : request'[x] = s <=> request[x] = s
  BY <1>0, <1>1, <1>2, MessageFields DEF Faithful
<1>4. request' = request
  BY <1>2, <1>3, RequestUnchanged
<1>5. \A x \in Proc : x \in writebacks' <=> x \in writebacks \cup {p}
  BY <1>0, <1>1, <1>2, MessageFields DEF Faithful
<1>6. writebacks' = writebacks \cup {p}
  BY <1>2, <1>5, SameCaches DEF Faithful, ViewOK
<1>7. \A x \in Proc : \A u : u \in chan'[x] <=>
        u \in chan[x] \/ (x = r /\ u = Message("Data", p, 0))
  BY <1>0, <1>1
<1>8. /\ served' = served \cup {r} /\ UNCHANGED acked
      /\ announced' = [announced EXCEPT ![r] = 0]
  BY <1>0, <1>7, DataJoins
<1>9. announced \in [Proc -> Nat] /\ announced[r] = 0
  BY <1>2 DEF Faithful, ViewOK
<1>10. announced' = announced
  BY <1>8, <1>9
<1> QED
  BY <1>4, <1>6, <1>8, <1>10

(* The directory takes a request, and answers it with data or not.         *)
LEMMA RequestLeaves ==
  ASSUME Shape, Shape', NEW r \in Proc, NEW t \in Requests,
         \A u : u \in chan'[Dir] <=> u \in chan[Dir] /\ u # Message(t, r, 0),
         request[r] = t
  PROVE  request' = [request EXCEPT ![r] = "none"] /\ UNCHANGED writebacks
<1>1. "Data" \notin Requests /\ "none" \notin Requests
  BY DEF Requests
<1>2. Faithful /\ Faithful'
  BY ViewIs, ViewIsNext
<1>3. \A x \in Proc : \A s \in Requests :
        request'[x] = s <=> request[x] = s /\ ~ (x = r /\ s = t)
  BY <1>2, MessageFields DEF Faithful
<1>4. \A s \in Requests : request'[r] = s <=> "none" = s
  BY <1>1, <1>3
<1>5. request' = [request EXCEPT ![r] = "none"]
  BY <1>2, <1>3, <1>4, RequestChanged
<1>6. \A x \in Proc : x \in writebacks' <=> x \in writebacks
  BY <1>1, <1>2, MessageFields DEF Faithful
<1>7. writebacks' = writebacks
  BY <1>2, <1>6, SameCaches DEF Faithful, ViewOK
<1> QED
  BY <1>5, <1>7

(* The directory takes a request and sends data to the cache it came from. *)
LEMMA RequestAnswered ==
  ASSUME Shape, Shape', NEW r \in Proc, NEW t \in Requests, request[r] = t,
         r \notin served, NEW a \in Nat,
         Send({To(r, "Data", Dir, a)}, Dir, {Message(t, r, 0)})
  PROVE  /\ request' = [request EXCEPT ![r] = "none"]
         /\ served' = served \cup {r}
         /\ announced' = [announced EXCEPT ![r] = a]
         /\ UNCHANGED <<writebacks, acked>>
<1>0. Dir \notin Proc /\ Node = Proc \cup {Dir}
  BY NodeAssumption DEF Node
<1>1. \A k \in Node : \A u : u \in chan'[k] <=>
        /\ u \in chan[k] \/ (k = r /\ u = Message("Data", Dir, a))
        /\ ~ (k = Dir /\ u = Message(t, r, 0))
  <2> PICK out, got : out = {To(r, "Data", Dir, a)}
             /\ got = {Message(t, r, 0)}
    OBVIOUS
  <2>1. Send(out, Dir, got)
    OBVIOUS
  <2> QED
    BY <2>1, Sent, Envelope
<1>2. \A u : u \in chan'[Dir] <=> u \in chan[Dir] /\ u # Message(t, r, 0)
  BY <1>0, <1>1
<1>3. \A x \in Proc : \A u : u \in chan'[x] <=>
        u \in chan[x] \/ (x = r /\ u = Message("Data", Dir, a))
  BY <1>0, <1>1
<1>4. request' = [request EXCEPT ![r] = "none"] /\ UNCHANGED writebacks
  BY <1>2, RequestLeaves
<1>5. /\ served' = served \cup {r} /\ UNCHANGED acked
      /\ announced' = [announced EXCEPT ![r] = a]
  BY <1>0, <1>3, DataJoins
<1> QED
  BY <1>4, <1>5

(* The directory takes a request and sends no data.                        *)
LEMMA RequestTaken ==
  ASSUME Shape, Shape', NEW r \in Proc, NEW t \in Requests, request[r] = t,
         Send({}, Dir, {Message(t, r, 0)})
  PROVE  /\ request' = [request EXCEPT ![r] = "none"]
         /\ UNCHANGED <<writebacks, served, announced, acked>>
<1>0. Dir \notin Proc /\ Node = Proc \cup {Dir}
  BY NodeAssumption DEF Node
<1>1. \A k \in Node : \A u : u \in chan'[k] <=>
        u \in chan[k] /\ ~ (k = Dir /\ u = Message(t, r, 0))
  <2> PICK got : got = {Message(t, r, 0)}
    OBVIOUS
  <2>1. Send({}, Dir, got)
    OBVIOUS
  <2> QED
    BY <2>1, Sent
<1>2. \A u : u \in chan'[Dir] <=> u \in chan[Dir] /\ u # Message(t, r, 0)
  BY <1>0, <1>1
<1>3. ASSUME NEW x \in Proc PROVE chan'[x] = chan[x]
  <2>1. \A u : u \in chan'[x] <=> u \in chan[x]
    BY <1>0, <1>1
  <2> QED
    BY <2>1, SameSet
<1> QED
  BY <1>2, <1>3, RequestLeaves, ChanUnchanged

(* The directory takes data written back.                                  *)
LEMMA WritebackTaken ==
  ASSUME Shape, Shape', NEW p \in Proc, Send({}, Dir, {Message("Data", p, 0)})
  PROVE  /\ writebacks' = writebacks \ {p}
         /\ UNCHANGED <<request, served, announced, acked>>
<1>0. Dir \notin Proc /\ Node = Proc \cup {Dir} /\ "Data" \notin Requests
  BY NodeAssumption DEF Node, Requests
<1>1. \A k \in Node : \A u : u \in chan'[k] <=>
        u \in chan[k] /\ ~ (k = Dir /\ u = Message("Data", p, 0))
  <2> PICK got : got = {Message("Data", p, 0)}
    OBVIOUS
  <2>1. Send({}, Dir, got)
    OBVIOUS
  <2> QED
    BY <2>1, Sent
<1>2. Faithful /\ Faithful'
  BY ViewIs, ViewIsNext
<1>3. \A x \in Proc : \A s \in Requests : request'[x] = s <=> request[x] = s
  BY <1>0, <1>1, <1>2, MessageFields DEF Faithful
<1>4. request' = request
  BY <1>2, <1>3, RequestUnchanged
<1>5. \A x \in Proc : x \in writebacks' <=> x \in writebacks \ {p}
  BY <1>0, <1>1, <1>2, MessageFields DEF Faithful
<1>6. writebacks' = writebacks \ {p}
  BY <1>2, <1>5, SameCaches DEF Faithful, ViewOK
<1>7. ASSUME NEW x \in Proc PROVE chan'[x] = chan[x]
  <2>1. \A u : u \in chan'[x] <=> u \in chan[x]
    BY <1>0, <1>1
  <2> QED
    BY <2>1, SameSet
<1> QED
  BY <1>4, <1>6, <1>7, ChanUnchanged

(* What a cache takes from its queue, and what is put there.               *)
LEMMA SameSenders ==
  ASSUME NEW f \in [Proc -> Proc \cup {NoProc}],
           NEW g \in [Proc -> Proc \cup {NoProc}],
         NoProc \notin Proc, \A x, q \in Proc : g[x] = q <=> f[x] = q
  PROVE  g = f
<1>1. \A x \in Proc : g[x] = f[x]
  OBVIOUS
<1> QED
  BY <1>1, NoneChanged

(* A cache forgets the sender of the one message that has left its queue.  *)
LEMMA SenderGone ==
  ASSUME NEW f \in [Proc -> Proc \cup {NoProc}],
           NEW g \in [Proc -> Proc \cup {NoProc}],
         NoProc \notin Proc, NEW p \in Proc,
         \A x, q \in Proc : g[x] = q <=> f[x] = q /\ x # p
  PROVE  g = [f EXCEPT ![p] = NoProc]
<1>1. g[p] = NoProc /\ \A x \in Proc : x # p => g[x] = f[x]
  OBVIOUS
<1> QED
  BY <1>1, OneChanged

(* The caches sent a message each have a sender of it from then on.        *)
LEMMA SenderNew ==
  ASSUME NEW f \in [Proc -> Proc \cup {NoProc}],
           NEW g \in [Proc -> Proc \cup {NoProc}],
         NoProc \notin Proc, NEW to \in SUBSET Proc, NEW r \in Proc,
         \A x \in to : f[x] = NoProc,
         \A x, q \in Proc : g[x] = q <=> f[x] = q \/ (x \in to /\ q = r)
  PROVE  g = [x \in Proc |-> IF x \in to THEN r ELSE f[x]]
<1>1. \A x \in Proc : g[x] = IF x \in to THEN r ELSE f[x]
  OBVIOUS
<1> QED
  BY <1>1

(* A queue holds one message of a kind.                                    *)
LEMMA OneOfKind ==
  ASSUME NEW q, Distinct(q), NEW t, NEW u, NEW r, NEW s,
         Holds(q, t, r), Holds(q, u, s), Kind(t) = Kind(u)
  PROVE  t = u /\ r = s
BY DEF Distinct, Holds

(* A cache takes the head of its ordered channel.                          *)
LEMMA HeadTaken ==
  ASSUME Shape, Shape', NEW p \in Proc, fwd_chan[p] # <<>>,
         fwd_chan' = [fwd_chan EXCEPT ![p] = Tail(@)],
         NEW m, m = Head(fwd_chan[p])
  PROVE  /\ m.mtype \in {"Inv", "Fwd_GetS", "Fwd_GetM", "Put_Ack"}
         /\ m.mtype = "Inv" =>
              /\ m.src \in Proc /\ invalidator[p] = m.src
              /\ invalidator' = [invalidator EXCEPT ![p] = NoProc]
              /\ UNCHANGED <<fwdS, fwdM, putAcked>>
         /\ m.mtype = "Fwd_GetS" =>
              /\ m.src \in Proc /\ fwdS[p] = m.src /\ fwdM[p] = NoProc
              /\ fwdS' = [fwdS EXCEPT ![p] = NoProc]
              /\ UNCHANGED <<invalidator, fwdM, putAcked>>
         /\ m.mtype = "Fwd_GetM" =>
              /\ m.src \in Proc /\ fwdM[p] = m.src /\ fwdS[p] = NoProc
              /\ fwdM' = [fwdM EXCEPT ![p] = NoProc]
              /\ UNCHANGED <<invalidator, fwdS, putAcked>>
         /\ m.mtype = "Put_Ack" =>
              /\ p \in putAcked
              /\ fwdS[p] = NoProc /\ fwdM[p] = NoProc
                   /\ invalidator[p] = NoProc
              /\ putAcked' = putAcked \ {p}
              /\ UNCHANGED <<invalidator, fwdS, fwdM>>
<1>0. NoProc \notin Proc
  BY NodeAssumption
<1>1. Faithful /\ Faithful'
  BY ViewIs, ViewIsNext
<1>2. /\ Holds(fwd_chan[p], m.mtype, m.src)
      /\ m.mtype = "Put_Ack" => \A t, s : ~ Holds(fwd_chan'[p], t, s)
      /\ \A t, s : Holds(fwd_chan'[p], t, s) <=>
           Holds(fwd_chan[p], t, s) /\ Kind(t) # Kind(m.mtype)
      /\ \A x \in Proc : x # p => fwd_chan'[x] = fwd_chan[x]
  BY TakesHead
<1>3. /\ invalidator \in [Proc -> Proc \cup {NoProc}]
      /\ invalidator' \in [Proc -> Proc \cup {NoProc}]
      /\ fwdS \in [Proc -> Proc \cup {NoProc}]
           /\ fwdS' \in [Proc -> Proc \cup {NoProc}]
      /\ fwdM \in [Proc -> Proc \cup {NoProc}]
           /\ fwdM' \in [Proc -> Proc \cup {NoProc}]
      /\ putAcked \in SUBSET Proc /\ putAcked' \in SUBSET Proc
  BY <1>1 DEF Faithful, ViewOK
<1>4. \/ m.mtype = "Put_Ack" /\ p \in putAcked
      \/ /\ m.src \in Proc
         /\ \/ m.mtype = "Inv" /\ invalidator[p] = m.src
            \/ m.mtype = "Fwd_GetS" /\ fwdS[p] = m.src
            \/ m.mtype = "Fwd_GetM" /\ fwdM[p] = m.src
  <2>1. Holds(fwd_chan[p], m.mtype, m.src)
    BY <1>2
  <2> QED
    BY <2>1, QueueHolds
<1>5. Distinct(fwd_chan[p])
  BY DEF Shape, QueueShape
<1>6. /\ \A x, q \in Proc : invalidator'[x] = q <=>
           invalidator[x] = q /\ (x # p \/ m.mtype # "Inv")
      /\ \A x, q \in Proc : fwdS'[x] = q <=>
           fwdS[x] = q /\ (x # p \/ Kind(m.mtype) # "Fwd")
      /\ \A x, q \in Proc : fwdM'[x] = q <=>
           fwdM[x] = q /\ (x # p \/ Kind(m.mtype) # "Fwd")
      /\ \A x \in Proc : x \in putAcked' <=>
           x \in putAcked /\ (x # p \/ m.mtype # "Put_Ack")
  BY <1>1, <1>2, <1>4 DEF Faithful, Kind
<1>7. CASE m.mtype = "Inv"
  <2>1. invalidator' = [invalidator EXCEPT ![p] = NoProc]
    BY <1>0, <1>3, <1>6, <1>7, SenderGone
  <2>2. fwdS' = fwdS /\ fwdM' = fwdM
    BY <1>0, <1>3, <1>6, <1>7, SameSenders DEF Kind
  <2>3. putAcked' = putAcked
    BY <1>3, <1>6, <1>7, SameCaches
  <2> QED
    BY <1>4, <1>7, <2>1, <2>2, <2>3
<1>8. CASE m.mtype = "Fwd_GetS"
  <2>1. fwdM[p] = NoProc
    <3> SUFFICES ASSUME fwdM[p] # NoProc PROVE FALSE
      OBVIOUS
    <3>1. fwdM[p] \in Proc
      BY <1>3
    <3>2. Holds(fwd_chan[p], "Fwd_GetM", fwdM[p])
      BY <1>1, <3>1 DEF Faithful
    <3>3. Kind("Fwd_GetS") = Kind("Fwd_GetM") /\ "Fwd_GetS" # "Fwd_GetM"
      BY DEF Kind
    <3> QED
      BY <1>2, <1>5, <1>8, <3>2, <3>3, OneOfKind
  <2>2. fwdS' = [fwdS EXCEPT ![p] = NoProc]
    <3>1. \A x, q \in Proc : fwdS'[x] = q <=> fwdS[x] = q /\ x # p
      BY <1>6, <1>8 DEF Kind
    <3> QED
      BY <1>0, <1>3, <3>1, SenderGone
  <2>3. \A x, q \in Proc : fwdM'[x] = q <=> fwdM[x] = q
    BY <1>0, <1>6, <2>1
  <2>4. fwdM' = fwdM
    BY <1>0, <1>3, <2>3, SameSenders
  <2>5. invalidator' = invalidator
    BY <1>0, <1>3, <1>6, <1>8, SameSenders
  <2>6. putAcked' = putAcked
    BY <1>3, <1>6, <1>8, SameCaches
  <2> QED
    BY <1>4, <1>8, <2>1, <2>2, <2>4, <2>5, <2>6
<1>9. CASE m.mtype = "Fwd_GetM"
  <2>1. fwdS[p] = NoProc
    <3> SUFFICES ASSUME fwdS[p] # NoProc PROVE FALSE
      OBVIOUS
    <3>1. fwdS[p] \in Proc
      BY <1>3
    <3>2. Holds(fwd_chan[p], "Fwd_GetS", fwdS[p])
      BY <1>1, <3>1 DEF Faithful
    <3>3. Kind("Fwd_GetS") = Kind("Fwd_GetM") /\ "Fwd_GetS" # "Fwd_GetM"
      BY DEF Kind
    <3> QED
      BY <1>2, <1>5, <1>9, <3>2, <3>3, OneOfKind
  <2>2. fwdM' = [fwdM EXCEPT ![p] = NoProc]
    <3>1. \A x, q \in Proc : fwdM'[x] = q <=> fwdM[x] = q /\ x # p
      BY <1>6, <1>9 DEF Kind
    <3> QED
      BY <1>0, <1>3, <3>1, SenderGone
  <2>3. \A x, q \in Proc : fwdS'[x] = q <=> fwdS[x] = q
    BY <1>0, <1>6, <2>1
  <2>4. fwdS' = fwdS
    BY <1>0, <1>3, <2>3, SameSenders
  <2>5. invalidator' = invalidator
    BY <1>0, <1>3, <1>6, <1>9, SameSenders
  <2>6. putAcked' = putAcked
    BY <1>3, <1>6, <1>9, SameCaches
  <2> QED
    BY <1>4, <1>9, <2>1, <2>2, <2>4, <2>5, <2>6
<1>10. CASE m.mtype = "Put_Ack"
  <2>1. \A t, s : Kind(t) # "Put_Ack" => ~ Holds(fwd_chan[p], t, s)
    BY <1>2, <1>10 DEF Kind
  <2>2. \A s \in Proc : invalidator[p] # s /\ fwdS[p] # s /\ fwdM[p] # s
    BY <1>1, <2>1 DEF Faithful, Kind
  <2>3. fwdS[p] = NoProc /\ fwdM[p] = NoProc /\ invalidator[p] = NoProc
    BY <1>3, <2>2
  <2>4. fwdS' = fwdS /\ fwdM' = fwdM /\ invalidator' = invalidator
    BY <1>0, <1>3, <1>6, <1>10, SameSenders DEF Kind
  <2>5. putAcked' = putAcked \ {p}
    BY <1>3, <1>6, <1>10, SameCaches
  <2> QED
    BY <1>4, <1>10, <2>3, <2>4, <2>5
<1> QED
  BY <1>4, <1>7, <1>8, <1>9, <1>10

(* SendOrdered of an invalidation, of a forward and of a Put_Ack.          *)
Joins(to, t, s) ==
  \A x \in Proc : \A u, v : Holds(fwd_chan'[x], u, v) <=>
     \/ Holds(fwd_chan[x], u, v)
     \/ x \in to /\ t = u /\ s = v
SentBy(r, to, f) == [x \in Proc |-> IF x \in to THEN r ELSE f[x]]

(* A message that joins the queues of some caches changes only the view of *)
(* its type.                                                               *)
LEMMA Broadcast ==
  ASSUME Shape, Shape', NEW to \in SUBSET Proc, NEW r \in Proc, NEW t,
         Joins(to, t, r)
  PROVE  /\ IF t = "Inv"
              THEN (\A x \in to : invalidator[x] = NoProc) =>
                   invalidator' = SentBy(r, to, invalidator)
              ELSE UNCHANGED invalidator
         /\ IF t = "Fwd_GetS"
              THEN (\A x \in to : fwdS[x] = NoProc) =>
                   fwdS' = SentBy(r, to, fwdS)
              ELSE UNCHANGED fwdS
         /\ IF t = "Fwd_GetM"
              THEN (\A x \in to : fwdM[x] = NoProc) =>
                   fwdM' = SentBy(r, to, fwdM)
              ELSE UNCHANGED fwdM
         /\ UNCHANGED putAcked
<1>0. NoProc \notin Proc /\ Dir \notin Proc
  BY NodeAssumption
<1>1. Faithful /\ Faithful'
  BY ViewIs, ViewIsNext
<1>2. /\ invalidator \in [Proc -> Proc \cup {NoProc}]
      /\ invalidator' \in [Proc -> Proc \cup {NoProc}]
      /\ fwdS \in [Proc -> Proc \cup {NoProc}]
           /\ fwdS' \in [Proc -> Proc \cup {NoProc}]
      /\ fwdM \in [Proc -> Proc \cup {NoProc}]
           /\ fwdM' \in [Proc -> Proc \cup {NoProc}]
      /\ putAcked \in SUBSET Proc /\ putAcked' \in SUBSET Proc
  BY <1>1 DEF Faithful, ViewOK
<1>3. /\ \A x, q \in Proc : invalidator'[x] = q <=>
           invalidator[x] = q \/ (t = "Inv" /\ x \in to /\ q = r)
      /\ \A x, q \in Proc : fwdS'[x] = q <=>
           fwdS[x] = q \/ (t = "Fwd_GetS" /\ x \in to /\ q = r)
      /\ \A x, q \in Proc : fwdM'[x] = q <=>
           fwdM[x] = q \/ (t = "Fwd_GetM" /\ x \in to /\ q = r)
      /\ \A x \in Proc : x \in putAcked' <=> x \in putAcked
  <2> SUFFICES ASSUME NEW x \in Proc
               PROVE  /\ \A q \in Proc : invalidator'[x] = q <=>
                           invalidator[x] = q
                             \/ (t = "Inv" /\ x \in to /\ q = r)
                      /\ \A q \in Proc : fwdS'[x] = q <=>
                           fwdS[x] = q
                             \/ (t = "Fwd_GetS" /\ x \in to /\ q = r)
                      /\ \A q \in Proc : fwdM'[x] = q <=>
                           fwdM[x] = q
                             \/ (t = "Fwd_GetM" /\ x \in to /\ q = r)
                      /\ x \in putAcked' <=> x \in putAcked
    OBVIOUS
  <2>1. ASSUME NEW q \in Proc
        PROVE  invalidator'[x] = q <=>
                 invalidator[x] = q \/ (t = "Inv" /\ x \in to /\ q = r)
    <3>1. Holds(fwd_chan'[x], "Inv", q) <=>
            Holds(fwd_chan[x], "Inv", q) \/ (t = "Inv" /\ x \in to /\ q = r)
      BY DEF Joins
    <3> QED
      BY <1>1, <3>1 DEF Faithful
  <2>2. ASSUME NEW q \in Proc
        PROVE  fwdS'[x] = q <=>
                 fwdS[x] = q \/ (t = "Fwd_GetS" /\ x \in to /\ q = r)
    <3>1. Holds(fwd_chan'[x], "Fwd_GetS", q) <=>
            Holds(fwd_chan[x], "Fwd_GetS", q)
              \/ (t = "Fwd_GetS" /\ x \in to /\ q = r)
      BY DEF Joins
    <3> QED
      BY <1>1, <3>1 DEF Faithful
  <2>3. ASSUME NEW q \in Proc
        PROVE  fwdM'[x] = q <=>
                 fwdM[x] = q \/ (t = "Fwd_GetM" /\ x \in to /\ q = r)
    <3>1. Holds(fwd_chan'[x], "Fwd_GetM", q) <=>
            Holds(fwd_chan[x], "Fwd_GetM", q)
              \/ (t = "Fwd_GetM" /\ x \in to /\ q = r)
      BY DEF Joins
    <3> QED
      BY <1>1, <3>1 DEF Faithful
  <2>4. x \in putAcked' <=> x \in putAcked
    BY <1>0, <1>1 DEF Faithful, Joins
  <2> QED
    BY <2>1, <2>2, <2>3, <2>4
<1>4. t # "Inv" => UNCHANGED invalidator
  BY <1>0, <1>2, <1>3, SameSenders
<1>5. t # "Fwd_GetS" => UNCHANGED fwdS
  BY <1>0, <1>2, <1>3, SameSenders
<1>6. t # "Fwd_GetM" => UNCHANGED fwdM
  BY <1>0, <1>2, <1>3, SameSenders
<1>7. UNCHANGED putAcked
  BY <1>2, <1>3, SameCaches
<1>8. t = "Inv" /\ (\A x \in to : invalidator[x] = NoProc) =>
        invalidator' = SentBy(r, to, invalidator)
  BY <1>0, <1>2, <1>3, SenderNew DEF SentBy
<1>9. t = "Fwd_GetS" /\ (\A x \in to : fwdS[x] = NoProc) =>
        fwdS' = SentBy(r, to, fwdS)
  BY <1>0, <1>2, <1>3, SenderNew DEF SentBy
<1>10. t = "Fwd_GetM" /\ (\A x \in to : fwdM[x] = NoProc) =>
        fwdM' = SentBy(r, to, fwdM)
  BY <1>0, <1>2, <1>3, SenderNew DEF SentBy
<1> QED
  BY <1>4, <1>5, <1>6, <1>7, <1>8, <1>9, <1>10

(* The directory acknowledges a Put.                                       *)
LEMMA PutAcked ==
  ASSUME Shape, Shape', NEW p \in Proc, NEW to, to = {p},
         Joins(to, "Put_Ack", Dir)
  PROVE  putAcked' = putAcked \cup {p}
           /\ UNCHANGED <<invalidator, fwdS, fwdM>>
<1>0. NoProc \notin Proc /\ Dir \notin Proc
  BY NodeAssumption
<1>1. Faithful /\ Faithful'
  BY ViewIs, ViewIsNext
<1>2. /\ invalidator \in [Proc -> Proc \cup {NoProc}]
      /\ invalidator' \in [Proc -> Proc \cup {NoProc}]
      /\ fwdS \in [Proc -> Proc \cup {NoProc}]
           /\ fwdS' \in [Proc -> Proc \cup {NoProc}]
      /\ fwdM \in [Proc -> Proc \cup {NoProc}]
           /\ fwdM' \in [Proc -> Proc \cup {NoProc}]
      /\ putAcked \in SUBSET Proc /\ putAcked' \in SUBSET Proc
  BY <1>1 DEF Faithful, ViewOK
<1>3. /\ \A x, q \in Proc : invalidator'[x] = q <=> invalidator[x] = q
      /\ \A x, q \in Proc : fwdS'[x] = q <=> fwdS[x] = q
      /\ \A x, q \in Proc : fwdM'[x] = q <=> fwdM[x] = q
      /\ \A x \in Proc : x \in putAcked' <=> x \in putAcked \cup {p}
  BY <1>0, <1>1 DEF Faithful, Joins
<1>4. UNCHANGED <<invalidator, fwdS, fwdM>>
  BY <1>0, <1>2, <1>3, SameSenders
<1>5. putAcked' = putAcked \cup {p}
  BY <1>2, <1>3, SameCaches
<1> QED
  BY <1>4, <1>5


-----------------------------------------------------------------------------
(***************************************************************************)
(* Every handler that does not throw takes one of the steps.               *)
(***************************************************************************)
LEMMA NoFailure == error' = "none" => \A out : ~ SendFails(out)
BY DEF SendFails, Throw

(* A cache in a stable state has no request under way.                     *)
LEMMA Idle ==
  ASSUME ViewOK, ProtocolInv, NEW p \in Proc, l1_state[p] \in Stable
  PROVE  request[p] = "none"
BY DEF ViewOK, ProtocolInv, RequestInv, Stable, Requests, Upgrading, Putting

(* A processor event is a step in which a cache asks.                      *)
LEMMA RequestStep ==
  ASSUME Shape, ProtocolInv, NEW p \in Proc, NEW from, NEW t, NEW to,
         Request(p, from, t, to), error' = "none",
         \/ from = "I" /\ t = "GetS" /\ to = "IS_D"
         \/ from = "I" /\ t = "GetM" /\ to = "IM_AD"
         \/ from = "S" /\ t = "GetM" /\ to = "SM_AD"
         \/ from = "S" /\ t = "PutS" /\ to = "SI_A"
         \/ from = "M" /\ t = "PutM" /\ to = "MI_A"
  PROVE  Shape' /\ ProtocolInv'
<1>1. /\ Send({To(Dir, t, p, 0)}, Dir, {}) /\ l1_state[p] = from
      /\ l1_state' = [l1_state EXCEPT ![p] = to]
      /\ UNCHANGED <<need_acks, fwd_chan, dirVars>>
  BY NoFailure DEF Request
<1>2. /\ t \in Requests /\ to \in L1State
      /\ l1_state[p] \in Stable
  BY <1>1 DEF Requests, L1State, Stable
<1>3. ViewOK
  BY ViewIs DEF Faithful
<1>4. request[p] = "none"
  BY <1>2, <1>3, Idle
<1>5. Sendable({To(Dir, t, p, 0)})
  BY <1>2, <1>4, Envelope DEF Sendable
<1>6. chan' \in [Node -> SUBSET Msg] /\ ChanShape'
  <2> PICK out, got : out = {To(Dir, t, p, 0)} /\ got = {}
    OBVIOUS
  <2>1. Send(out, Dir, got) /\ Sendable(out)
    BY <1>1, <1>5
  <2> QED
    BY <2>1, SentShape
<1>7. Shape'
  BY <1>1, <1>2, <1>6 DEF Shape, TypeOK, QueueShape, dirVars, Error
<1>8. /\ request' = [request EXCEPT ![p] = t]
      /\ UNCHANGED <<writebacks, served, announced, acked>>
  BY <1>1, <1>2, <1>7, RequestSent
<1>9. Asks(p, t, to)
  BY <1>1, <1>8, QueueUnchanged DEF Asks, queueView, dirVars
<1> QED
  BY <1>3, <1>7, <1>9, AsksPreserves

(* What a cache that handles a message does to its own state.              *)
Moves(p, to, acks) ==
  /\ l1_state' = [l1_state EXCEPT ![p] = to]
  /\ need_acks' = [need_acks EXCEPT ![p] = acks]
  /\ UNCHANGED <<dir_state, owner, sharers>>

(* A message from the unordered channel is data or an acknowledgement.     *)
LEMMA L1TakesChan ==
  ASSUME Shape, NEW p \in Proc, NEW m, NEW to \in L1State, NEW acks \in Int,
         L1Handle(p, m, "chan", to, acks, {}), error' = "none"
  PROVE  /\ Shape' /\ Send({}, p, {m})
         /\ Moves(p, to, acks) /\ UNCHANGED queueView
<1>1. /\ Send({}, p, {m})
      /\ fwd_chan' = fwd_chan
      /\ l1_state' = [l1_state EXCEPT ![p] = to]
      /\ need_acks' = [need_acks EXCEPT ![p] = acks]
      /\ UNCHANGED <<dir_state, owner, sharers>>
  BY NoFailure DEF L1Handle, dirVars
<1>2. Sendable({})
  BY DEF Sendable
<1>3. chan' \in [Node -> SUBSET Msg] /\ ChanShape'
  <2> PICK out, got : out = {} /\ got = {m}
    OBVIOUS
  <2>1. Send(out, p, got) /\ Sendable(out)
    BY <1>1, <1>2
  <2> QED
    BY <2>1, SentShape
<1>4. Shape'
  BY <1>1, <1>3 DEF Shape, TypeOK, QueueShape, Error
<1> QED
  BY <1>1, <1>4, QueueUnchanged DEF Moves

(* The handler of data is a step in which a cache reads or writes.         *)
LEMMA L1DataStep ==
  ASSUME Shape, ProtocolInv, NEW p \in Proc, NEW m \in chan[p],
         L1Data(p, m, "chan"), error' = "none"
  PROVE  Shape' /\ ProtocolInv'
<1>0. ViewOK
  BY ViewIs DEF Faithful
<1>1. /\ need_acks \in [Proc -> Int] /\ need_acks[p] \in Int
      /\ l1_state \in [Proc -> L1State]
      /\ m.mtype = "Data" /\ m.need_acks \in Nat
      /\ announced \in [Proc -> Nat]
      /\ m.src # Dir => m.need_acks = 0
  <2>1. m \in Msg
    BY DEF Shape, TypeOK, Node
  <2> QED
    BY <1>0, <2>1 DEF Shape, TypeOK, L1Data, Msg, ViewOK, ChanShape
<1>2. CASE l1_state[p] = "IS_D"
        /\ L1Handle(p, m, "chan", "S", need_acks[p], {})
  <2>1. "S" \in L1State
    BY DEF L1State
  <2>2. /\ Shape' /\ Send({}, p, {m})
        /\ Moves(p, "S", need_acks[p]) /\ UNCHANGED queueView
    BY <1>1, <1>2, <2>1, L1TakesChan
  <2>3. ReadsData(p)
    <3>1. need_acks = [need_acks EXCEPT ![p] = need_acks[p]]
      BY <1>1
    <3> QED
      BY <1>1, <1>2, <2>2, <3>1, DataTaken DEF ReadsData, Moves, queueView
  <2> QED
    BY <1>0, <2>2, <2>3, ReadsDataPreserves
<1>3. ASSUME NEW to \in L1State, NEW acks \in Int, l1_state[p] \in Upgrading,
             L1Handle(p, m, "chan", to, acks, {}),
             acks = need_acks[p] + announced[p],
             IF announced[p] = 0 \/ acks = 0 THEN to = "M"
               ELSE to \in Counting
      PROVE  Shape' /\ ProtocolInv'
  <2>1. /\ Shape' /\ Send({}, p, {m})
        /\ Moves(p, to, acks) /\ UNCHANGED queueView
    BY <1>3, L1TakesChan
  <2>2. /\ p \in served
        /\ served' = served \ {p}
        /\ announced' = [announced EXCEPT ![p] = 0]
        /\ UNCHANGED <<request, writebacks, acked>>
    BY <1>1, <2>1, DataTaken
  <2>3. WritesData(p, to)
    BY <1>3, <2>1, <2>2 DEF WritesData, Moves, queueView
  <2> QED
    BY <1>0, <2>1, <2>3, WritesDataPreserves
<1>4. announced[p] = IF m.src = Dir THEN m.need_acks ELSE 0
  BY <1>1, ViewIs DEF Faithful
<1>5. ASSUME NEW step \in {<<"IM_AD", "IM_A">>, <<"SM_AD", "SM_A">>},
             l1_state[p] = step[1], m.src = Dir /\ m.need_acks # 0,
             L1Handle(p, m, "chan",
               IF AcksAnnounced(p, m) = 0 THEN "M" ELSE step[2],
               AcksAnnounced(p, m), {})
      PROVE  Shape' /\ ProtocolInv'
  <2> PICK acks, to : /\ acks = AcksAnnounced(p, m)
                      /\ to = IF acks = 0 THEN "M" ELSE step[2]
    OBVIOUS
  <2>1. acks \in Int /\ acks = need_acks[p] + announced[p]
    BY <1>1, <1>4, <1>5 DEF AcksAnnounced
  <2>2. /\ to \in L1State /\ l1_state[p] \in Upgrading
        /\ IF announced[p] = 0 \/ acks = 0 THEN to = "M" ELSE to \in Counting
    BY <1>4, <1>5 DEF L1State, Upgrading, Counting
  <2>3. L1Handle(p, m, "chan", to, acks, {})
    BY <1>5
  <2> QED
    BY <1>3, <2>1, <2>2, <2>3
<1>6. ASSUME NEW step \in {<<"IM_AD", "IM_A">>, <<"SM_AD", "SM_A">>},
             l1_state[p] = step[1], m.src # Dir \/ m.need_acks = 0,
             L1Handle(p, m, "chan", "M", need_acks[p], {})
      PROVE  Shape' /\ ProtocolInv'
  <2>1. announced[p] = 0 /\ need_acks[p] = need_acks[p] + announced[p]
    BY <1>1, <1>4, <1>6
  <2>2. "M" \in L1State /\ l1_state[p] \in Upgrading
    BY <1>6 DEF L1State, Upgrading
  <2> QED
    BY <1>1, <1>3, <1>6, <2>1, <2>2
<1> QED
  BY <1>2, <1>5, <1>6 DEF L1Data

(* The handler of Inv_Ack is a step that counts an acknowledgement.        *)
LEMMA L1InvAckStep ==
  ASSUME Shape, ProtocolInv, NEW p \in Proc, NEW m \in chan[p],
         L1InvAck(p, m, "chan"), error' = "none"
  PROVE  Shape' /\ ProtocolInv'
<1>0. ViewOK
  BY ViewIs DEF Faithful
<1> PICK acks, to : /\ acks = need_acks[p] - 1
                    /\ to = IF acks = 0 /\ l1_state[p] # "SM_AD"
                              THEN "M" ELSE l1_state[p]
  OBVIOUS
<1>1. /\ acks \in Int /\ to \in L1State
      /\ l1_state[p] \in Upgrading \cup Counting
      /\ m.mtype = "Inv_Ack" /\ L1Handle(p, m, "chan", to, acks, {})
  BY DEF L1InvAck, Shape, TypeOK, L1State, Upgrading, Counting
<1>2. /\ Shape' /\ Send({}, p, {m})
      /\ Moves(p, to, acks) /\ UNCHANGED queueView
  BY <1>1, L1TakesChan
<1>3. /\ m.src \in Proc /\ m.src \in acked[p]
      /\ acked' = [acked EXCEPT ![p] = @ \ {m.src}]
      /\ UNCHANGED <<request, writebacks, served, announced>>
  BY <1>1, <1>2, AckTaken
<1>4. CountsAck(p, m.src, to)
  BY <1>1, <1>2, <1>3 DEF CountsAck, Moves, queueView
<1> QED
  BY <1>0, <1>2, <1>3, <1>4, CountsAckPreserves


(* A message from the ordered channel is an invalidation, a forward or the *)
(* acknowledgement of a Put.                                               *)
LEMMA L1TakesHead ==
  ASSUME Shape, NEW p \in Proc, NEW m, NEW to \in L1State, NEW acks \in Int,
         fwd_chan[p] # <<>>, NEW out, Sendable(out),
         L1Handle(p, m, "fwd_chan", to, acks, out), error' = "none"
  PROVE  /\ Shape' /\ Send(out, p, {}) /\ Moves(p, to, acks)
         /\ fwd_chan' = [fwd_chan EXCEPT ![p] = Tail(@)]
<1>1. /\ Send(out, p, {}) /\ Moves(p, to, acks)
      /\ fwd_chan' = [fwd_chan EXCEPT ![p] = Tail(@)]
  BY NoFailure DEF L1Handle, Moves, dirVars
<1>2. chan' \in [Node -> SUBSET Msg] /\ ChanShape'
  BY <1>1, SentShape
<1>3. fwd_chan' \in [Proc -> Seq(Msg)] /\ QueueShape'
  BY <1>1, TakesHead
<1>4. Shape'
  BY <1>1, <1>2, <1>3 DEF Shape, TypeOK, Error, Moves
<1> QED
  BY <1>1, <1>4

(* The head of an ordered channel is in its view.                          *)
LEMMA HeadHeld ==
  ASSUME Shape, NEW p \in Proc, fwd_chan[p] # <<>>, NEW m,
           m = Head(fwd_chan[p])
  PROVE  \/ m.mtype = "Put_Ack" /\ p \in putAcked
         \/ /\ m.src \in Proc
            /\ \/ m.mtype = "Inv" /\ invalidator[p] = m.src
               \/ m.mtype = "Fwd_GetS" /\ fwdS[p] = m.src
               \/ m.mtype = "Fwd_GetM" /\ fwdM[p] = m.src
<1>1. fwd_chan[p] \in Seq(Msg)
  BY DEF Shape, TypeOK
<1>2. 1 \in DOMAIN fwd_chan[p] /\ fwd_chan[p][1] = m
  BY <1>1
<1>3. Holds(fwd_chan[p], m.mtype, m.src)
  BY <1>2 DEF Holds
<1> QED
  BY <1>3, QueueHolds

(* The handler of Inv is a step that gives up a copy.                      *)
LEMMA L1InvStep ==
  ASSUME Shape, ProtocolInv, NEW p \in Proc, NEW m, fwd_chan[p] # <<>>,
         m = Head(fwd_chan[p]), L1Inv(p, m, "fwd_chan"), error' = "none"
  PROVE  Shape' /\ ProtocolInv'
<1>0. ViewOK /\ need_acks \in [Proc -> Int] /\ m.mtype = "Inv"
  BY ViewIs DEF Faithful, Shape, TypeOK, L1Inv
<1> PICK out : out = {To(m.src, "Inv_Ack", p, 0)}
  OBVIOUS
<1>1. PICK to \in {"I", "IM_AD", "II_A"} :
        /\ \/ l1_state[p] = "S" /\ to = "I"
           \/ l1_state[p] = "SM_AD" /\ to = "IM_AD"
           \/ l1_state[p] = "SI_A" /\ to = "II_A"
        /\ L1Handle(p, m, "fwd_chan", to, need_acks[p], out)
  <2>1. PICK step \in {<<"S", "I">>, <<"SM_AD", "IM_AD">>,
               <<"SI_A", "II_A">>} :
          /\ l1_state[p] = step[1]
          /\ L1Handle(p, m, "fwd_chan", step[2], need_acks[p], out)
    BY DEF L1Inv
  <2> QED
    BY <2>1
<1>2. to \in L1State /\ need_acks[p] \in Int
  BY <1>0, <1>1 DEF L1State
<1>3. m.src \in Proc
  BY <1>0, HeadHeld
<1>4. Sendable(out)
  BY <1>3, Envelope DEF Sendable
<1>5. /\ Shape' /\ Send(out, p, {}) /\ Moves(p, to, need_acks[p])
      /\ fwd_chan' = [fwd_chan EXCEPT ![p] = Tail(@)]
  BY <1>1, <1>2, <1>4, L1TakesHead
<1>6. /\ invalidator[p] = m.src
      /\ invalidator' = [invalidator EXCEPT ![p] = NoProc]
      /\ UNCHANGED <<fwdS, fwdM, putAcked>>
  BY <1>0, <1>5, HeadTaken
<1>7. /\ acked' = [acked EXCEPT ![m.src] = @ \cup {p}]
      /\ UNCHANGED <<request, writebacks, served, announced>>
  BY <1>3, <1>5, AckSent
<1>8. need_acks' = need_acks
  BY <1>0, <1>5 DEF Moves
<1>9. Invalidates(p, m.src, to)
  BY <1>1, <1>5, <1>6, <1>7, <1>8 DEF Invalidates, Moves
<1> QED
  BY <1>0, <1>3, <1>5, <1>9, InvalidatesPreserves

(* The handler of Fwd_GetS is a step that serves a reader.                 *)
LEMMA L1FwdGetSStep ==
  ASSUME Shape, ProtocolInv, NEW p \in Proc, NEW m, fwd_chan[p] # <<>>,
         m = Head(fwd_chan[p]), L1FwdGetS(p, m, "fwd_chan"), error' = "none"
  PROVE  Shape' /\ ProtocolInv'
<1>0. ViewOK /\ need_acks \in [Proc -> Int] /\ m.mtype = "Fwd_GetS"
  BY ViewIs DEF Faithful, Shape, TypeOK, L1FwdGetS
<1> PICK out : out = {To(m.src, "Data", p, 0), To(Dir, "Data", p, 0)}
  OBVIOUS
<1>1. PICK to \in {"S", "SI_A"} :
        /\ \/ l1_state[p] = "M" /\ to = "S"
           \/ l1_state[p] = "MI_A" /\ to = "SI_A"
        /\ L1Handle(p, m, "fwd_chan", to, need_acks[p], out)
  <2>1. PICK step \in {<<"M", "S">>, <<"MI_A", "SI_A">>} :
          /\ l1_state[p] = step[1]
          /\ L1Handle(p, m, "fwd_chan", step[2], need_acks[p], out)
    BY DEF L1FwdGetS
  <2> QED
    BY <2>1
<1>2. to \in L1State /\ need_acks[p] \in Int
  BY <1>0, <1>1 DEF L1State
<1>3. m.src \in Proc /\ fwdS[p] = m.src
  BY <1>0, HeadHeld
<1>4. m.src \notin served
  BY <1>3 DEF ProtocolInv, ForwardInv
<1>5. Sendable(out)
  <2>1. Dir \notin Proc /\ Node = Proc \cup {Dir} /\ 0 \in Nat
    BY NodeAssumption DEF Node
  <2> QED
    BY <1>3, <1>4, <2>1, Envelope DEF Sendable
<1>6. /\ Shape' /\ Send(out, p, {}) /\ Moves(p, to, need_acks[p])
      /\ fwd_chan' = [fwd_chan EXCEPT ![p] = Tail(@)]
  BY <1>1, <1>2, <1>5, L1TakesHead
<1>7. /\ fwdM[p] = NoProc
      /\ fwdS' = [fwdS EXCEPT ![p] = NoProc]
      /\ UNCHANGED <<invalidator, fwdM, putAcked>>
  BY <1>0, <1>6, HeadTaken
<1>8. /\ served' = served \cup {m.src}
      /\ writebacks' = writebacks \cup {p}
      /\ UNCHANGED <<request, announced, acked>>
  BY <1>3, <1>4, <1>6, DataSentToBoth
<1>9. need_acks' = need_acks
  BY <1>0, <1>6 DEF Moves
<1>10. ServesGetS(p, m.src, to)
  BY <1>1, <1>3, <1>6, <1>7, <1>8, <1>9 DEF ServesGetS, Moves
<1> QED
  BY <1>0, <1>3, <1>6, <1>10, ServesGetSPreserves

(* The handler of Fwd_GetM is a step that serves a writer.                 *)
LEMMA L1FwdGetMStep ==
  ASSUME Shape, ProtocolInv, NEW p \in Proc, NEW m, fwd_chan[p] # <<>>,
         m = Head(fwd_chan[p]), L1FwdGetM(p, m, "fwd_chan"), error' = "none"
  PROVE  Shape' /\ ProtocolInv'
<1>0. ViewOK /\ need_acks \in [Proc -> Int] /\ m.mtype = "Fwd_GetM"
  BY ViewIs DEF Faithful, Shape, TypeOK, L1FwdGetM
<1> PICK out : out = {To(m.src, "Data", p, 0)}
  OBVIOUS
<1>1. PICK to \in {"I", "II_A"} :
        /\ \/ l1_state[p] = "M" /\ to = "I"
           \/ l1_state[p] = "MI_A" /\ to = "II_A"
        /\ L1Handle(p, m, "fwd_chan", to, need_acks[p], out)
  <2>1. PICK step \in {<<"M", "I">>, <<"MI_A", "II_A">>} :
          /\ l1_state[p] = step[1]
          /\ L1Handle(p, m, "fwd_chan", step[2], need_acks[p], out)
    BY DEF L1FwdGetM
  <2> QED
    BY <2>1
<1>2. to \in L1State /\ need_acks[p] \in Int
  BY <1>0, <1>1 DEF L1State
<1>3. m.src \in Proc /\ fwdM[p] = m.src
  BY <1>0, HeadHeld
<1>4. m.src \notin served
  BY <1>3 DEF ProtocolInv, ForwardInv
<1>5. Sendable(out)
  <2>1. Dir \notin Proc /\ Node = Proc \cup {Dir} /\ 0 \in Nat
    BY NodeAssumption DEF Node
  <2> QED
    BY <1>3, <1>4, <2>1, Envelope DEF Sendable
<1>6. /\ Shape' /\ Send(out, p, {}) /\ Moves(p, to, need_acks[p])
      /\ fwd_chan' = [fwd_chan EXCEPT ![p] = Tail(@)]
  BY <1>1, <1>2, <1>5, L1TakesHead
<1>7. /\ fwdS[p] = NoProc
      /\ fwdM' = [fwdM EXCEPT ![p] = NoProc]
      /\ UNCHANGED <<invalidator, fwdS, putAcked>>
  BY <1>0, <1>6, HeadTaken
<1>8. /\ served' = served \cup {m.src}
      /\ UNCHANGED <<request, writebacks, announced, acked>>
  BY <1>3, <1>4, <1>6, DataSent
<1>9. need_acks' = need_acks
  BY <1>0, <1>6 DEF Moves
<1>10. ServesGetM(p, m.src, to)
  BY <1>1, <1>3, <1>6, <1>7, <1>8, <1>9 DEF ServesGetM, Moves
<1> QED
  BY <1>0, <1>3, <1>6, <1>10, ServesGetMPreserves

(* The handler of Put_Ack is a step that ends a Put.                       *)
LEMMA L1PutAckStep ==
  ASSUME Shape, ProtocolInv, NEW p \in Proc, NEW m, fwd_chan[p] # <<>>,
         m = Head(fwd_chan[p]), L1PutAck(p, m, "fwd_chan"), error' = "none"
  PROVE  Shape' /\ ProtocolInv'
<1>0. ViewOK /\ need_acks \in [Proc -> Int] /\ m.mtype = "Put_Ack"
  BY ViewIs DEF Faithful, Shape, TypeOK, L1PutAck
<1> PICK out : out = {}
  OBVIOUS
<1>1. /\ l1_state[p] \in Putting
      /\ L1Handle(p, m, "fwd_chan", "I", need_acks[p], out)
  BY DEF L1PutAck, Putting
<1>2. "I" \in L1State /\ need_acks[p] \in Int /\ Sendable(out)
  BY <1>0 DEF L1State, Sendable
<1>3. /\ Shape' /\ Send(out, p, {}) /\ Moves(p, "I", need_acks[p])
      /\ fwd_chan' = [fwd_chan EXCEPT ![p] = Tail(@)]
  BY <1>1, <1>2, L1TakesHead
<1>4. /\ p \in putAcked
      /\ fwdS[p] = NoProc /\ fwdM[p] = NoProc /\ invalidator[p] = NoProc
      /\ putAcked' = putAcked \ {p}
      /\ UNCHANGED <<invalidator, fwdS, fwdM>>
  BY <1>0, <1>3, HeadTaken
<1>5. UNCHANGED <<request, writebacks, served, announced, acked>>
  BY <1>3, NothingSent
<1>6. need_acks' = need_acks
  BY <1>0, <1>3 DEF Moves
<1>7. EndsPut(p)
  BY <1>1, <1>3, <1>4, <1>5, <1>6 DEF EndsPut, Moves
<1> QED
  BY <1>0, <1>3, <1>7, EndsPutPreserves


(* What the directory that handles a message does to its own state, and    *)
(* what the queues it sends to must not hold yet.                          *)
DirMoves(to, o, shr) ==
  /\ dir_state' = to /\ owner' = o /\ sharers' = shr
  /\ UNCHANGED <<l1_state, need_acks>>
Queueable(fwd, m) ==
  /\ m.mtype \in {"Inv", "Fwd_GetS", "Fwd_GetM", "Put_Ack"}
  /\ m.src \in IF m.mtype = "Put_Ack" THEN {Dir} ELSE Proc
  /\ \A x \in fwd :
       /\ x \notin putAcked
       /\ m.mtype = "Inv" => invalidator[x] = NoProc
       /\ m.mtype \in {"Fwd_GetS", "Fwd_GetM"} =>
            fwdS[x] = NoProc /\ fwdM[x] = NoProc

(* What the directory does with a message it takes.                        *)
LEMMA DirTakes ==
  ASSUME Shape, NEW got, NEW to \in DirState, NEW o \in Proc \cup {NoProc},
         NEW shr \in SUBSET Proc, NEW out, Sendable(out),
         NEW fwd \in SUBSET Proc, NEW m \in Msg, Queueable(fwd, m),
         DirHandle(got, to, o, shr, out, fwd, m), error' = "none"
  PROVE  /\ Shape' /\ Send(out, Dir, {got}) /\ DirMoves(to, o, shr)
         /\ Joins(fwd, m.mtype, m.src)
<1>1. /\ Send(out, Dir, {got}) /\ DirMoves(to, o, shr)
      /\ SendOrdered(fwd, m)
  BY NoFailure DEF DirHandle, DirMoves, cacheVars
<1>2. chan' \in [Node -> SUBSET Msg] /\ ChanShape'
  <2> PICK g : g = {got}
    OBVIOUS
  <2>1. Send(out, Dir, g)
    BY <1>1
  <2> QED
    BY <2>1, SentShape
<1>3. /\ fwd_chan' \in [Proc -> Seq(Msg)] /\ QueueShape'
      /\ Joins(fwd, m.mtype, m.src)
  BY <1>1, Extends DEF Queueable, Joins
<1>4. Shape'
  BY <1>1, <1>2, <1>3 DEF Shape, TypeOK, Error, DirMoves
<1> QED
  BY <1>1, <1>3, <1>4

(* Nothing is put in the queues when there is nobody to send to.           *)
LEMMA NobodyToTell ==
  ASSUME Shape, NEW got, NEW to, NEW o, NEW shr, NEW out, NEW m, NEW fwd,
           fwd = {},
         DirHandle(got, to, o, shr, out, fwd, m), error' = "none"
  PROVE  UNCHANGED queueView
<1>1. fwd_chan' = [p \in Proc |-> fwd_chan[p]]
  BY NoFailure DEF DirHandle, SendOrdered
<1>2. fwd_chan' = fwd_chan
  BY <1>1 DEF Shape, TypeOK
<1> QED
  BY <1>2, QueueUnchanged

(* A Put_Ack is a message of the directory.                                *)
LEMMA PutAckMessage ==
  /\ PutAck \in Msg /\ PutAck.mtype = "Put_Ack" /\ PutAck.src = Dir
  /\ \A fwd : fwd = {} => Queueable(fwd, PutAck)
<1>1. PutAck \in Msg /\ PutAck.mtype = "Put_Ack" /\ PutAck.src = Dir
  BY DEF PutAck, Message, Msg, MsgType, Node
<1> QED
  BY <1>1 DEF Queueable

(* A message in the directory's channel is in its view.                    *)
LEMMA DirHeld ==
  ASSUME Shape, NEW m \in chan[Dir]
  PROVE  /\ m.src \in Proc /\ m = Message(m.mtype, m.src, 0)
         /\ \/ m.mtype \in Requests /\ request[m.src] = m.mtype
            \/ m.mtype = "Data" /\ m.src \in writebacks
<1>1. m \in Msg
  BY DEF Shape, TypeOK, Node
<1>2. m.src \in Proc /\ m.need_acks = 0 /\ m.mtype \in Requests \cup {"Data"}
  BY DEF Shape, ChanShape
<1>3. m = Message(m.mtype, m.src, 0)
  BY <1>1, <1>2, MessageFields
<1>4. Faithful
  BY ViewIs
<1> QED
  BY <1>2, <1>3, <1>4 DEF Faithful

(* A cache that asks for the line is not served, and has no forward on its *)
(* account.                                                                *)
LEMMA Unserved ==
  ASSUME ProtocolInv, NEW r \in Proc, request[r] \in {"GetS", "GetM"}
  PROVE  r \notin served
BY DEF ProtocolInv, RequestInv

(* The directory grants a shared copy.                                     *)
LEMMA GrantsSStep ==
  ASSUME Shape, ProtocolInv, NEW m \in chan[Dir], m.mtype = "GetS",
         dir_state \in {"I", "S"},
         DirHandle(m, "S", owner, sharers \cup {m.src},
                   {To(m.src, "Data", Dir, 0)}, {}, PutAck),
         error' = "none"
  PROVE  Shape' /\ ProtocolInv'
<1>0. ViewOK
  BY ViewIs DEF Faithful
<1> PICK r : r = m.src
  OBVIOUS
<1>1. r \in Proc /\ m = Message("GetS", r, 0) /\ request[r] = "GetS"
  BY DirHeld
<1>2. r \notin served
  BY <1>1, Unserved
<1> PICK out, fwd, shr : /\ out = {To(r, "Data", Dir, 0)} /\ fwd = {}
                         /\ shr = sharers \cup {r}
  OBVIOUS
<1>3. Sendable(out) /\ Queueable(fwd, PutAck)
  BY <1>1, <1>2, Envelope, PutAckMessage DEF Sendable, Node
<1>4. /\ "S" \in DirState /\ owner \in Proc \cup {NoProc}
      /\ shr \in SUBSET Proc /\ fwd \in SUBSET Proc
  BY <1>1 DEF Shape, TypeOK, DirState
<1>5. DirHandle(m, "S", owner, shr, out, fwd, PutAck)
  OBVIOUS
<1>6. /\ Shape' /\ Send(out, Dir, {m}) /\ DirMoves("S", owner, shr)
      /\ UNCHANGED queueView
  BY <1>3, <1>4, <1>5, DirTakes, NobodyToTell, PutAckMessage
<1>7. /\ request' = [request EXCEPT ![r] = "none"]
      /\ served' = served \cup {r}
      /\ announced' = [announced EXCEPT ![r] = 0]
      /\ UNCHANGED <<writebacks, acked>>
  <2>1. "GetS" \in Requests /\ 0 \in Nat
    BY DEF Requests
  <2>2. Send({To(r, "Data", Dir, 0)}, Dir, {Message("GetS", r, 0)})
    BY <1>1, <1>6
  <2> QED
    BY <1>1, <1>2, <1>6, <2>1, <2>2, RequestAnswered
<1>8. GrantsS(r)
  BY <1>1, <1>6, <1>7 DEF GrantsS, DirMoves, queueView
<1> QED
  BY <1>0, <1>1, <1>6, <1>8, GrantsSPreserves

(* The directory grants M: to is sent invalidations, none in I.            *)
LEMMA GrantsMStep ==
  ASSUME Shape, ProtocolInv, NEW m \in chan[Dir], m.mtype = "GetM",
         dir_state \in {"I", "S"}, NEW inv, inv \in Msg,
         IF Others(m) = {} THEN inv \in {PutAck, Message("Inv", m.src, 0)}
                           ELSE inv = Message("Inv", m.src, 0),
         DirHandle(m, "M", m.src, {},
                   {To(m.src, "Data", Dir, Cardinality(Others(m)))},
                   Others(m), inv),
         error' = "none"
  PROVE  Shape' /\ ProtocolInv'
<1>0. ViewOK /\ sharers \in SUBSET Proc
  BY ViewIs DEF Faithful, Shape, TypeOK
<1> PICK r : r = m.src
  OBVIOUS
<1>1. r \in Proc /\ m = Message("GetM", r, 0) /\ request[r] = "GetM"
  BY DirHeld
<1>2. r \notin served
  BY <1>1, Unserved
<1> PICK fwd : fwd = sharers \ {r}
  OBVIOUS
<1> PICK a : a = Cardinality(fwd)
  OBVIOUS
<1> PICK out, shr : out = {To(r, "Data", Dir, a)} /\ shr = {}
  OBVIOUS
<1>3. a \in Nat /\ fwd \in SUBSET Proc
  BY <1>0, CachesFinite
<1>4. Sendable(out)
  BY <1>1, <1>2, <1>3, Envelope DEF Sendable, Node
<1>5. \A x \in fwd : x \notin putAcked /\ invalidator[x] = NoProc
  <2> SUFFICES ASSUME NEW x \in fwd
                        PROVE x \notin putAcked /\ invalidator[x] = NoProc
    OBVIOUS
  <2>1. x \in sharers /\ x \in Proc
    BY <1>3
  <2>2. x \notin putAcked
    BY <2>1 DEF ProtocolInv, PutAckInv
  <2>3. fwdS[x] = NoProc
    <3> SUFFICES ASSUME fwdS[x] # NoProc PROVE FALSE
      OBVIOUS
    <3>1. PICK y \in Proc : fwdS[x] = y
      BY <1>0, <2>1 DEF ViewOK
    <3>2. dir_state = "S_D"
      BY <2>1, <3>1 DEF ProtocolInv, ForwardInv
    <3> QED
      BY <3>2
  <2> QED
    BY <2>1, <2>2, <2>3 DEF ProtocolInv, SharerInv
<1>6. Queueable(fwd, inv)
  <2>1. CASE inv = PutAck
    <3>1. fwd = {}
      BY <2>1, MessageFields DEF Others, PutAck
    <3> QED
      BY <2>1, <3>1, PutAckMessage
  <2>2. CASE inv = Message("Inv", r, 0)
    BY <1>1, <1>5, <2>2, MessageFields DEF Queueable
  <2> QED
    BY <2>1, <2>2
<1>7. DirHandle(m, "M", r, shr, out, fwd, inv)
  BY DEF Others
<1>8. /\ Shape' /\ Send(out, Dir, {m}) /\ DirMoves("M", r, shr)
      /\ Joins(fwd, inv.mtype, inv.src)
  <2>1. "M" \in DirState /\ shr \in SUBSET Proc /\ r \in Proc \cup {NoProc}
    BY <1>1 DEF DirState
  <2> QED
    BY <1>3, <1>4, <1>6, <1>7, <2>1, DirTakes
<1>9. /\ request' = [request EXCEPT ![r] = "none"]
      /\ served' = served \cup {r}
      /\ announced' = [announced EXCEPT ![r] = a]
      /\ UNCHANGED <<writebacks, acked>>
  <2>1. "GetM" \in Requests
    BY DEF Requests
  <2>2. Send({To(r, "Data", Dir, a)}, Dir, {Message("GetM", r, 0)})
    BY <1>1, <1>8
  <2> QED
    BY <1>1, <1>2, <1>3, <1>8, <2>1, <2>2, RequestAnswered
<1>10. /\ invalidator' = SentBy(r, fwd, invalidator)
       /\ UNCHANGED <<fwdS, fwdM, putAcked>>
  <2>1. fwd = {} \/ (inv.mtype = "Inv" /\ inv.src = r)
    BY MessageFields DEF Others
  <2>2. Joins(fwd, "Inv", r)
    BY <1>8, <2>1 DEF Joins
  <2> QED
    BY <1>1, <1>3, <1>5, <1>8, <2>2, Broadcast
<1>11. GrantsM(r)
  BY <1>1, <1>8, <1>9, <1>10 DEF GrantsM, DirMoves, SentBy
<1> QED
  BY <1>0, <1>1, <1>8, <1>11, GrantsMPreserves


(* The directory that does not have the line forwards a request.           *)
LEMMA ForwardStep ==
  ASSUME Shape, ProtocolInv, NEW m \in chan[Dir], dir_state = "M",
         NEW fwd, fwd = {owner}, NEW got, got = {m}, NEW out, out = {},
         \/ /\ m.mtype = "GetS"
            /\ DirHandle(m, "S_D", NoProc, sharers \cup {m.src, owner}, out,
                 fwd,
                         Message("Fwd_GetS", m.src, 0))
         \/ /\ m.mtype = "GetM"
            /\ DirHandle(m, "M", m.src, sharers, out, fwd,
                         Message("Fwd_GetM", m.src, 0)),
         error' = "none"
  PROVE  Shape' /\ ProtocolInv'
<1>0. /\ ViewOK /\ sharers \in SUBSET Proc /\ {"M", "S_D"} \subseteq DirState
      /\ {"GetS", "GetM"} \subseteq Requests
  BY ViewIs DEF Faithful, Shape, TypeOK, DirState, Requests
<1> PICK r : r = m.src
  OBVIOUS
<1>1. /\ r \in Proc /\ m = Message(m.mtype, r, 0)
      /\ m.mtype \in {"GetS", "GetM"} => request[r] = m.mtype
  BY DirHeld
<1>2. /\ owner \in Proc /\ fwd \in SUBSET Proc
      /\ fwdS[owner] = NoProc /\ fwdM[owner] = NoProc /\ owner \notin putAcked
  BY DEF ProtocolInv, DirectoryInv, PutAckInv
<1>3. Sendable(out)
  BY DEF Sendable
<1>4. ASSUME NEW t \in {"GetS", "GetM"}, m.mtype = t, NEW u, u \in MsgType,
             \/ t = "GetS" /\ u = "Fwd_GetS"
             \/ t = "GetM" /\ u = "Fwd_GetM",
             NEW to \in DirState, NEW o \in Proc \cup {NoProc},
             NEW shr \in SUBSET Proc,
             DirHandle(m, to, o, shr, out, fwd, Message(u, r, 0))
      PROVE  /\ Shape' /\ DirMoves(to, o, shr) /\ Joins(fwd, u, r)
             /\ request[r] = t
             /\ request' = [request EXCEPT ![r] = "none"]
             /\ UNCHANGED <<writebacks, served, announced, acked>>
  <2> PICK f : f = Message(u, r, 0)
    OBVIOUS
  <2>1. f \in Msg /\ f.mtype = u /\ f.src = r
    BY <1>1, <1>4, MessageFields DEF Node
  <2>2. Queueable(fwd, f)
    BY <1>1, <1>2, <1>4, <2>1 DEF Queueable
  <2>3. DirHandle(m, to, o, shr, out, fwd, f)
    BY <1>4
  <2>4. Shape' /\ Send(out, Dir, {m}) /\ DirMoves(to, o, shr)
          /\ Joins(fwd, u, r)
    <3>1. /\ Shape' /\ Send(out, Dir, {m}) /\ DirMoves(to, o, shr)
          /\ Joins(fwd, f.mtype, f.src)
      BY <1>2, <1>3, <1>4, <2>1, <2>2, <2>3, DirTakes
    <3> QED
      BY <2>1, <3>1
  <2>5. Send({}, Dir, {Message(t, r, 0)}) /\ request[r] = t /\ t \in Requests
    BY <1>0, <1>1, <1>4, <2>4
  <2>6. /\ request' = [request EXCEPT ![r] = "none"]
        /\ UNCHANGED <<writebacks, served, announced, acked>>
    BY <1>1, <2>4, <2>5, RequestTaken
  <2> QED
    BY <2>4, <2>5, <2>6
<1>5. CASE m.mtype = "GetS"
  <2> PICK shr : shr = sharers \cup {r, owner}
    OBVIOUS
  <2>1. /\ DirHandle(m, "S_D", NoProc, shr, out, fwd,
             Message("Fwd_GetS", r, 0))
        /\ shr \in SUBSET Proc /\ "Fwd_GetS" \in MsgType
    BY <1>0, <1>1, <1>2, <1>5 DEF MsgType
  <2>2. /\ Shape' /\ DirMoves("S_D", NoProc, shr) /\ Joins(fwd, "Fwd_GetS", r)
        /\ request[r] = "GetS"
        /\ request' = [request EXCEPT ![r] = "none"]
        /\ UNCHANGED <<writebacks, served, announced, acked>>
    BY <1>0, <1>4, <1>5, <2>1
  <2>3. /\ fwdS' = SentBy(r, fwd, fwdS)
        /\ UNCHANGED <<invalidator, fwdM, putAcked>>
    BY <1>1, <1>2, <2>2, Broadcast
  <2>4. fwdS' = [fwdS EXCEPT ![owner] = r]
    BY <1>0, <1>2, <2>3 DEF SentBy, ViewOK
  <2>5. ForwardsS(r)
    BY <1>2, <2>2, <2>3, <2>4 DEF ForwardsS, DirMoves
  <2> QED
    BY <1>0, <1>1, <2>2, <2>5, ForwardsSPreserves
<1>6. CASE m.mtype = "GetM"
  <2>1. /\ DirHandle(m, "M", r, sharers, out, fwd, Message("Fwd_GetM", r, 0))
        /\ "Fwd_GetM" \in MsgType
    BY <1>6 DEF MsgType
  <2>2. /\ Shape' /\ DirMoves("M", r, sharers) /\ Joins(fwd, "Fwd_GetM", r)
        /\ request[r] = "GetM"
        /\ request' = [request EXCEPT ![r] = "none"]
        /\ UNCHANGED <<writebacks, served, announced, acked>>
    BY <1>0, <1>1, <1>4, <1>6, <2>1
  <2>3. /\ fwdM' = SentBy(r, fwd, fwdM)
        /\ UNCHANGED <<invalidator, fwdS, putAcked>>
    BY <1>1, <1>2, <2>2, Broadcast
  <2>4. fwdM' = [fwdM EXCEPT ![owner] = r]
    BY <1>0, <1>2, <2>3 DEF SentBy, ViewOK
  <2>5. ForwardsM(r)
    BY <1>2, <2>2, <2>3, <2>4 DEF ForwardsM, DirMoves
  <2> QED
    BY <1>0, <1>1, <2>2, <2>5, ForwardsMPreserves
<1> QED
  BY <1>5, <1>6

(* The directory acknowledges a Put, whatever its state.                   *)
LEMMA PutStep ==
  ASSUME Shape, ProtocolInv, NEW m \in chan[Dir],
           m.mtype \in {"PutS", "PutM"},
         NEW to \in DirState, NEW o \in Proc \cup {NoProc},
         NEW shr \in SUBSET Proc, NEW out, out = {}, NEW fwd, fwd = {m.src},
         DirHandle(m, to, o, shr, out, fwd, PutAck), error' = "none",
         shr = sharers \ {m.src},
         IF dir_state = "M" /\ owner = m.src /\ m.mtype = "PutM"
           THEN to = "I" /\ o = NoProc
           ELSE /\ o = owner
                /\ to = dir_state \/ (dir_state = "S" /\ to = "I" /\ shr = {})
  PROVE  Shape' /\ ProtocolInv'
<1>0. ViewOK
  BY ViewIs DEF Faithful
<1> PICK p, t : p = m.src /\ t = m.mtype
  OBVIOUS
<1>1. /\ p \in Proc /\ m = Message(t, p, 0) /\ t \in Requests
           /\ request[p] = t
      /\ t \in {"PutS", "PutM"}
  BY DirHeld DEF Requests
<1>2. Sendable(out) /\ fwd \in SUBSET Proc
  BY <1>1 DEF Sendable
<1>3. Queueable(fwd, PutAck)
  <2>1. p \notin putAcked
    BY <1>1 DEF ProtocolInv, RequestInv
  <2> QED
    BY <2>1, PutAckMessage DEF Queueable
<1>4. /\ Shape' /\ Send(out, Dir, {m}) /\ DirMoves(to, o, shr)
      /\ Joins(fwd, "Put_Ack", Dir)
  <2> PICK f : f = PutAck
    OBVIOUS
  <2>1. f \in Msg /\ f.mtype = "Put_Ack" /\ f.src = Dir /\ Queueable(fwd, f)
    BY <1>3, PutAckMessage
  <2>2. DirHandle(m, to, o, shr, out, fwd, f)
    OBVIOUS
  <2>3. /\ Shape' /\ Send(out, Dir, {m}) /\ DirMoves(to, o, shr)
        /\ Joins(fwd, f.mtype, f.src)
    BY <1>2, <2>1, <2>2, DirTakes
  <2> QED
    BY <2>1, <2>3
<1>5. putAcked' = putAcked \cup {p} /\ UNCHANGED <<invalidator, fwdS, fwdM>>
  BY <1>1, <1>4, PutAcked
<1>6. /\ request' = [request EXCEPT ![p] = "none"]
      /\ UNCHANGED <<writebacks, served, announced, acked>>
  <2>1. Send({}, Dir, {Message(t, p, 0)})
    BY <1>1, <1>4
  <2> QED
    BY <1>1, <1>4, <2>1, RequestTaken
<1>7. CASE dir_state = "M" /\ owner = p /\ t = "PutM"
  <2>1. sharers = {}
    BY <1>7 DEF ProtocolInv, DirectoryInv
  <2>2. TakesBack(p)
    BY <1>1, <1>4, <1>5, <1>6, <1>7, <2>1 DEF TakesBack, DirMoves
  <2> QED
    BY <1>0, <1>1, <1>4, <2>2, TakesBackPreserves
<1>8. CASE ~ (dir_state = "M" /\ owner = p /\ t = "PutM")
  <2>1. AcksPut(p, t)
    BY <1>1, <1>4, <1>5, <1>6, <1>8 DEF AcksPut, DirMoves
  <2> QED
    BY <1>0, <1>1, <1>4, <2>1, AcksPutPreserves
<1> QED
  BY <1>7, <1>8

(* The directory receives the data it called back.                         *)
LEMMA EndsS_DStep ==
  ASSUME Shape, ProtocolInv, NEW m \in chan[Dir], m.mtype = "Data",
         dir_state = "S_D", NEW out, out = {}, NEW fwd, fwd = {},
         DirHandle(m, "S", owner, sharers, out, fwd, PutAck), error' = "none"
  PROVE  Shape' /\ ProtocolInv'
<1>0. /\ ViewOK /\ sharers \in SUBSET Proc /\ owner \in Proc \cup {NoProc}
      /\ "S" \in DirState
  BY ViewIs DEF Faithful, Shape, TypeOK, DirState
<1> PICK p : p = m.src
  OBVIOUS
<1>1. p \in Proc /\ m = Message("Data", p, 0) /\ p \in writebacks
  BY DirHeld DEF Requests
<1>2. Sendable(out) /\ fwd \in SUBSET Proc /\ Queueable(fwd, PutAck)
  BY PutAckMessage DEF Sendable
<1>3. /\ Shape' /\ Send(out, Dir, {m}) /\ DirMoves("S", owner, sharers)
      /\ UNCHANGED queueView
  BY <1>0, <1>2, DirTakes, NobodyToTell, PutAckMessage
<1>4. /\ writebacks' = writebacks \ {p}
      /\ UNCHANGED <<request, served, announced, acked>>
  <2>1. Send({}, Dir, {Message("Data", p, 0)})
    BY <1>1, <1>3
  <2> QED
    BY <1>1, <1>3, <2>1, WritebackTaken
<1>5. EndsS_D(p)
  BY <1>1, <1>3, <1>4 DEF EndsS_D, DirMoves, queueView
<1> QED
  BY <1>0, <1>1, <1>3, <1>5, EndsS_DPreserves


(* Every handler of the directory is one of the steps above.               *)
LEMMA DirReceiveStep ==
  ASSUME Shape, ProtocolInv, NEW m \in chan[Dir], DirReceive(m),
           error' = "none"
  PROVE  Shape' /\ ProtocolInv'
<1>0. /\ sharers \in SUBSET Proc /\ owner \in Proc \cup {NoProc}
      /\ dir_state \in DirState /\ {"I", "S", "M", "S_D"} \subseteq DirState
      /\ m.src \in Proc /\ m.mtype \in Requests \cup {"Data"}
  BY DirHeld DEF Shape, TypeOK, DirState
<1>1. \A e : e # "none" => ~ Throw(e)
  BY DEF Throw
<1>2. dir_state \in {"I", "M"} => sharers = {}
  BY DEF ProtocolInv, DirectoryInv
<1>3. Others(m) = sharers \ {m.src} /\ Others(m) \in SUBSET Proc
  BY <1>0 DEF Others
<1> PICK none, one : none = {} /\ one = {m.src}
  OBVIOUS
<1>4. ASSUME NEW to \in DirState, NEW o \in Proc \cup {NoProc},
             m.mtype \in {"PutS", "PutM"},
             DirHandle(m, to, o, Others(m), {}, {m.src}, PutAck),
             IF dir_state = "M" /\ owner = m.src /\ m.mtype = "PutM"
               THEN to = "I" /\ o = NoProc
               ELSE /\ o = owner
                    /\ \/ to = dir_state
                       \/ dir_state = "S" /\ to = "I" /\ Others(m) = {}
      PROVE  Shape' /\ ProtocolInv'
  <2> PICK shr : shr = Others(m)
    OBVIOUS
  <2>1. DirHandle(m, to, o, shr, none, one, PutAck) /\ shr = sharers \ {m.src}
        /\ shr \in SUBSET Proc
    BY <1>3, <1>4
  <2> QED
    BY <1>4, <2>1, PutStep
<1>5. CASE DirI(m)
  <2>1. dir_state = "I" /\ sharers = {} /\ Others(m) = {}
          /\ Others(m) = sharers
    BY <1>2, <1>3, <1>5 DEF DirI
  <2>2. CASE m.mtype = "GetS"
          /\ DirHandle(m, "S", owner, sharers \cup {m.src},
                                   {To(m.src, "Data", Dir, 0)}, {}, PutAck)
    BY <2>1, <2>2, GrantsSStep
  <2>3. CASE m.mtype = "GetM" /\ DirHandle(m, "M", m.src, sharers,
                                   {To(m.src, "Data", Dir, 0)}, {}, PutAck)
    <3> PICK inv : inv = PutAck
      OBVIOUS
    <3>1. Cardinality(Others(m)) = 0
      BY <2>1, CachesFinite
    <3>2. DirHandle(m, "M", m.src, {},
                    {To(m.src, "Data", Dir, Cardinality(Others(m)))},
                    Others(m), inv)
      BY <2>1, <2>3, <3>1
    <3> QED
      BY <2>1, <2>3, <3>2, GrantsMStep, PutAckMessage
  <2>4. CASE m.mtype \in {"PutS", "PutM"}
             /\ DirHandle(m, "I", owner, sharers, {}, {m.src}, PutAck)
    BY <1>0, <1>4, <2>1, <2>4
  <2> QED
    BY <1>1, <1>5, <2>1, <2>2, <2>3, <2>4 DEF DirI
<1>6. CASE DirS(m)
  <2>1. dir_state = "S"
    BY <1>6 DEF DirS
  <2>2. CASE m.mtype = "GetS"
          /\ DirHandle(m, "S", owner, sharers \cup {m.src},
                                   {To(m.src, "Data", Dir, 0)}, {}, PutAck)
    BY <2>1, <2>2, GrantsSStep
  <2>3. CASE m.mtype = "GetM"
             /\ DirHandle(m, "M", m.src, {},
                          {To(m.src, "Data", Dir, Cardinality(Others(m)))},
                          Others(m), Message("Inv", m.src, 0))
    <3> PICK inv : inv = Message("Inv", m.src, 0)
      OBVIOUS
    <3>1. inv \in Msg
      BY <1>0, MessageFields DEF MsgType, Node
    <3>2. DirHandle(m, "M", m.src, {},
                    {To(m.src, "Data", Dir, Cardinality(Others(m)))},
                    Others(m), inv)
      BY <2>3
    <3> QED
      BY <2>1, <2>3, <3>1, <3>2, GrantsMStep
  <2>4. CASE m.mtype = "PutS"
             /\ DirHandle(m, IF Others(m) = {} THEN "I" ELSE "S", owner,
                          Others(m), {}, {m.src}, PutAck)
    <3> PICK to : to = IF Others(m) = {} THEN "I" ELSE "S"
      OBVIOUS
    <3>1. DirHandle(m, to, owner, Others(m), {}, {m.src}, PutAck)
      BY <2>4
    <3> QED
      BY <1>0, <1>4, <2>1, <2>4, <3>1
  <2>5. CASE m.mtype = "PutM"
             /\ DirHandle(m, "S", owner, Others(m), {}, {m.src}, PutAck)
    BY <1>0, <1>4, <2>1, <2>5
  <2> QED
    BY <1>6, <2>2, <2>3, <2>4, <2>5 DEF DirS
<1>7. CASE DirM(m)
  <2>1. dir_state = "M" /\ sharers = {} /\ Others(m) = sharers
          /\ owner # NoProc
    BY <1>0, <1>1, <1>2, <1>3, <1>7 DEF DirM
  <2>2. CASE m.mtype \in {"GetS", "GetM"}
    <3> PICK fwd, got : fwd = {owner} /\ got = {m}
      OBVIOUS
    <3>1. \/ /\ m.mtype = "GetS"
             /\ DirHandle(m, "S_D", NoProc, sharers \cup {m.src, owner}, none,
                  fwd,
                          Message("Fwd_GetS", m.src, 0))
          \/ /\ m.mtype = "GetM"
             /\ DirHandle(m, "M", m.src, sharers, none, fwd,
                          Message("Fwd_GetM", m.src, 0))
      BY <1>7, <2>1, <2>2 DEF DirM
    <3> QED
      BY <2>1, <3>1, ForwardStep
  <2>3. CASE m.mtype \in {"PutS", "PutM"}
    <3>1. CASE owner = m.src /\ m.mtype = "PutM"
      <4>1. DirHandle(m, "I", NoProc, Others(m), {}, {m.src}, PutAck)
        BY <1>7, <2>1, <3>1 DEF DirM
      <4> QED
        BY <1>0, <1>4, <2>1, <3>1, <4>1
    <3>2. CASE ~ (owner = m.src /\ m.mtype = "PutM")
      <4>1. DirHandle(m, "M", owner, Others(m), {}, {m.src}, PutAck)
        BY <1>7, <2>1, <2>3, <3>2 DEF DirM
      <4> QED
        BY <1>0, <1>4, <2>1, <2>3, <3>2, <4>1
    <3> QED
      BY <3>1, <3>2
  <2> QED
    BY <1>7, <2>1, <2>2, <2>3 DEF DirM
<1>8. CASE DirS_D(m)
  <2>1. dir_state = "S_D"
    BY <1>8 DEF DirS_D
  <2>2. CASE m.mtype \in {"PutS", "PutM"}
             /\ DirHandle(m, "S_D", owner, Others(m), {}, {m.src}, PutAck)
    BY <1>0, <1>4, <2>1, <2>2
  <2>3. CASE m.mtype = "Data"
             /\ DirHandle(m, "S", owner, sharers, {}, {}, PutAck)
    <3>1. DirHandle(m, "S", owner, sharers, none, none, PutAck)
      BY <2>3
    <3> QED
      BY <2>1, <2>3, <3>1, EndsS_DStep
  <2> QED
    BY <1>8, <2>2, <2>3 DEF DirS_D
<1>9. ~ DirUnhandled(m)
  BY <1>1 DEF DirUnhandled
<1> QED
  BY <1>5, <1>6, <1>7, <1>8, <1>9 DEF DirReceive

(* Every handler of a cache is one of the steps above.                     *)
LEMMA L1ReceiveStep ==
  ASSUME Shape, ProtocolInv, NEW p \in Proc,
         L1ReceiveUnordered(p) \/ L1ReceiveOrdered(p), error' = "none"
  PROVE  Shape' /\ ProtocolInv'
<1>1. ASSUME NEW m, NEW queue PROVE ~ L1Unhandled(p, m)
  BY DEF L1Unhandled, Throw
<1>2. CASE L1ReceiveUnordered(p)
  <2>1. PICK m \in chan[p] : L1CacheReceive(p, m, "chan")
    BY <1>2 DEF L1ReceiveUnordered
  <2>2. m.mtype \in {"Data", "Inv_Ack"}
    BY DEF Shape, ChanShape
  <2>3. L1Data(p, m, "chan") \/ L1InvAck(p, m, "chan")
    BY <1>1, <2>1, <2>2
       DEF L1CacheReceive, L1Inv, L1FwdGetS, L1FwdGetM, L1PutAck
  <2> QED
    BY <2>3, L1DataStep, L1InvAckStep
<1>3. CASE L1ReceiveOrdered(p)
  <2> PICK m : m = Head(fwd_chan[p])
    OBVIOUS
  <2>1. fwd_chan[p] # <<>> /\ L1CacheReceive(p, m, "fwd_chan")
    BY <1>3 DEF L1ReceiveOrdered
  <2>2. m.mtype \notin {"Data", "Inv_Ack"}
    BY <2>1, HeadHeld
  <2>3. \/ L1Inv(p, m, "fwd_chan") \/ L1FwdGetS(p, m, "fwd_chan")
        \/ L1FwdGetM(p, m, "fwd_chan") \/ L1PutAck(p, m, "fwd_chan")
    BY <1>1, <2>1, <2>2 DEF L1CacheReceive, L1Data, L1InvAck
  <2> QED
    BY <2>1, <2>3, L1InvStep, L1FwdGetSStep, L1FwdGetMStep, L1PutAckStep
<1> QED
  BY <1>2, <1>3


-----------------------------------------------------------------------------
(***************************************************************************)
(* The invariant holds in every run, whatever the size of the channels.    *)
(***************************************************************************)
LEMMA InitInv == Init => Shape /\ ProtocolInv
<1> SUFFICES ASSUME Init PROVE Shape /\ ProtocolInv
  OBVIOUS
<1>0. NoProc \notin Proc /\ Dir \in Node /\ Proc \subseteq Node
  BY NodeAssumption DEF Node
<1>1. /\ \A n \in Node : chan[n] = {}
      /\ \A p \in Proc : fwd_chan[p] = <<>> /\ l1_state[p] = "I"
           /\ need_acks[p] = 0
      /\ dir_state = "I" /\ owner = NoProc /\ sharers = {}
  BY DEF Init
<1>2. TypeOK
  BY DEF Init, TypeOK, L1State, DirState, Error
<1>3. ChanShape /\ QueueShape
  BY <1>0, <1>1 DEF ChanShape, QueueShape, Distinct, AckLast
<1>4. Shape /\ Faithful
  BY <1>2, <1>3, ViewIs DEF Shape
<1>5. \A p \in Proc : \A t, s : ~ Holds(fwd_chan[p], t, s)
  BY <1>1 DEF Holds
<1>6. /\ \A p \in Proc : /\ request[p] = "none" /\ announced[p] = 0
                         /\ invalidator[p] = NoProc
                         /\ fwdS[p] = NoProc /\ fwdM[p] = NoProc
      /\ writebacks = {} /\ served = {} /\ putAcked = {}
      /\ \A p, q \in Proc : q \notin acked[p]
  <2>1. \A p \in Proc : /\ request[p] = "none" /\ announced[p] = 0
                        /\ p \notin writebacks /\ p \notin served
    <3> TAKE p \in Proc
    <3>1. chan[Dir] = {} /\ chan[p] = {}
      BY <1>0, <1>1
    <3>2. p \notin writebacks /\ p \notin served
      BY <1>4, <3>1 DEF Faithful
    <3>3. \A t \in Requests : request[p] # t
      BY <1>4, <3>1 DEF Faithful
    <3>4. request[p] = "none"
      BY <1>4, <3>3 DEF Faithful, ViewOK
    <3>5. announced[p] = 0
      BY <1>4, <3>2 DEF Faithful
    <3> QED
      BY <3>2, <3>4, <3>5
  <2>2. \A p, q \in Proc : q \notin acked[p]
    BY <1>0, <1>1, <1>4 DEF Faithful
  <2>3. \A p, q \in Proc : invalidator[p] # q /\ fwdS[p] # q /\ fwdM[p] # q
    BY <1>4, <1>5 DEF Faithful
  <2>4. \A p \in Proc : p \notin putAcked
    BY <1>4, <1>5 DEF Faithful
  <2>5. \A p \in Proc : /\ invalidator[p] = NoProc
                        /\ fwdS[p] = NoProc /\ fwdM[p] = NoProc
    BY <1>4, <2>3 DEF Faithful, ViewOK
  <2>6. writebacks = {} /\ served = {} /\ putAcked = {}
    BY <1>4, <2>1, <2>4 DEF Faithful, ViewOK
  <2> QED
    BY <2>1, <2>2, <2>5, <2>6
<1>7. /\ Holders = {} /\ Readers = {}
      /\ \A p \in Proc : pending[p] = {}
  BY <1>0, <1>1, <1>4, <1>6
     DEF Holders, Readers, pending, Upgrading, Counting, Faithful, ViewOK
<1>8. RequestInv /\ DataInv /\ ForwardInv /\ PutAckInv /\ DirectoryInv
  BY <1>0, <1>1, <1>6
    DEF RequestInv, DataInv, ForwardInv, PutAckInv, DirectoryInv
<1>9. SharerInv /\ HolderInv /\ ReaderInv /\ InvalidationInv
  BY <1>0, <1>1, <1>6, <1>7
    DEF SharerInv, HolderInv, ReaderInv, InvalidationInv
<1>10. CountInv
  BY <1>1, <1>6, <1>7, CachesFinite DEF CountInv, Upgrading
<1> QED
  BY <1>4, <1>8, <1>9, <1>10 DEF ProtocolInv

(* A step that changes nothing but the error.                              *)
LEMMA OnlyError ==
  ASSUME Shape, ProtocolInv, UNCHANGED <<cacheVars, netVars, dirVars>>,
         error' \in Error
  PROVE  Shape' /\ ProtocolInv'
<1>1. /\ UNCHANGED <<l1_state, need_acks, dir_state, owner, sharers>>
      /\ UNCHANGED chan /\ UNCHANGED fwd_chan
  BY DEF cacheVars, netVars, dirVars
<1>2. Shape'
  BY <1>1 DEF Shape, TypeOK, ChanShape, QueueShape
<1>3. UNCHANGED <<request, writebacks, served, announced, acked>>
  BY <1>1, ChanUnchanged
<1>4. UNCHANGED <<invalidator, fwdS, fwdM, putAcked>>
  BY <1>1, QueueUnchanged DEF queueView
<1>5. UNCHANGED <<Holders, Readers, Waiting, pending>>
  BY <1>1, <1>3, <1>4 DEF Holders, Readers, Waiting, pending
<1>6. RequestInv' /\ DataInv' /\ ForwardInv' /\ PutAckInv' /\ DirectoryInv'
  BY <1>1, <1>3, <1>4
     DEF ProtocolInv, RequestInv, DataInv, ForwardInv, PutAckInv, DirectoryInv
<1>7. SharerInv' /\ HolderInv' /\ ReaderInv' /\ InvalidationInv' /\ CountInv'
  BY <1>1, <1>3, <1>4, <1>5
     DEF ProtocolInv, SharerInv, HolderInv, ReaderInv, InvalidationInv,
       CountInv
<1> QED
  BY <1>2, <1>6, <1>7 DEF ProtocolInv

(* A step that fails throws, and a throw changes nothing but the error.    *)
Failed == UNCHANGED <<cacheVars, netVars, dirVars>> /\ error' \in Error

(* A step after which there is an error has failed.                        *)
LEMMA ThrowsOnly ==
  ASSUME Next, error' # "none"
  PROVE  Failed
<1>1. \A e \in Error : Throw(e) => Failed
  BY DEF Throw, Failed
<1>2. \A out : SendFails(out) => Failed
  BY <1>1 DEF SendFails, Error
<1>3. ASSUME NEW p, NEW m, NEW queue, NEW to, NEW acks, NEW out,
               error = "none",
             L1Handle(p, m, queue, to, acks, out)
      PROVE  Failed
  BY <1>2, <1>3 DEF L1Handle, Send
<1>4. ASSUME NEW got, NEW to, NEW o, NEW shr, NEW out, NEW fwd, NEW m,
             error = "none", DirHandle(got, to, o, shr, out, fwd, m)
      PROVE  Failed
  BY <1>2, <1>4 DEF DirHandle, Send
<1>5. PICK p \in Proc : L1Rules(p) \/ DirReceiveFrom(p)
  BY DEF Next
<1>6. CASE I_Read(p) \/ I_Write(p) \/ S_Write(p) \/ S_Replacement(p)
            \/ M_Replacement(p)
  BY <1>2, <1>6
     DEF I_Read, I_Write, S_Write, S_Replacement, M_Replacement, Request, Send
<1>7. CASE L1ReceiveUnordered(p) \/ L1ReceiveOrdered(p)
  <2>1. PICK m, queue : L1CacheReceive(p, m, queue)
    BY <1>7 DEF L1ReceiveUnordered, L1ReceiveOrdered
  <2>2. error = "none"
    BY <2>1 DEF L1CacheReceive, Arrives
  <2>3. CASE L1Inv(p, m, queue)
    BY <1>3, <2>2, <2>3 DEF L1Inv
  <2>4. CASE L1Data(p, m, queue)
    BY <1>3, <2>2, <2>4 DEF L1Data
  <2>5. CASE L1InvAck(p, m, queue)
    BY <1>3, <2>2, <2>5 DEF L1InvAck
  <2>6. CASE L1FwdGetS(p, m, queue) \/ L1FwdGetM(p, m, queue)
    BY <1>3, <2>2, <2>6 DEF L1FwdGetS, L1FwdGetM
  <2>7. CASE L1PutAck(p, m, queue)
    BY <1>3, <2>2, <2>7 DEF L1PutAck
  <2>8. CASE L1Unhandled(p, m)
    BY <1>1, <2>8 DEF L1Unhandled, Error
  <2> QED
    BY <2>1, <2>3, <2>4, <2>5, <2>6, <2>7, <2>8 DEF L1CacheReceive
<1>8. CASE DirReceiveFrom(p)
  <2>1. PICK m \in chan[Dir] : DirReceive(m)
    BY <1>8 DEF DirReceiveFrom
  <2>2. error = "none"
    BY <2>1 DEF DirReceive
  <2>3. CASE DirI(m)
    BY <1>1, <1>4, <2>2, <2>3 DEF DirI, Error
  <2>4. CASE DirS(m)
    BY <1>4, <2>2, <2>4 DEF DirS
  <2>5. CASE DirM(m)
    BY <1>1, <1>4, <2>2, <2>5 DEF DirM, Error
  <2>6. CASE DirS_D(m)
    BY <1>4, <2>2, <2>6 DEF DirS_D
  <2>7. CASE DirUnhandled(m)
    BY <1>1, <2>7 DEF DirUnhandled, Error
  <2> QED
    BY <2>1, <2>3, <2>4, <2>5, <2>6, <2>7 DEF DirReceive
<1> QED
  BY <1>5, <1>6, <1>7, <1>8 DEF L1Rules

(* Every step preserves the invariant.                                     *)
LEMMA NextInv == Shape /\ ProtocolInv /\ [Next]_vars => Shape' /\ ProtocolInv'
<1> SUFFICES ASSUME Shape, ProtocolInv, [Next]_vars
                      PROVE Shape' /\ ProtocolInv'
  OBVIOUS
<1>1. CASE UNCHANGED vars
  <2>1. UNCHANGED <<cacheVars, netVars, dirVars>> /\ error' \in Error
    BY <1>1 DEF vars, Shape, TypeOK
  <2> QED
    BY <2>1, OnlyError
<1>2. CASE Next /\ error' # "none"
  BY <1>2, ThrowsOnly, OnlyError DEF Failed
<1>3. CASE Next /\ error' = "none"
  <2>1. PICK p \in Proc : L1Rules(p) \/ DirReceiveFrom(p)
    BY <1>3 DEF Next
  <2>2. CASE I_Read(p)
    BY <1>3, <2>2, RequestStep DEF I_Read
  <2>3. CASE I_Write(p)
    BY <1>3, <2>3, RequestStep DEF I_Write
  <2>4. CASE S_Write(p)
    BY <1>3, <2>4, RequestStep DEF S_Write
  <2>5. CASE S_Replacement(p)
    BY <1>3, <2>5, RequestStep DEF S_Replacement
  <2>6. CASE M_Replacement(p)
    BY <1>3, <2>6, RequestStep DEF M_Replacement
  <2>7. CASE L1ReceiveUnordered(p) \/ L1ReceiveOrdered(p)
    BY <1>3, <2>7, L1ReceiveStep
  <2>8. CASE DirReceiveFrom(p)
    BY <1>3, <2>8, DirReceiveStep DEF DirReceiveFrom
  <2> QED
    BY <2>1, <2>2, <2>3, <2>4, <2>5, <2>6, <2>7, <2>8 DEF L1Rules
<1> QED
  BY <1>1, <1>2, <1>3

(* The shape of the channels and the invariant hold in every run.          *)
LEMMA Invariance == Spec => [](Shape /\ ProtocolInv)
BY InitInv, NextInv, PTL DEF Spec


-----------------------------------------------------------------------------
(***************************************************************************)
(* What the protocol promises.                                             *)
(***************************************************************************)

(* The caches, the directory and the channels hold what their types in     *)
(* models/msi_directory.cc allow, for any number of caches and slots.      *)
THEOREM TypeCorrect == Spec => []TypeOK
BY Invariance, PTL DEF Shape

(* The invariant the program itself checks holds for any number of caches  *)
(* and slots: while one cache has a modified copy no other has a copy.     *)
THEOREM SingleWriter == Spec => []SWMR
<1>1. Shape /\ ProtocolInv => SWMR
  <2> SUFFICES ASSUME Shape, ProtocolInv, NEW p \in Proc, NEW q \in Proc,
                      p # q, l1_state[p] = "M"
               PROVE  l1_state[q] \notin {"M", "S"}
    BY DEF SWMR
  <2>1. p \in Holders
    BY DEF Holders
  <2>2. l1_state[q] # "M"
    BY <2>1 DEF ProtocolInv, HolderInv, Holders
  <2>3. ASSUME l1_state[q] = "S" PROVE FALSE
    <3>1. q \in Readers
      BY <2>3 DEF Readers
    <3>2. q \in pending[p]
      BY <2>1, <3>1 DEF ProtocolInv, ReaderInv, pending
    <3>3. p \in Waiting
      BY <3>2 DEF ProtocolInv, InvalidationInv
    <3> QED
      BY <3>3 DEF Waiting, Upgrading, Counting
  <2> QED
    BY <2>2, <2>3
<1> QED
  BY <1>1, Invariance, PTL

(* The directory never loses track of a copy, for any number of caches and *)
(* slots: it knows the cache with the modified line and those with a       *)
(* shared one, or a message that tells them is on its way.                 *)
THEOREM DirectoryKnowsCopies == Spec => []DirectoryTracksCopies
<1>1. Shape /\ ProtocolInv => DirectoryTracksCopies
  <2> SUFFICES ASSUME Shape, ProtocolInv, NEW p \in Proc
               PROVE  /\ l1_state[p] \in {"M", "MI_A"} =>
                           \/ dir_state = "M" /\ owner = p
                           \/ OnItsWay(p, "Fwd_GetS")
                           \/ OnItsWay(p, "Fwd_GetM")
                           \/ OnItsWay(p, "Put_Ack")
                      /\ l1_state[p] = "S" =>
                           \/ dir_state \in {"S", "S_D"} /\ p \in sharers
                           \/ OnItsWay(p, "Inv")
    BY DEF DirectoryTracksCopies
  <2>1. Faithful
    BY ViewIs
  <2>2. \A t, s : Holds(fwd_chan[p], t, s) => OnItsWay(p, t)
    BY DEF Holds, OnItsWay
  <2>3. /\ fwdS[p] # NoProc => OnItsWay(p, "Fwd_GetS")
        /\ fwdM[p] # NoProc => OnItsWay(p, "Fwd_GetM")
        /\ invalidator[p] # NoProc => OnItsWay(p, "Inv")
        /\ p \in putAcked => OnItsWay(p, "Put_Ack")
    <3>1. /\ fwdS[p] \in Proc \cup {NoProc} /\ fwdM[p] \in Proc \cup {NoProc}
          /\ invalidator[p] \in Proc \cup {NoProc}
      BY <2>1 DEF Faithful, ViewOK
    <3>2. /\ fwdS[p] \in Proc => Holds(fwd_chan[p], "Fwd_GetS", fwdS[p])
          /\ fwdM[p] \in Proc => Holds(fwd_chan[p], "Fwd_GetM", fwdM[p])
          /\ invalidator[p] \in Proc
               => Holds(fwd_chan[p], "Inv", invalidator[p])
          /\ p \in putAcked => Holds(fwd_chan[p], "Put_Ack", Dir)
      BY <2>1 DEF Faithful
    <3> QED
      BY <2>2, <3>1, <3>2
  <2>4. ASSUME l1_state[p] \in {"M", "MI_A"}
        PROVE  \/ dir_state = "M" /\ owner = p
               \/ OnItsWay(p, "Fwd_GetS") \/ OnItsWay(p, "Fwd_GetM")
               \/ OnItsWay(p, "Put_Ack")
    <3>1. CASE p \in Holders
      BY <2>3, <3>1 DEF ProtocolInv, HolderInv
    <3>2. CASE p \notin Holders
      BY <2>3, <2>4, <3>2 DEF Holders
    <3> QED
      BY <3>1, <3>2
  <2>5. ASSUME l1_state[p] = "S"
        PROVE  \/ dir_state \in {"S", "S_D"} /\ p \in sharers
               \/ OnItsWay(p, "Inv")
    BY <2>3, <2>5 DEF ProtocolInv, ReaderInv, Readers
  <2> QED
    BY <2>4, <2>5
<1> QED
  BY <1>1, Invariance, PTL

(* Sets whose elements correspond are of the same size.                    *)
LEMMA SameSize ==
  ASSUME NEW S, NEW T, IsFiniteSet(T), NEW f \in [S -> T],
         \A a, b \in S : f[a] = f[b] => a = b,
         \A t \in T : \E s \in S : f[s] = t
  PROVE  IsFiniteSet(S) /\ Cardinality(S) = Cardinality(T)
<1>1. f \in Injection(S, T)
  BY DEF Injection, IsInjective
<1>2. f \in Surjection(S, T)
  BY DEF Surjection
<1> QED
  BY <1>1, <1>2, FS_Injection

(* The invalidations under way for a writer are as many as their           *)
(* receivers.                                                              *)
LEMMA InvalidationCount ==
  ASSUME Shape, NEW p \in Proc
  PROVE  Cardinality(Invalidations(p)) =
           Cardinality({q \in Proc : invalidator[q] = p})
<1> PICK S, T : S = Invalidations(p) /\ T = {q \in Proc : invalidator[q] = p}
  OBVIOUS
<1>0. Faithful /\ \A q \in Proc : Distinct(fwd_chan[q])
  BY ViewIs DEF Shape, QueueShape
<1>1. \A x : x \in S <=> \E q \in Proc : \E i \in DOMAIN fwd_chan[q] :
        x = <<q, i>> /\ fwd_chan[q][i].mtype = "Inv" /\ fwd_chan[q][i].src = p
  BY DEF Invalidations
<1> PICK f : f = [x \in S |-> x[1]]
  OBVIOUS
<1>2. f \in [S -> T]
  <2> SUFFICES ASSUME NEW x \in S PROVE x[1] \in T
    OBVIOUS
  <2>1. PICK q \in Proc : \E i \in DOMAIN fwd_chan[q] :
          x = <<q, i>> /\ fwd_chan[q][i].mtype = "Inv"
            /\ fwd_chan[q][i].src = p
    BY <1>1
  <2>2. Holds(fwd_chan[q], "Inv", p)
    BY <2>1 DEF Holds
  <2>3. invalidator[q] = p
    BY <1>0, <2>2 DEF Faithful
  <2> QED
    BY <2>1, <2>3
<1>3. ASSUME NEW a \in S, NEW b \in S, f[a] = f[b] PROVE a = b
  <2>1. PICK q \in Proc : \E i \in DOMAIN fwd_chan[q] :
          a = <<q, i>> /\ fwd_chan[q][i].mtype = "Inv"
    BY <1>1
  <2>2. PICK i \in DOMAIN fwd_chan[q] :
          a = <<q, i>> /\ fwd_chan[q][i].mtype = "Inv"
    BY <2>1
  <2>3. PICK r \in Proc : \E j \in DOMAIN fwd_chan[r] :
          b = <<r, j>> /\ fwd_chan[r][j].mtype = "Inv"
    BY <1>1
  <2>4. PICK j \in DOMAIN fwd_chan[r] :
          b = <<r, j>> /\ fwd_chan[r][j].mtype = "Inv"
    BY <2>3
  <2>5. q = r
    BY <1>3, <2>2, <2>4
  <2>6. i = j
    BY <1>0, <2>2, <2>4, <2>5 DEF Distinct
  <2> QED
    BY <2>2, <2>4, <2>5, <2>6
<1>4. ASSUME NEW q \in T PROVE \E s \in S : f[s] = q
  <2>1. Holds(fwd_chan[q], "Inv", p)
    BY <1>0 DEF Faithful
  <2>2. PICK i \in DOMAIN fwd_chan[q] :
          fwd_chan[q][i].mtype = "Inv" /\ fwd_chan[q][i].src = p
    BY <2>1 DEF Holds
  <2>3. <<q, i>> \in S /\ f[<<q, i>>] = q
    BY <1>1, <2>2
  <2> QED
    BY <2>3
<1>5. IsFiniteSet(T)
  BY CachesFinite
<1> QED
  BY <1>2, <1>3, <1>4, <1>5, SameSize

InvAcks(p) == {m \in chan[p] : m.mtype = "Inv_Ack"}

(* The acknowledgements under way to a writer are as many as their         *)
(* senders.                                                                *)
LEMMA InvAckCount ==
  ASSUME Shape, NEW p \in Proc
  PROVE  Cardinality(InvAcks(p)) = Cardinality(acked[p])
<1> PICK S, T : S = InvAcks(p) /\ T = acked[p]
  OBVIOUS
<1>0. Faithful /\ T \in SUBSET Proc
  BY ViewIs DEF Faithful, ViewOK
<1>1. \A m \in S : m.src \in Proc /\ m = Message("Inv_Ack", m.src, 0)
  <2> TAKE m \in S
  <2>1. m \in Msg
    BY DEF Shape, TypeOK, Node, InvAcks
  <2> QED
    BY <2>1, MessageFields DEF Shape, ChanShape, InvAcks
<1> PICK f : f = [m \in S |-> m.src]
  OBVIOUS
<1>2. f \in [S -> T]
  BY <1>0, <1>1 DEF Faithful, InvAcks
<1>3. \A a, b \in S : f[a] = f[b] => a = b
  BY <1>1
<1>4. ASSUME NEW q \in T PROVE \E s \in S : f[s] = q
  <2>1. Message("Inv_Ack", q, 0) \in S
    BY <1>0, MessageFields DEF Faithful, InvAcks
  <2> QED
    BY <2>1, MessageFields
<1>5. IsFiniteSet(T)
  BY <1>0, CachesFinite
<1>6. Cardinality(S) = Cardinality(T)
  BY <1>2, <1>3, <1>4, <1>5, SameSize
<1> QED
  BY <1>6

(* Whatever order data and acknowledgements arrive in, the ones a writer   *)
(* still waits for are the invalidations and acknowledgements under way    *)
(* for it, with any number of caches and slots.                            *)
THEOREM AcksBalance == Spec => []AcksAccountedFor
<1>1. Shape /\ ProtocolInv => AcksAccountedFor
  <2> SUFFICES ASSUME Shape, ProtocolInv, NEW p \in Proc, NEW n,
                      n = Cardinality(Invalidations(p))
                            + Cardinality({m \in chan[p] :
                              m.mtype = "Inv_Ack"})
               PROVE  IF Announced(p) = {} THEN need_acks[p] = n
                      ELSE \A m \in Announced(p) :
                        need_acks[p] + m.need_acks = n
    BY DEF AcksAccountedFor
  <2>0. Faithful /\ ViewOK
    BY ViewIs DEF Faithful
  <2> PICK U, V : U = {q \in Proc : invalidator[q] = p} /\ V = acked[p]
    OBVIOUS
  <2>1. n = Cardinality(U) + Cardinality(V)
    BY InvalidationCount, InvAckCount DEF InvAcks
  <2>2. /\ pending[p] = U \cup V /\ U \cap V = {}
        /\ U \in SUBSET Proc /\ V \in SUBSET Proc
    BY <2>0 DEF pending, ViewOK, ProtocolInv, InvalidationInv
  <2>3. Cardinality(pending[p]) = n
    <3>1. /\ IsFiniteSet(U) /\ IsFiniteSet(V) /\ Cardinality(U) \in Nat
          /\ Cardinality(V) \in Nat /\ Cardinality(U \cap V) = 0
      BY <2>2, CachesFinite, FS_EmptySet
    <3>2. Cardinality(U \cup V) =
            Cardinality(U) + Cardinality(V) - Cardinality(U \cap V)
      BY <3>1, FS_Union
    <3> QED
      BY <2>1, <2>2, <3>1, <3>2
  <2>4. need_acks[p] + announced[p] = n
    BY <2>3 DEF ProtocolInv, CountInv
  <2>5. ASSUME Announced(p) = {} PROVE need_acks[p] = n
    <3>1. announced[p] = 0
      BY <2>0, <2>5 DEF Faithful, Announced
    <3>2. need_acks[p] \in Int
      BY <2>0 DEF ViewOK
    <3> QED
      BY <2>4, <3>1, <3>2
  <2>6. ASSUME NEW m \in Announced(p) PROVE need_acks[p] + m.need_acks = n
    <3>1. announced[p] = m.need_acks
      BY <2>0 DEF Faithful, Announced
    <3> QED
      BY <2>4, <3>1
  <2> QED
    BY <2>5, <2>6
<1> QED
  BY <1>1, Invariance, PTL

-----------------------------------------------------------------------------
(***************************************************************************)
(* Nothing goes wrong with as many slots as the program has, one more than *)
(* there are caches (NET_MAX).                                             *)
(***************************************************************************)

(* A message of p, or to p, finds room: every message in the channel can   *)
(* be charged to a cache of its own.                                       *)
LEMMA Room ==
  ASSUME Cardinality(Proc) < NetMax, NEW S, NEW f \in [S -> Proc],
         \A a, b \in S : f[a] = f[b] => a = b
  PROVE  Cardinality(S) \in Nat /\ Cardinality(S) < NetMax
<1>1. f \in Injection(S, Proc)
  BY DEF Injection, IsInjective
<1>2. IsFiniteSet(Proc) /\ Cardinality(Proc) \in Nat /\ NetMax \in Nat
  BY NodeAssumption, FS_CardinalityType
<1>3. IsFiniteSet(S) /\ Cardinality(S) <= Cardinality(Proc)
  BY <1>1, <1>2, FS_Injection
<1>4. Cardinality(S) \in Nat
  BY <1>3, FS_CardinalityType
<1> QED
  BY <1>2, <1>3, <1>4

(* Besides at most one request of each cache the directory is sent at most *)
(* the data one cache writes back.                                         *)
LEMMA DirRoom ==
  ASSUME Shape, ProtocolInv, Cardinality(Proc) < NetMax, NEW p \in Proc,
         request[p] = "none" \/ writebacks = {}
  PROVE  Cardinality(chan[Dir]) \in Nat /\ Cardinality(chan[Dir]) < NetMax
<1> PICK S : S = chan[Dir]
  OBVIOUS
<1> PICK f : f = [m \in S |-> IF m.mtype = "Data" THEN p ELSE m.src]
  OBVIOUS
<1>1. \A m \in S :
        /\ m.src \in Proc /\ m = Message(m.mtype, m.src, 0)
        /\ \/ m.mtype \in Requests /\ request[m.src] = m.mtype
           \/ m.mtype = "Data" /\ m.src \in writebacks
  BY DirHeld
<1>2. f \in [S -> Proc]
  BY <1>1
<1>3. ASSUME NEW a \in S, NEW b \in S, f[a] = f[b] PROVE a = b
  <2>1. \A x, y \in writebacks : x = y
    BY DEF ProtocolInv, DirectoryInv
  <2>2. "Data" \notin Requests /\ "none" \notin Requests
    BY DEF Requests
  <2>3. CASE a.mtype = "Data" /\ b.mtype = "Data"
    <3>1. a.src = b.src
      BY <1>1, <2>1, <2>2, <2>3
    <3> QED
      BY <1>1, <2>3, <3>1
  <2>4. CASE a.mtype # "Data" /\ b.mtype # "Data"
    <3>1. a.src = b.src
      BY <1>3, <2>4
    <3>2. a.mtype = b.mtype
      BY <1>1, <2>4, <3>1
    <3> QED
      BY <1>1, <3>1, <3>2
  <2>5. CASE ~ (a.mtype = "Data" <=> b.mtype = "Data")
    <3>1. PICK m \in S, n \in S :
            m.mtype = "Data" /\ n.mtype # "Data" /\ f[m] = f[n]
      BY <1>3, <2>5
    <3>2. n.src = p /\ request[p] # "none"
      BY <1>1, <2>2, <3>1
    <3>3. m.src \in writebacks
      BY <1>1, <2>2, <3>1
    <3> QED
      BY <3>2, <3>3
  <2> QED
    BY <2>3, <2>4, <2>5
<1> QED
  BY <1>2, <1>3, Room

(* A cache is sent at most one data, and acknowledgements of the others.   *)
LEMMA CacheRoom ==
  ASSUME Shape, ProtocolInv, Cardinality(Proc) < NetMax, NEW p \in Proc
  PROVE  Cardinality(chan[p]) \in Nat /\ Cardinality(chan[p]) < NetMax
<1> PICK S : S = chan[p]
  OBVIOUS
<1> PICK f : f = [m \in S |-> IF m.mtype = "Data" THEN p ELSE m.src]
  OBVIOUS
<1>1. ASSUME NEW m \in S, m.mtype # "Data"
      PROVE  m = Message("Inv_Ack", m.src, 0) /\ m.src \in Proc /\ m.src # p
  <2>1. m \in Msg
    BY DEF Shape, TypeOK, Node
  <2>2. m = Message("Inv_Ack", m.src, 0) /\ m.src \in Proc
    BY <1>1, <2>1, MessageFields DEF Shape, ChanShape
  <2>3. m.src \in acked[p]
    BY <2>2, ViewIs DEF Faithful
  <2> QED
    BY <2>2, <2>3 DEF ProtocolInv, InvalidationInv
<1>2. f \in [S -> Proc]
  BY <1>1
<1>3. \A a, b \in S : a.mtype = "Data" /\ b.mtype = "Data" => a = b
  BY DEF Shape, ChanShape
<1>4. \A a, b \in S : f[a] = f[b] => a = b
  BY <1>1, <1>3
<1> QED
  BY <1>2, <1>4, Room

(* Messages for which there is room, and of which there is no copy.        *)
Deliverable(out) ==
  \A x \in out : /\ Cardinality(chan[x.dst]) \in Nat
                 /\ Cardinality(chan[x.dst]) < NetMax
                 /\ x.msg \notin chan[x.dst]

(* Sending messages for which there is room does not throw.                *)
LEMMA Delivers ==
  /\ \A out : Deliverable(out) => ~ SendFails(out)
  /\ \A out : out = {} => Deliverable(out)
<1>1. ASSUME NEW out, Deliverable(out) PROVE ~ Full(out)
  <2> SUFFICES ASSUME NEW x \in out, Cardinality(chan[x.dst]) >= NetMax
               PROVE  FALSE
    BY DEF Full
  <2>1. Cardinality(chan[x.dst]) \in Nat /\ Cardinality(chan[x.dst]) < NetMax
    BY <1>1 DEF Deliverable
  <2>2. NetMax \in Nat
    BY NodeAssumption
  <2> QED
    BY <2>1, <2>2
<1>2. ASSUME NEW out, Deliverable(out) PROVE ~ Copied(out)
  BY <1>2 DEF Deliverable, Copied
<1> QED
  BY <1>1, <1>2 DEF SendFails, Deliverable

(* A handler whose messages can be delivered does not throw.               *)
LEMMA Deliver ==
  ASSUME error = "none", NEW out, Deliverable(out)
  PROVE  /\ \A p, m, queue, to, acks :
              L1Handle(p, m, queue, to, acks, out) => error' = "none"
         /\ \A got, to, o, shr, fwd, m :
              DirHandle(got, to, o, shr, out, fwd, m) => error' = "none"
<1>1. ~ SendFails(out)
  BY Delivers
<1>2. \A n, got : Send(out, n, got) => error' = "none"
  BY DEF Send
<1> QED
  BY <1>1, <1>2 DEF L1Handle, DirHandle

(* No second data is sent to a cache that is not served yet.               *)
LEMMA DataDelivers ==
  ASSUME Shape, ProtocolInv, Cardinality(Proc) < NetMax,
         NEW r \in Proc, r \notin served, NEW s, NEW a, NEW x,
         x = To(r, "Data", s, a)
  PROVE  /\ Cardinality(chan[x.dst]) \in Nat
         /\ Cardinality(chan[x.dst]) < NetMax
         /\ x.msg \notin chan[x.dst]
<1>1. x.dst = r /\ x.msg.mtype = "Data"
  BY Envelope, MessageFields
<1>2. x.msg \notin chan[r]
  BY <1>1, ViewIs DEF Faithful
<1> QED
  BY <1>1, <1>2, CacheRoom

(* A cache asks for nothing while a request of its own is under way.       *)
LEMMA RequestThrowsNot ==
  ASSUME Shape, ProtocolInv, Cardinality(Proc) < NetMax, NEW p \in Proc,
         NEW from \in Stable, NEW t \in Requests, NEW to,
         Request(p, from, t, to)
  PROVE  error' = "none"
<1>1. Faithful /\ ViewOK
  BY ViewIs DEF Faithful
<1>2. l1_state[p] = from /\ error = "none"
  BY DEF Request
<1>3. request[p] = "none" /\ "none" \notin Requests
  BY <1>1, <1>2, Idle DEF Requests
<1> PICK out : out = {To(Dir, t, p, 0)}
  OBVIOUS
<1>4. Message(t, p, 0) \notin chan[Dir]
  BY <1>1, <1>3 DEF Faithful
<1>5. Deliverable(out)
  BY <1>3, <1>4, DirRoom, Envelope DEF Deliverable
<1>6. ~ SendFails(out)
  BY <1>5, Delivers
<1> QED
  BY <1>2, <1>6 DEF Request, Send

(* What each state handles of what can come in it.                         *)
LEMMA HandledIs ==
  /\ \A s \in {"IS_D", "IM_AD", "SM_AD"} : "Data" \in L1Handled[s]
  /\ \A s \in {"IM_AD", "SM_AD", "IM_A", "SM_A"} : "Inv_Ack" \in L1Handled[s]
  /\ \A s \in {"S", "SM_AD", "SI_A"} : "Inv" \in L1Handled[s]
  /\ \A s \in {"M", "MI_A"} : {"Fwd_GetS", "Fwd_GetM"} \subseteq L1Handled[s]
  /\ \A s \in {"MI_A", "SI_A", "II_A"} : "Put_Ack" \in L1Handled[s]
<1>1. /\ L1Handled["S"] = {"Inv"}
      /\ L1Handled["M"] = {"Fwd_GetS", "Fwd_GetM"}
      /\ L1Handled["IS_D"] = {"Data"}
      /\ L1Handled["IM_AD"] = {"Data", "Inv_Ack"}
      /\ L1Handled["IM_A"] = {"Inv_Ack"}
      /\ L1Handled["SM_AD"] = {"Inv", "Data", "Inv_Ack"}
      /\ L1Handled["SM_A"] = {"Inv_Ack"}
      /\ L1Handled["MI_A"] = {"Fwd_GetS", "Fwd_GetM", "Put_Ack"}
      /\ L1Handled["SI_A"] = {"Put_Ack", "Inv"}
      /\ L1Handled["II_A"] = {"Put_Ack"}
  BY DEF L1Handled
<1> QED
  BY <1>1

(* A message comes to a cache in no state but those that handle or stall   *)
(* it: from the unordered channel,                                         *)
LEMMA ChanExpected ==
  ASSUME Shape, ProtocolInv, NEW p \in Proc, NEW m \in chan[p]
  PROVE  ~ L1Unhandled(p, m)
<1>1. Faithful /\ ViewOK
  BY ViewIs DEF Faithful
<1>2. m.mtype = "Data" \/ (m.src \in Proc /\ m = Message("Inv_Ack", m.src, 0))
  <2>1. m \in Msg
    BY DEF Shape, TypeOK, Node
  <2> QED
    BY <2>1, MessageFields DEF Shape, ChanShape
<1>3. CASE m.mtype = "Data"
  <2>1. l1_state[p] \in {"IS_D", "IM_AD", "SM_AD"}
    BY <1>1, <1>3 DEF Faithful, ProtocolInv, DataInv, Upgrading
  <2> QED
    BY <1>3, <2>1, HandledIs DEF L1Unhandled
<1>4. CASE m.src \in Proc /\ m = Message("Inv_Ack", m.src, 0)
  <2>1. m.src \in acked[p] /\ m.mtype = "Inv_Ack"
    BY <1>1, <1>4, MessageFields DEF Faithful
  <2>2. pending[p] # {}
    BY <2>1 DEF pending
  <2>3. l1_state[p] \in {"IM_AD", "SM_AD", "IM_A", "SM_A"}
    BY <2>2 DEF ProtocolInv, InvalidationInv, Waiting, Upgrading, Counting
  <2> QED
    BY <2>1, <2>3, HandledIs DEF L1Unhandled
<1> QED
  BY <1>2, <1>3, <1>4

(* and from the ordered one.                                               *)
LEMMA HeadExpected ==
  ASSUME Shape, ProtocolInv, NEW p \in Proc, NEW m, fwd_chan[p] # <<>>,
         m = Head(fwd_chan[p])
  PROVE  ~ L1Unhandled(p, m)
<1>1. NoProc \notin Proc
  BY NodeAssumption
<1>2. CASE m.mtype = "Put_Ack" /\ p \in putAcked
  <2>1. l1_state[p] \in {"MI_A", "SI_A", "II_A"}
    BY <1>2 DEF ProtocolInv, PutAckInv, Putting
  <2> QED
    BY <1>2, <2>1, HandledIs DEF L1Unhandled
<1>3. CASE m.src \in Proc /\ m.mtype = "Inv" /\ invalidator[p] = m.src
  <2>1. l1_state[p] \in {"S", "SM_AD", "SI_A", "IS_D"}
    BY <1>1, <1>3 DEF ProtocolInv, InvalidationInv
  <2> QED
    BY <1>3, <2>1, HandledIs DEF L1Unhandled, L1Stalls
<1>4. CASE /\ m.src \in Proc
           /\ \/ m.mtype = "Fwd_GetS" /\ fwdS[p] = m.src
              \/ m.mtype = "Fwd_GetM" /\ fwdM[p] = m.src
  <2>1. l1_state[p] \in {"IM_AD", "SM_AD", "IM_A", "SM_A", "M", "MI_A"}
    BY <1>4 DEF ProtocolInv, ForwardInv, Owning
  <2> QED
    BY <1>4, <2>1, HandledIs DEF L1Unhandled, L1Stalls
<1> QED
  BY <1>2, <1>3, <1>4, HeadHeld

(* Taking a message from the unordered channel throws nothing,             *)
LEMMA ChanThrowsNot ==
  ASSUME Shape, ProtocolInv, NEW p \in Proc, L1ReceiveUnordered(p)
  PROVE  error' = "none"
<1>1. PICK m \in chan[p] : L1CacheReceive(p, m, "chan")
  BY DEF L1ReceiveUnordered
<1>2. m.mtype \in {"Data", "Inv_Ack"}
  BY DEF Shape, ChanShape
<1>3. L1Data(p, m, "chan") \/ L1InvAck(p, m, "chan")
  BY <1>1, <1>2, ChanExpected
     DEF L1CacheReceive, L1Inv, L1FwdGetS, L1FwdGetM, L1PutAck
<1>4. error = "none"
  BY <1>1 DEF L1CacheReceive, Arrives
<1>5. PICK to, acks : L1Handle(p, m, "chan", to, acks, {})
  <2>1. CASE L1Data(p, m, "chan")
    BY <2>1 DEF L1Data
  <2>2. CASE L1InvAck(p, m, "chan")
    BY <2>2 DEF L1InvAck
  <2> QED
    BY <1>3, <2>1, <2>2
<1> QED
  BY <1>4, <1>5, Deliver, Delivers

(* and neither does taking one from the ordered channel.                   *)
LEMMA HeadThrowsNot ==
  ASSUME Shape, ProtocolInv, Cardinality(Proc) < NetMax, NEW p \in Proc,
         L1ReceiveOrdered(p)
  PROVE  error' = "none"
<1> PICK m : m = Head(fwd_chan[p])
  OBVIOUS
<1>1. fwd_chan[p] # <<>> /\ L1CacheReceive(p, m, "fwd_chan")
  BY DEF L1ReceiveOrdered
<1>2. error = "none"
  BY <1>1 DEF L1CacheReceive, Arrives
<1>3. Faithful /\ ViewOK
  BY ViewIs DEF Faithful
<1>4. m.mtype \notin {"Data", "Inv_Ack"}
  BY <1>1, HeadHeld
<1>5. \/ L1Inv(p, m, "fwd_chan") \/ L1FwdGetS(p, m, "fwd_chan")
      \/ L1FwdGetM(p, m, "fwd_chan") \/ L1PutAck(p, m, "fwd_chan")
  BY <1>1, <1>4, HeadExpected DEF L1CacheReceive, L1Data, L1InvAck
<1>6. CASE L1Inv(p, m, "fwd_chan")
  <2> PICK out : out = {To(m.src, "Inv_Ack", p, 0)}
    OBVIOUS
  <2>1. PICK to, acks : L1Handle(p, m, "fwd_chan", to, acks, out)
    BY <1>6 DEF L1Inv
  <2>2. m.src \in Proc /\ invalidator[p] = m.src
    BY <1>1, <1>6, HeadHeld DEF L1Inv
  <2>3. p \notin acked[m.src]
    BY <2>2 DEF ProtocolInv, InvalidationInv
  <2>4. Message("Inv_Ack", p, 0) \notin chan[m.src]
    BY <1>3, <2>2, <2>3 DEF Faithful
  <2>5. Deliverable(out)
    BY <2>2, <2>4, CacheRoom, Envelope DEF Deliverable
  <2> QED
    BY <1>2, <2>1, <2>5, Deliver
<1>7. CASE L1FwdGetS(p, m, "fwd_chan")
  <2> PICK x, y : x = To(m.src, "Data", p, 0) /\ y = To(Dir, "Data", p, 0)
    OBVIOUS
  <2> PICK out : out = {x, y}
    OBVIOUS
  <2>1. PICK to, acks : L1Handle(p, m, "fwd_chan", to, acks, out)
    BY <1>7 DEF L1FwdGetS
  <2>2. m.src \in Proc /\ fwdS[p] = m.src
    BY <1>1, <1>7, HeadHeld DEF L1FwdGetS
  <2>3. m.src \notin served /\ writebacks = {}
    BY <2>2 DEF ProtocolInv, ForwardInv
  <2>4. /\ Cardinality(chan[x.dst]) \in Nat
             /\ Cardinality(chan[x.dst]) < NetMax
        /\ x.msg \notin chan[x.dst]
    BY <2>2, <2>3, DataDelivers
  <2>5. Message("Data", p, 0) \notin chan[Dir]
    BY <1>3, <2>3 DEF Faithful
  <2>6. /\ Cardinality(chan[y.dst]) \in Nat
             /\ Cardinality(chan[y.dst]) < NetMax
        /\ y.msg \notin chan[y.dst]
    BY <2>3, <2>5, DirRoom, Envelope
  <2>7. Deliverable(out)
    BY <2>4, <2>6 DEF Deliverable
  <2> QED
    BY <1>2, <2>1, <2>7, Deliver
<1>8. CASE L1FwdGetM(p, m, "fwd_chan")
  <2> PICK x : x = To(m.src, "Data", p, 0)
    OBVIOUS
  <2> PICK out : out = {x}
    OBVIOUS
  <2>1. PICK to, acks : L1Handle(p, m, "fwd_chan", to, acks, out)
    BY <1>8 DEF L1FwdGetM
  <2>2. m.src \in Proc /\ fwdM[p] = m.src
    BY <1>1, <1>8, HeadHeld DEF L1FwdGetM
  <2>3. m.src \notin served
    BY <2>2 DEF ProtocolInv, ForwardInv
  <2>4. Deliverable(out)
    BY <2>2, <2>3, DataDelivers DEF Deliverable
  <2> QED
    BY <1>2, <2>1, <2>4, Deliver
<1>9. CASE L1PutAck(p, m, "fwd_chan")
  BY <1>2, <1>9, Deliver, Delivers DEF L1PutAck
<1> QED
  BY <1>5, <1>6, <1>7, <1>8, <1>9

(* The directory grants the line to a cache that is not served yet, and    *)
(* its assertions about owner and sharers hold.                            *)
LEMMA DirThrowsNot ==
  ASSUME Shape, ProtocolInv, Cardinality(Proc) < NetMax, NEW m \in chan[Dir],
         DirReceive(m)
  PROVE  error' = "none"
<1>1. /\ error = "none" /\ m.src \in Proc
      /\ \/ m.mtype \in Requests /\ request[m.src] = m.mtype
         \/ m.mtype = "Data" /\ m.src \in writebacks
  BY DirHeld DEF DirReceive
<1> PICK none : none = {}
  OBVIOUS
<1>2. ASSUME NEW to, NEW o, NEW shr, NEW fwd, NEW n,
             DirHandle(m, to, o, shr, none, fwd, n)
      PROVE  error' = "none"
  BY <1>1, <1>2, Deliver, Delivers
<1>3. ASSUME m.mtype \in {"GetS", "GetM"}, NEW to, NEW o, NEW shr, NEW fwd,
             NEW n, NEW a,
             DirHandle(m, to, o, shr, {To(m.src, "Data", Dir, a)}, fwd, n)
      PROVE  error' = "none"
  <2> PICK x : x = To(m.src, "Data", Dir, a)
    OBVIOUS
  <2> PICK out : out = {x}
    OBVIOUS
  <2>1. request[m.src] \in {"GetS", "GetM"}
    BY <1>1, <1>3
  <2>2. m.src \notin served
    BY <1>1, <2>1, Unserved
  <2>3. Deliverable(out)
    BY <1>1, <2>2, DataDelivers DEF Deliverable
  <2> QED
    BY <1>1, <1>3, <2>3, Deliver
<1>4. CASE DirI(m)
  <2>1. Others(m) = {}
    BY <1>4 DEF DirI, Others, ProtocolInv, DirectoryInv
  <2> QED
    BY <1>2, <1>3, <1>4, <2>1 DEF DirI
<1>5. CASE DirS(m)
  BY <1>2, <1>3, <1>5 DEF DirS
<1>6. CASE DirM(m)
  <2>1. owner # NoProc
    BY <1>6, NodeAssumption DEF DirM, ProtocolInv, DirectoryInv
  <2> QED
    BY <1>2, <1>6, <2>1 DEF DirM
<1>7. CASE DirS_D(m)
  BY <1>2, <1>7 DEF DirS_D
<1>8. ~ DirUnhandled(m)
  BY <1>1 DEF DirUnhandled, DirHandled, ProtocolInv, DirectoryInv, Requests
<1> QED
  BY <1>4, <1>5, <1>6, <1>7, <1>8 DEF DirReceive

(* No step of the protocol throws: every message comes in a state that     *)
(* handles or stalls it, no channel overflows or holds a message twice and *)
(* the directory's assertions hold, for any number of caches, with the     *)
(* slots the program gives a channel (NET_MAX, one more than the caches).  *)
THEOREM NothingThrown ==
  ASSUME Cardinality(Proc) < NetMax
  PROVE  Spec => []NoErrorThrown
<1>1. Init => NoErrorThrown
  BY DEF Init, NoErrorThrown
<1>2. Shape /\ ProtocolInv /\ NoErrorThrown /\ [Next]_vars => NoErrorThrown'
  <2> SUFFICES ASSUME Shape, ProtocolInv, error = "none", [Next]_vars
               PROVE  error' = "none"
    BY DEF NoErrorThrown
  <2>1. CASE UNCHANGED vars
    BY <2>1 DEF vars
  <2>2. ASSUME NEW p \in Proc, L1Rules(p) \/ DirReceiveFrom(p)
        PROVE  error' = "none"
    <3>0. /\ {"I", "S", "M"} \subseteq Stable
          /\ {"GetS", "GetM", "PutS", "PutM"} \subseteq Requests
      BY DEF Stable, Requests
    <3>1. CASE I_Read(p) \/ I_Write(p)
      BY <3>0, <3>1, RequestThrowsNot DEF I_Read, I_Write
    <3>2. CASE S_Write(p) \/ S_Replacement(p) \/ M_Replacement(p)
      BY <3>0, <3>2, RequestThrowsNot
        DEF S_Write, S_Replacement, M_Replacement
    <3>3. CASE L1ReceiveUnordered(p)
      BY <3>3, ChanThrowsNot
    <3>4. CASE L1ReceiveOrdered(p)
      BY <3>4, HeadThrowsNot
    <3>5. CASE DirReceiveFrom(p)
      BY <3>5, DirThrowsNot DEF DirReceiveFrom
    <3> QED
      BY <2>2, <3>1, <3>2, <3>3, <3>4, <3>5 DEF L1Rules
  <2> QED
    BY <2>1, <2>2 DEF Next
<1> QED
  BY <1>1, <1>2, Invariance, PTL DEF Spec

(* A cache that left a transient state for another has come closer to a    *)
(* stable one: the transitions between transient states have no cycle.     *)
THEOREM NoWayBack == Spec => NoPingPong
<1>1. ASSUME TypeOK, Next, NEW p \in Proc,
             l1_state[p] \notin Stable, l1_state'[p] \notin Stable,
             l1_state'[p] # l1_state[p]
      PROVE  Progress[l1_state'[p]] < Progress[l1_state[p]]
  <2>1. PICK q \in Proc : L1Rules(q) \/ DirReceiveFrom(q)
    BY <1>1 DEF Next
  <2>2. l1_state \in [Proc -> L1State]
    BY <1>1 DEF TypeOK
  <2>3. \A e : Throw(e) => l1_state' = l1_state
    BY DEF Throw, cacheVars
  <2>4. \A out : SendFails(out) => l1_state' = l1_state
    BY <2>3 DEF SendFails
  <2>5. ~ DirReceiveFrom(q)
    <3>1. ASSUME NEW got, NEW to, NEW o, NEW shr, NEW out, NEW fwd, NEW m,
                 DirHandle(got, to, o, shr, out, fwd, m)
          PROVE  l1_state' = l1_state
      BY <2>4, <3>1 DEF DirHandle, cacheVars
    <3> SUFFICES ASSUME NEW m \in chan[Dir], DirReceive(m)
                 PROVE  l1_state' = l1_state
      BY <1>1 DEF DirReceiveFrom
    <3>2. CASE DirI(m)
      BY <2>3, <3>1, <3>2 DEF DirI
    <3>3. CASE DirS(m)
      BY <3>1, <3>3 DEF DirS
    <3>4. CASE DirM(m)
      BY <2>3, <3>1, <3>4 DEF DirM
    <3>5. CASE DirS_D(m)
      BY <3>1, <3>5 DEF DirS_D
    <3>6. CASE DirUnhandled(m)
      BY <2>3, <3>6 DEF DirUnhandled
    <3> QED
      BY <3>2, <3>3, <3>4, <3>5, <3>6 DEF DirReceive
  <2>6. ASSUME NEW from \in Stable, NEW t, NEW to, Request(q, from, t, to)
        PROVE  FALSE
    <3>1. l1_state[q] = from /\ l1_state' = [l1_state EXCEPT ![q] = to]
      BY <1>1, <2>4, <2>6 DEF Request
    <3> QED
      BY <1>1, <2>2, <3>1
  <2>7. ~ (I_Read(q) \/ I_Write(q) \/ S_Write(q) \/ S_Replacement(q)
           \/ M_Replacement(q))
    BY <2>6 DEF I_Read, I_Write, S_Write, S_Replacement, M_Replacement, Stable
  <2>8. PICK m, queue : L1CacheReceive(q, m, queue)
    BY <2>1, <2>5, <2>7 DEF L1Rules, L1ReceiveUnordered, L1ReceiveOrdered
  <2>9. ASSUME NEW to, NEW acks, NEW out, L1Handle(q, m, queue, to, acks, out)
        PROVE  q = p /\ to = l1_state'[p]
    <3>1. l1_state' = [l1_state EXCEPT ![q] = to]
      BY <1>1, <2>4, <2>9 DEF L1Handle
    <3> QED
      BY <1>1, <2>2, <3>1
  <2> USE <1>1, <2>9
  <2>10. CASE L1Inv(q, m, queue)
    <3>1. \/ l1_state[p] = "SM_AD" /\ l1_state'[p] = "IM_AD"
          \/ l1_state[p] = "SI_A" /\ l1_state'[p] = "II_A"
      BY <2>10 DEF L1Inv, Stable
    <3> QED
      BY <3>1 DEF Progress
  <2>11. CASE L1Data(q, m, queue)
    <3>1. \/ l1_state[p] = "IM_AD" /\ l1_state'[p] = "IM_A"
          \/ l1_state[p] = "SM_AD" /\ l1_state'[p] = "SM_A"
      BY <2>11 DEF L1Data, Stable
    <3> QED
      BY <3>1 DEF Progress
  <2>12. CASE L1InvAck(q, m, queue)
    BY <2>12 DEF L1InvAck, Stable
  <2>13. CASE L1FwdGetS(q, m, queue) \/ L1FwdGetM(q, m, queue)
    <3>1. l1_state[p] = "MI_A" /\ l1_state'[p] \in {"SI_A", "II_A"}
      BY <2>13 DEF L1FwdGetS, L1FwdGetM, Stable
    <3> QED
      BY <3>1 DEF Progress
  <2>14. CASE L1PutAck(q, m, queue)
    BY <2>14 DEF L1PutAck, Stable
  <2>15. CASE L1Unhandled(q, m)
    BY <2>3, <2>15 DEF L1Unhandled
  <2> QED
    BY <2>8, <2>10, <2>11, <2>12, <2>13, <2>14, <2>15 DEF L1CacheReceive
<1>2. TypeOK /\ [Next]_vars =>
        [\A p \in Proc :
           /\ l1_state[p] \notin Stable
           /\ l1_state'[p] \notin Stable
           /\ l1_state'[p] # l1_state[p]
           => Progress[l1_state'[p]] < Progress[l1_state[p]]]_vars
  BY <1>1
<1> QED
  BY <1>2, TypeCorrect, PTL DEF Spec, NoPingPong

=============================================================================
