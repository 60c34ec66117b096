---------------------------- MODULE MSIDirectory ----------------------------
(***************************************************************************)
(* models/msi_directory.cc: the MSI directory protocol for one cache line. *)
(* L1 caches and a directory exchange requests, data and acknowledgements  *)
(* over bounded unordered channels (`chan', one per node) and forwards,    *)
(* invalidations and Put acks over ordered ones (`fwd_chan', one per L1).  *)
(* A handler that returns false stalls: the message stays, nothing changes.*)
(* A handler that throws ends the run; `error' records what it threw.      *)
(*                                                                         *)
(* An unordered channel is an ArraySet, compared up to permutation: a bag. *)
(* It is a set here, and a second copy of a message in flight counts as an *)
(* error, so that NoErrorThrown also shows that the set is exact.          *)
(***************************************************************************)
EXTENDS Integers, Sequences, FiniteSets

CONSTANTS
  Proc,     \* L1::ScalarSet, the caches
  Dir,      \* the directory's node
  NoProc,   \* L1::ScalarSet::ID::kUndefined
  NetMax    \* NET_MAX, the slots of an unordered channel

ASSUME NodeAssumption ==
  /\ IsFiniteSet(Proc)
  /\ Dir \notin Proc
  /\ NoProc \notin Proc
  /\ NetMax \in Nat

VARIABLES
  l1_state,    \* per cache: L1::state
  need_acks,   \* per cache: L1::need_acks
  chan,        \* per node: the unordered channel
  fwd_chan,    \* per cache: the ordered channel
  dir_state,   \* Dir::state
  owner,       \* Dir::owner
  sharers,     \* Dir::sharers
  error        \* the core::Error thrown, "none" before

cacheVars == <<l1_state, need_acks>>
netVars == <<chan, fwd_chan>>
dirVars == <<dir_state, owner, sharers>>
vars == <<cacheVars, netVars, dirVars, error>>

Node == Proc \cup {Dir}
MsgType == {"GetS", "GetM", "PutS", "PutM", "Fwd_GetS", "Fwd_GetM", "Inv",
            "Put_Ack", "Data", "Inv_Ack"}
Msg == [mtype : MsgType, src : Node, need_acks : Nat]
L1State == {"I", "S", "M", "IS_D", "IM_AD", "IM_A", "SM_AD", "SM_A", "MI_A",
            "SI_A", "II_A"}
Stable == {"I", "S", "M"}
DirState == {"I", "S", "M", "S_D"}
Error == {"none", "Too many messages", "Second copy in flight",
          "Unhandled message type", "Sharers list non-empty but line in I",
          "dir has no owner, but line is Modified"}

TypeOK ==
  /\ l1_state \in [Proc -> L1State]
  /\ need_acks \in [Proc -> Int]
  /\ chan \in [Node -> SUBSET Msg]
  /\ fwd_chan \in [Proc -> Seq(Msg)]
  /\ dir_state \in DirState
  /\ owner \in Proc \cup {NoProc}
  /\ sharers \in SUBSET Proc
  /\ error \in Error

Init ==
  /\ l1_state = [p \in Proc |-> "I"]
  /\ need_acks = [p \in Proc |-> 0]
  /\ chan = [n \in Node |-> {}]
  /\ fwd_chan = [p \in Proc |-> <<>>]
  /\ dir_state = "I"
  /\ owner = NoProc
  /\ sharers = {}
  /\ error = "none"

-----------------------------------------------------------------------------
(***************************************************************************)
(* Channels.                                                               *)
(***************************************************************************)
Message(mtype, src, acks) == [mtype |-> mtype, src |-> src, need_acks |-> acks]

(* Envelope m addressed to node n.                                         *)
To(n, mtype, src, acks) == [dst |-> n, msg |-> Message(mtype, src, acks)]

Throw(e) ==
  /\ error' = e
  /\ UNCHANGED <<cacheVars, netVars, dirVars>>

(* Send: `out' (one envelope per destination) joins the unordered channels *)
(* and the message received, if any, gives its slot back afterwards.  When *)
(* a channel has no free slot Send throws, and no other effect counts.     *)
Full(out) == \E x \in out : Cardinality(chan[x.dst]) >= NetMax
Copied(out) == \E x \in out : x.msg \in chan[x.dst]

Delivered(out, n, got) ==
  [k \in Node |->
     (chan[k] \cup {x.msg : x \in {y \in out : y.dst = k}})
       \ (IF k = n THEN got ELSE {})]

Send(out, n, got) ==
  /\ ~ Full(out)
  /\ ~ Copied(out)
  /\ chan' = Delivered(out, n, got)
  /\ UNCHANGED error

SendFails(out) ==
  \/ Full(out) /\ Throw("Too many messages")
  \/ ~ Full(out) /\ Copied(out) /\ Throw("Second copy in flight")

(* Faulty: a broadcast that reaches one cache only.                        *)
SendOrderedToOne(to, m) ==
  fwd_chan' = [p \in Proc |-> IF p \in to /\ p = CHOOSE q \in to : TRUE
                               THEN Append(fwd_chan[p], m) ELSE fwd_chan[p]]

(* SendOrdered: one message at the end of the ordered channel of each p in *)
(* `to'.                                                                   *)
SendOrdered(to, m) ==
  fwd_chan' = [p \in Proc |-> IF p \in to THEN Append(fwd_chan[p], m)
                                          ELSE fwd_chan[p]]

-----------------------------------------------------------------------------
(***************************************************************************)
(* Processor events: the rules I.Read, I.Write, S.Write, S.Replacement and *)
(* M.Replacement send a request to the directory.                          *)
(***************************************************************************)
Request(p, from, mtype, to) ==
  /\ error = "none"
  /\ l1_state[p] = from
  /\ LET out == {To(Dir, mtype, p, 0)}
     IN  \/ /\ Send(out, Dir, {})
            /\ l1_state' = [l1_state EXCEPT ![p] = to]
            /\ UNCHANGED <<need_acks, fwd_chan, dirVars>>
         \/ SendFails(out)

I_Read(p) == Request(p, "I", "GetS", "IS_D")
I_Write(p) == Request(p, "I", "GetM", "IM_AD")
S_Write(p) == Request(p, "S", "GetM", "SM_AD")
S_Replacement(p) == Request(p, "S", "PutS", "SI_A")
M_Replacement(p) == Request(p, "M", "PutM", "MI_A")

-----------------------------------------------------------------------------
(***************************************************************************)
(* L1CacheReceive.  A message comes from the unordered channel (queue =    *)
(* "chan") or from the head of the ordered one (queue = "fwd_chan").       *)
(***************************************************************************)
Queues == {"chan", "fwd_chan"}

Arrives(p, m, queue) ==
  /\ error = "none"
  /\ \/ queue = "chan" /\ m \in chan[p]
     \/ queue = "fwd_chan" /\ fwd_chan[p] # <<>> /\ m = Head(fwd_chan[p])

(* The handler takes p to state `to' with `acks' and sends `out'.          *)
L1Handle(p, m, queue, to, acks, out) ==
  \/ /\ Send(out, p, IF queue = "chan" THEN {m} ELSE {})
     /\ fwd_chan' = IF queue = "fwd_chan"
                      THEN [fwd_chan EXCEPT ![p] = Tail(@)]
                      ELSE fwd_chan
     /\ l1_state' = [l1_state EXCEPT ![p] = to]
     /\ need_acks' = [need_acks EXCEPT ![p] = acks]
     /\ UNCHANGED dirVars
  \/ SendFails(out)

(* Faulty: the invalidation is acknowledged and the copy kept.             *)
L1InvAcknowledged(p, m, queue) ==
  /\ m.mtype = "Inv"
  /\ l1_state[p] \in {"S", "SM_AD", "SI_A"}
  /\ L1Handle(p, m, queue, l1_state[p], need_acks[p],
              {To(m.src, "Inv_Ack", p, 0)})

L1Inv(p, m, queue) ==
  /\ m.mtype = "Inv"
  /\ \E step \in {<<"S", "I">>, <<"SM_AD", "IM_AD">>, <<"SI_A", "II_A">>} :
       /\ l1_state[p] = step[1]
       /\ L1Handle(p, m, queue, step[2], need_acks[p],
                   {To(m.src, "Inv_Ack", p, 0)})

(* Faulty: the acks announced replace those already counted.               *)
AcksReplaced(p, m) == m.need_acks

AcksAnnounced(p, m) == need_acks[p] + m.need_acks

(* Data; with acks to wait for when it is the directory that grants M.     *)
L1Data(p, m, queue) ==
  /\ m.mtype = "Data"
  /\ \/ /\ l1_state[p] = "IS_D"
        /\ L1Handle(p, m, queue, "S", need_acks[p], {})
     \/ \E step \in {<<"IM_AD", "IM_A">>, <<"SM_AD", "SM_A">>} :
          /\ l1_state[p] = step[1]
          /\ \/ /\ m.src = Dir /\ m.need_acks # 0
                /\ LET acks == AcksAnnounced(p, m)
                   IN  L1Handle(p, m, queue,
                                IF acks = 0 THEN "M" ELSE step[2], acks, {})
             \/ /\ m.src # Dir \/ m.need_acks = 0
                /\ L1Handle(p, m, queue, "M", need_acks[p], {})

(* Faulty: a cache waiting for more acks waits for data again.             *)
L1AckStepsBack(p, m, queue) ==
  /\ m.mtype = "Inv_Ack"
  /\ l1_state[p] \in {"IM_AD", "IM_A", "SM_AD", "SM_A"}
  /\ LET acks == need_acks[p] - 1
     IN  L1Handle(p, m, queue, IF acks = 0 THEN "M" ELSE "IM_AD", acks, {})

(* An ack counts down, below zero before the Data says how many to expect. *)
L1InvAck(p, m, queue) ==
  /\ m.mtype = "Inv_Ack"
  /\ l1_state[p] \in {"IM_AD", "IM_A", "SM_AD", "SM_A"}
  /\ LET acks == need_acks[p] - 1
     IN  L1Handle(p, m, queue,
                  IF acks = 0 /\ l1_state[p] # "SM_AD" THEN "M"
                                                      ELSE l1_state[p],
                  acks, {})

L1FwdGetS(p, m, queue) ==
  /\ m.mtype = "Fwd_GetS"
  /\ \E step \in {<<"M", "S">>, <<"MI_A", "SI_A">>} :
       /\ l1_state[p] = step[1]
       /\ L1Handle(p, m, queue, step[2], need_acks[p],
                   {To(m.src, "Data", p, 0), To(Dir, "Data", p, 0)})

L1FwdGetM(p, m, queue) ==
  /\ m.mtype = "Fwd_GetM"
  /\ \E step \in {<<"M", "I">>, <<"MI_A", "II_A">>} :
       /\ l1_state[p] = step[1]
       /\ L1Handle(p, m, queue, step[2], need_acks[p],
                   {To(m.src, "Data", p, 0)})

(* Faulty: a cache that was invalidated while it wrote back is forgotten.  *)
L1PutAckValid(p, m, queue) ==
  /\ m.mtype = "Put_Ack"
  /\ l1_state[p] \in {"MI_A", "SI_A"}
  /\ L1Handle(p, m, queue, "I", need_acks[p], {})

L1PutAck(p, m, queue) ==
  /\ m.mtype = "Put_Ack"
  /\ l1_state[p] \in {"MI_A", "SI_A", "II_A"}
  /\ L1Handle(p, m, queue, "I", need_acks[p], {})

(* Faulty: a reader waiting for data does not stall an invalidation.       *)
L1StallsForwards(p, mtype) ==
  /\ l1_state[p] \in {"IM_AD", "IM_A", "SM_AD", "SM_A"}
  /\ mtype \in {"Fwd_GetS", "Fwd_GetM"}

(* What a cache stalls, and what it handles; the rest is an error.         *)
L1Stalls(p, mtype) ==
  \/ l1_state[p] = "IS_D" /\ mtype = "Inv"
  \/ /\ l1_state[p] \in {"IM_AD", "IM_A", "SM_AD", "SM_A"}
     /\ mtype \in {"Fwd_GetS", "Fwd_GetM"}

L1Handled ==
  [I |-> {}, S |-> {"Inv"}, M |-> {"Fwd_GetS", "Fwd_GetM"},
   IS_D |-> {"Data"}, IM_AD |-> {"Data", "Inv_Ack"}, IM_A |-> {"Inv_Ack"},
   SM_AD |-> {"Inv", "Data", "Inv_Ack"}, SM_A |-> {"Inv_Ack"},
   MI_A |-> {"Fwd_GetS", "Fwd_GetM", "Put_Ack"},
   SI_A |-> {"Put_Ack", "Inv"}, II_A |-> {"Put_Ack"}]

L1Unhandled(p, m) ==
  /\ ~ L1Stalls(p, m.mtype)
  /\ m.mtype \notin L1Handled[l1_state[p]]
  /\ Throw("Unhandled message type")

L1CacheReceive(p, m, queue) ==
  /\ Arrives(p, m, queue)
  /\ \/ L1Inv(p, m, queue)
     \/ L1Data(p, m, queue)
     \/ L1InvAck(p, m, queue)
     \/ L1FwdGetS(p, m, queue)
     \/ L1FwdGetM(p, m, queue)
     \/ L1PutAck(p, m, queue)
     \/ L1Unhandled(p, m)

L1ReceiveUnordered(p) == \E m \in chan[p] : L1CacheReceive(p, m, "chan")
L1ReceiveOrdered(p) ==
  /\ fwd_chan[p] # <<>>
  /\ L1CacheReceive(p, Head(fwd_chan[p]), "fwd_chan")

-----------------------------------------------------------------------------
(***************************************************************************)
(* DirectoryReceive.  The handler moves the directory to state `to' with a *)
(* new owner and new sharers, sends `out', and puts `m' on the ordered     *)
(* channels of the caches in `fwd'.                                        *)
(***************************************************************************)
DirHandle(got, to, o, shr, out, fwd, m) ==
  \/ /\ Send(out, Dir, {got})
     /\ SendOrdered(fwd, m)
     /\ dir_state' = to
     /\ owner' = o
     /\ sharers' = shr
     /\ UNCHANGED cacheVars
  \/ SendFails(out)

PutAck == Message("Put_Ack", Dir, 0)

(* The sharers other than the sender.                                      *)
Others(m) == sharers \ {m.src}

DirI(m) ==
  /\ dir_state = "I"
  /\ IF Others(m) # {} THEN Throw("Sharers list non-empty but line in I")
     ELSE
       \/ /\ m.mtype = "GetS"
          /\ DirHandle(m, "S", owner, sharers \cup {m.src},
                       {To(m.src, "Data", Dir, 0)}, {}, PutAck)
       \/ /\ m.mtype = "GetM"
          /\ DirHandle(m, "M", m.src, sharers,
                       {To(m.src, "Data", Dir, 0)}, {}, PutAck)
       \/ /\ m.mtype \in {"PutS", "PutM"}
          /\ DirHandle(m, "I", owner, sharers, {}, {m.src}, PutAck)

DirS(m) ==
  /\ dir_state = "S"
  /\ \/ /\ m.mtype = "GetS"
        /\ DirHandle(m, "S", owner, sharers \cup {m.src},
                     {To(m.src, "Data", Dir, 0)}, {}, PutAck)
     \/ /\ m.mtype = "GetM"
        /\ DirHandle(m, "M", m.src, {},
                     {To(m.src, "Data", Dir, Cardinality(Others(m)))},
                     Others(m), Message("Inv", m.src, 0))
     \/ /\ m.mtype = "PutS"
        /\ DirHandle(m, IF Others(m) = {} THEN "I" ELSE "S", owner, Others(m),
                     {}, {m.src}, PutAck)
     \/ /\ m.mtype = "PutM"
        /\ DirHandle(m, "S", owner, Others(m), {}, {m.src}, PutAck)

DirM(m) ==
  /\ dir_state = "M"
  /\ IF owner = NoProc THEN Throw("dir has no owner, but line is Modified")
     ELSE
       \/ /\ m.mtype = "GetS"
          /\ DirHandle(m, "S_D", NoProc, sharers \cup {m.src, owner}, {},
                       {owner}, Message("Fwd_GetS", m.src, 0))
       \/ /\ m.mtype = "GetM"
          /\ DirHandle(m, "M", m.src, sharers, {}, {owner},
                       Message("Fwd_GetM", m.src, 0))
       \/ /\ m.mtype = "PutS"
          /\ DirHandle(m, "M", owner, sharers, {}, {m.src}, PutAck)
       \/ /\ m.mtype = "PutM"
          /\ IF m.src = owner
               THEN DirHandle(m, "I", NoProc, sharers, {}, {m.src}, PutAck)
               ELSE DirHandle(m, "M", owner, sharers, {}, {m.src}, PutAck)

DirS_D(m) ==
  /\ dir_state = "S_D"
  /\ \/ /\ m.mtype \in {"PutS", "PutM"}
        /\ DirHandle(m, "S_D", owner, Others(m), {}, {m.src}, PutAck)
     \/ /\ m.mtype = "Data"
        /\ DirHandle(m, "S", owner, sharers, {}, {}, PutAck)

(* Requests stall in S_D; everything not listed above is an error.         *)
DirStalls(mtype) == dir_state = "S_D" /\ mtype \in {"GetS", "GetM"}

DirHandled == {"GetS", "GetM", "PutS", "PutM"} \cup
              (IF dir_state = "S_D" THEN {"Data"} ELSE {})

DirUnhandled(m) ==
  /\ ~ DirStalls(m.mtype)
  /\ m.mtype \notin DirHandled
  /\ Throw("Unhandled message type")

DirReceive(m) ==
  /\ error = "none"
  /\ m \in chan[Dir]
  /\ DirI(m) \/ DirS(m) \/ DirM(m) \/ DirS_D(m) \/ DirUnhandled(m)

DirReceiveFrom(p) == \E m \in chan[Dir] : m.src = p /\ DirReceive(m)

-----------------------------------------------------------------------------
L1Rules(p) ==
  \/ I_Read(p)
  \/ I_Write(p)
  \/ S_Write(p)
  \/ S_Replacement(p)
  \/ M_Replacement(p)
  \/ L1ReceiveUnordered(p)
  \/ L1ReceiveOrdered(p)

Next == \E p \in Proc : L1Rules(p) \/ DirReceiveFrom(p)

Spec == Init /\ [][Next]_vars

(* The rules say what may happen, not when.  For liveness the network is   *)
(* fair: a message a cache can take is taken, and a request the directory  *)
(* can take again and again (it stalls some in between) is taken.          *)
Fairness ==
  \A p \in Proc :
    /\ WF_vars(L1ReceiveUnordered(p))
    /\ WF_vars(L1ReceiveOrdered(p))
    /\ SF_vars(DirReceiveFrom(p))

FairSpec == Spec /\ Fairness

-----------------------------------------------------------------------------
(***************************************************************************)
(* Properties.                                                             *)
(***************************************************************************)

(* The invariant the program checks: a modified copy is the only valid one.*)
SWMR ==
  \A p, q \in Proc :
    p # q /\ l1_state[p] = "M" => l1_state[q] \notin {"M", "S"}

(* No message comes where the protocol has no answer to it, no channel     *)
(* overflows, and the directory's own assertions hold.                     *)
NoErrorThrown == error = "none"

(* Every acknowledgement a writer waits for is accounted for: announced in *)
(* Data or counted in need_acks, it is an invalidation or an Inv_Ack in    *)
(* flight - whatever order Data and Inv_Acks arrive in.                    *)
Announced(p) == {m \in chan[p] : m.mtype = "Data" /\ m.src = Dir}
Invalidations(p) ==
  UNION {{<<q, i>> : i \in {j \in DOMAIN fwd_chan[q] :
            fwd_chan[q][j].mtype = "Inv" /\ fwd_chan[q][j].src = p}} :
         q \in Proc}
AcksAccountedFor ==
  \A p \in Proc :
    LET inFlight == Cardinality(Invalidations(p))
                      + Cardinality({m \in chan[p] : m.mtype = "Inv_Ack"})
    IN  IF Announced(p) = {} THEN need_acks[p] = inFlight
        ELSE \A m \in Announced(p) : need_acks[p] + m.need_acks = inFlight

(* The directory never loses track of a copy: the cache with the modified  *)
(* line is its owner or has a forward on its way; a cache with a shared    *)
(* line is a sharer or has an invalidation on its way.                     *)
OnItsWay(p, mtype) ==
  \E i \in DOMAIN fwd_chan[p] : fwd_chan[p][i].mtype = mtype
DirectoryTracksCopies ==
  \A p \in Proc :
    /\ l1_state[p] \in {"M", "MI_A"} =>
         \/ dir_state = "M" /\ owner = p
         \/ OnItsWay(p, "Fwd_GetS")
         \/ OnItsWay(p, "Fwd_GetM")
         \/ OnItsWay(p, "Put_Ack")
    /\ l1_state[p] = "S" =>
         \/ dir_state \in {"S", "S_D"} /\ p \in sharers
         \/ OnItsWay(p, "Inv")

(* "We want each cache to always eventually reach a stable state"          *)
(* (domain/protocol.hh): whatever a cache asks for, it gets.               *)
EventuallyStable ==
  \A p \in Proc : []<>(l1_state[p] \in Stable)

(* Between stable states a cache only goes forward: no step takes it back  *)
(* to a transient state from which it has already moved on, so what        *)
(* LivelockFreedom looks for, a ping-pong of transient states, cannot be.  *)
Progress == 
  [IS_D |-> 1, SM_AD |-> 3, SM_A |-> 1, IM_AD |-> 2, IM_A |-> 1,
   MI_A |-> 3, SI_A |-> 2, II_A |-> 1]
NoPingPong ==
  [][\A p \in Proc :
       /\ l1_state[p] \notin Stable
       /\ l1_state'[p] \notin Stable
       /\ l1_state'[p] # l1_state[p]
       => Progress[l1_state'[p]] < Progress[l1_state[p]]]_vars
=============================================================================
