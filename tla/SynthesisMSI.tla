---------------------------- MODULE SynthesisMSI ----------------------------
(***************************************************************************)
(* models/synthesis_msi.cc: the MSI protocol with holes (SYNON = 1) that   *)
(* the case study completes.  `completion' is the candidate: the option    *)
(* each hole has, fixed from the start.  Channels are unordered and held   *)
(* as sets; a second copy of a message in flight counts as an error, so    *)
(* that NoErrorThrown also shows that the sets are exact.                  *)
(***************************************************************************)
EXTENDS Integers, FiniteSets

CONSTANTS
  Proc,         \* L1::ScalarSet, the caches
  Dir,          \* Dir0, the directory's node
  NoProc,       \* L1::ScalarSet::ID::kUndefined
  NetMax,       \* NET_MAX, the slots of a channel
  Completions   \* the candidates considered

ASSUME NodeAssumption ==
  /\ IsFiniteSet(Proc)
  /\ Dir \notin Proc
  /\ NoProc \notin Proc \cup {Dir}
  /\ NetMax \in Nat

VARIABLES
  completion,   \* hole -> option, fixed
  l1_state,     \* per cache: L1::state
  chan,         \* per node: the messages in its channel
  dir_state,    \* Dir::state
  owner,        \* Dir::owner
  sharers,      \* Dir::sharers
  acks,         \* Dir::acks
  error         \* the core::Error thrown, "none" before

dirVars == <<dir_state, owner, sharers, acks>>
vars == <<completion, l1_state, chan, dirVars, error>>

Node == Proc \cup {Dir}
Msg == [mtype : {"GetM", "GetS", "Inv", "Put", "Data", "Ack"}, src : Node]
L1State == {"I", "M", "S", "I_M", "M_I", "I_S", "IS_I"}
Stable == {"I", "M", "S"}
DirState == {"I", "M", "S", "I_M", "I_M_I", "M_M", "S_M", "M_S"}

(* The options of a hole; "?" is the wildcard that pruning puts in front.  *)
DirResponses == {"?", "none", "Data to src", "Data to owner", "Inv to owner",
                 "Ack to src"}
DirTracks == {"?", "none", "owner is src", "no owner"}
L1Responses == {"?", "none", "Ack to Dir", "Put to src"}
Candidates ==
  [I_M_Ack_Response : DirResponses, I_M_Ack_Track : DirTracks,
   I_M_Ack_State : {"?"} \cup (DirState \ {"M_S"}),
   M_S_Put_Response : DirResponses, M_S_Put_Track : DirTracks,
   M_S_Put_State : {"?"} \cup (DirState \ {"M_S"}),
   I_S_Inv_Response : L1Responses, I_S_Inv_State : {"?"} \cup L1State]

(* What stands in place of the holes with SYNON = 0.  The answer to a Put  *)
(* in M_S, data to the one sharer, is not among the options of the hole.   *)
Reference ==
  [I_M_Ack_Response |-> "none", I_M_Ack_Track |-> "none",
   I_M_Ack_State |-> "M",
   M_S_Put_Response |-> "Data to sharer", M_S_Put_Track |-> "none",
   M_S_Put_State |-> "S",
   I_S_Inv_Response |-> "Ack to Dir", I_S_Inv_State |-> "IS_I"]

ASSUME CompletionAssumption == Completions \subseteq Candidates \cup {Reference}

TypeOK ==
  /\ completion \in Completions
  /\ l1_state \in [Proc -> L1State]
  /\ chan \in [Node -> SUBSET Msg]
  /\ dir_state \in DirState
  /\ owner \in Node \cup {NoProc}
  /\ sharers \in SUBSET Node
  /\ acks \in Int

Init ==
  /\ completion \in Completions
  /\ l1_state = [p \in Proc |-> "I"]
  /\ chan = [n \in Node |-> {}]
  /\ dir_state = "I"
  /\ owner = NoProc
  /\ sharers = {}
  /\ acks = 0
  /\ error = "none"

-----------------------------------------------------------------------------
(***************************************************************************)
(* Channels.  A rule sends `out', envelopes <<destination, message>>, and  *)
(* the message `got' by node n gives its slot back afterwards.             *)
(***************************************************************************)
To(dst, mtype, src) == <<dst, [mtype |-> mtype, src |-> src]>>

Throw(e) ==
  /\ error' = e
  /\ UNCHANGED <<completion, l1_state, chan, dirVars>>

SendError(out) ==
  CASE \E x \in out : Cardinality(chan[x[1]]) >= NetMax -> "Too many messages"
    [] \E x \in out : x[2] \in chan[x[1]] -> "Second copy in flight"
    [] OTHER -> "none"

Fails(out) == SendError(out) # "none"

Send(out, n, got) ==
  /\ chan' = [k \in Node |->
                (chan[k] \cup {x[2] : x \in {y \in out : y[1] = k}})
                  \ (IF k = n THEN got ELSE {})]
  /\ UNCHANGED <<completion, error>>

(* Everything a rule does: l1's new state, the directory's, and messages;  *)
(* nothing of it counts if Send throws.                                    *)
Do(n, got, out, l1, dir) ==
  IF Fails(out) THEN Throw(SendError(out))
  ELSE /\ Send(out, n, got)
       /\ l1_state' = l1
       /\ dir_state' = dir.state
       /\ owner' = dir.owner
       /\ sharers' = dir.sharers
       /\ acks' = dir.acks

Same == [state |-> dir_state, owner |-> owner, sharers |-> sharers,
         acks |-> acks]

-----------------------------------------------------------------------------
(***************************************************************************)
(* The caches: the processor's rules, and L1CacheReceive.                  *)
(***************************************************************************)
L1Rule(p, from, out, to) ==
  /\ error = "none"
  /\ l1_state[p] = from
  /\ Do(p, {}, out, [l1_state EXCEPT ![p] = to], Same)

I_Read(p) == L1Rule(p, "I", {To(Dir, "GetS", p)}, "I_S")
I_Write(p) == L1Rule(p, "I", {To(Dir, "GetM", p)}, "I_M")
S_Write(p) == L1Rule(p, "S", {To(Dir, "GetM", p)}, "I_M")
S_Replacement(p) == L1Rule(p, "S", {}, "I")
M_Replacement(p) == L1Rule(p, "M", {To(Dir, "Put", p)}, "M_I")

(* Cache p takes m from its channel, sends `out' and goes to `to'.         *)
L1Takes(p, m, out, to) ==
  Do(p, {m}, out, [l1_state EXCEPT ![p] = to], Same)

(* The hole of I_S on an Inv.                                              *)
L1Response(p, m) ==
  CASE completion.I_S_Inv_Response = "none" -> {}
    [] completion.I_S_Inv_Response = "Ack to Dir" -> {To(Dir, "Ack", p)}
    [] completion.I_S_Inv_Response = "Put to src" -> {To(m.src, "Put", p)}

L1Inv(p, m) ==
  /\ m.mtype = "Inv"
  /\ \/ /\ l1_state[p] \in {"I", "S"}
        /\ L1Takes(p, m, {To(Dir, "Ack", p)}, "I")
     \/ /\ l1_state[p] \in {"I_M", "IS_I"}
        /\ L1Takes(p, m, {To(Dir, "Ack", p)}, l1_state[p])
     \/ l1_state[p] = "M" /\ L1Takes(p, m, {To(m.src, "Put", p)}, "I")
     \/ l1_state[p] = "M_I" /\ L1Takes(p, m, {}, "I")
     \/ /\ l1_state[p] = "I_S"
        /\ completion.I_S_Inv_Response # "?"
        /\ completion.I_S_Inv_State = "?" => Fails(L1Response(p, m))
        /\ L1Takes(p, m, L1Response(p, m), completion.I_S_Inv_State)

(* Faulty: the read that was overtaken by an invalidation is retried.      *)
L1DataRetries(p, m) ==
  /\ m.mtype = "Data"
  /\ \/ l1_state[p] = "I_M" /\ L1Takes(p, m, {To(Dir, "Ack", p)}, "M")
     \/ l1_state[p] = "I_S" /\ L1Takes(p, m, {}, "S")
     \/ l1_state[p] = "IS_I" /\ L1Takes(p, m, {To(Dir, "GetS", p)}, "I_S")

L1Data(p, m) ==
  /\ m.mtype = "Data"
  /\ \/ l1_state[p] = "I_M" /\ L1Takes(p, m, {To(Dir, "Ack", p)}, "M")
     \/ l1_state[p] = "I_S" /\ L1Takes(p, m, {}, "S")
     \/ l1_state[p] = "IS_I" /\ L1Takes(p, m, {}, "I")

L1PutAck(p, m) ==
  m.mtype = "Ack" /\ l1_state[p] = "M_I" /\ L1Takes(p, m, {}, "I")

L1Unhandled(p, m) ==
  /\ \/ m.mtype \notin {"Inv", "Data", "Ack"}
     \/ m.mtype = "Data" /\ l1_state[p] \notin {"I_M", "I_S", "IS_I"}
     \/ m.mtype = "Ack" /\ l1_state[p] # "M_I"
  /\ Throw("Unhandled message type")

L1ReceiveUnordered(p) ==
  \E m \in chan[p] :
    /\ error = "none"
    /\ L1Inv(p, m) \/ L1Data(p, m) \/ L1PutAck(p, m) \/ L1Unhandled(p, m)

-----------------------------------------------------------------------------
(***************************************************************************)
(* DirectoryReceive.                                                       *)
(***************************************************************************)
DirTakes(m, out, dir) == Do(Dir, {m}, out, l1_state, dir)

DirI(m) ==
  /\ dir_state = "I"
  /\ \/ /\ m.mtype = "GetM"
        /\ DirTakes(m, {To(m.src, "Data", Dir)},
                    [Same EXCEPT !.state = "I_M", !.owner = m.src])
     \/ /\ m.mtype = "GetS"
        /\ DirTakes(m, {To(m.src, "Data", Dir)},
                    [Same EXCEPT !.state = "S", !.sharers = @ \cup {m.src}])

DirM(m) ==
  /\ dir_state = "M"
  /\ owner # NoProc
  /\ sharers = {}
  /\ \/ /\ m.mtype = "GetM"
        /\ DirTakes(m, {To(owner, "Inv", Dir)},
                    [Same EXCEPT !.state = "M_M", !.owner = m.src])
     \/ /\ m.mtype = "GetS"
        /\ DirTakes(m, {To(owner, "Inv", Dir)},
                    [Same EXCEPT !.state = "M_S", !.owner = NoProc,
                                 !.sharers = {m.src}])
     \/ /\ m.mtype = "Put"
        /\ DirTakes(m, {To(m.src, "Ack", Dir)},
                    [Same EXCEPT !.state = "I", !.owner = NoProc])

(* Faulty: a writer that is not a sharer is subtracted all the same.       *)
AcksLessOne(m) == Cardinality(sharers) - 1

(* The sharers the writer has to wait for.                                 *)
Acks(m) == Cardinality(sharers) - (IF m.src \in sharers THEN 1 ELSE 0)

(* Faulty: the sharers are cleared without being invalidated.              *)
DirSForgets(m) ==
  /\ dir_state = "S"
  /\ owner = NoProc
  /\ \/ /\ m.mtype = "GetM"
        /\ DirTakes(m, {To(m.src, "Data", Dir)},
                    [Same EXCEPT !.state = "I_M", !.owner = m.src,
                                 !.sharers = {}])
     \/ /\ m.mtype = "GetS"
        /\ DirTakes(m, {To(m.src, "Data", Dir)},
                    [Same EXCEPT !.sharers = @ \cup {m.src}])

DirS(m) ==
  /\ dir_state = "S"
  /\ owner = NoProc
  /\ \/ /\ m.mtype = "GetM"
        /\ Acks(m) # 0
        /\ DirTakes(m, {To(p, "Inv", m.src) : p \in sharers \ {m.src}},
                    [state |-> "S_M", owner |-> m.src, sharers |-> {},
                     acks |-> Acks(m)])
     \/ /\ m.mtype = "GetM"
        /\ Acks(m) = 0
        /\ DirTakes(m, {To(m.src, "Data", Dir)},
                    [state |-> "I_M", owner |-> m.src, sharers |-> {},
                     acks |-> 0])
     \/ /\ m.mtype = "GetS"
        /\ DirTakes(m, {To(m.src, "Data", Dir)},
                    [Same EXCEPT !.sharers = @ \cup {m.src}])

(* Faulty: the first ack ends the wait.                                    *)
DirS_MFirstAck(m) ==
  /\ dir_state = "S_M"
  /\ owner # NoProc
  /\ m.mtype = "Ack"
  /\ DirTakes(m, {To(owner, "Data", Dir)},
              [Same EXCEPT !.state = "I_M", !.acks = @ - 1])

DirS_M(m) ==
  /\ dir_state = "S_M"
  /\ owner # NoProc
  /\ m.mtype = "Ack"
  /\ IF acks = 1
       THEN DirTakes(m, {To(owner, "Data", Dir)},
                     [Same EXCEPT !.state = "I_M", !.acks = 0])
       ELSE DirTakes(m, {}, [Same EXCEPT !.acks = @ - 1])

DirM_M(m) ==
  /\ dir_state = "M_M"
  /\ owner # NoProc
  /\ m.mtype = "Put"
  /\ DirTakes(m, {To(owner, "Data", Dir)}, [Same EXCEPT !.state = "I_M"])

(* Faulty: the response is forgotten.                                     *)
NoResponse(option, m) == {}

(* The three holes of a directory handler: what it sends (to the owner or  *)
(* the sharers as they are), whom it tracks, and its next state.  A        *)
(* wildcard throws Unknown, which is no step, unless a Send threw before.  *)
Response(option, m) ==
  CASE option = "none" -> {}
    [] option = "Data to src" -> {To(m.src, "Data", Dir)}
    [] option = "Data to owner" -> {To(owner, "Data", Dir)}
    [] option = "Inv to owner" -> {To(owner, "Inv", Dir)}
    [] option = "Ack to src" -> {To(m.src, "Ack", Dir)}
    [] option = "Data to sharer" -> {To(p, "Data", Dir) : p \in sharers}

Track(option, m) ==
  CASE option = "none" -> owner
    [] option = "owner is src" -> m.src
    [] option \in {"no owner", "?"} -> NoProc

Holes(m, response, track, state) ==
  /\ response # "?"
  /\ IF response \in {"Data to owner", "Inv to owner"} /\ owner = NoProc
       THEN Throw("")
       ELSE /\ "?" \in {track, state} => Fails(Response(response, m))
            /\ DirTakes(m, Response(response, m),
                        [Same EXCEPT !.state = state, !.owner = Track(track, m)])

DirI_M(m) ==
  /\ dir_state = "I_M"
  /\ \/ /\ m.mtype = "Ack"
        /\ Holes(m, completion.I_M_Ack_Response, completion.I_M_Ack_Track,
                 completion.I_M_Ack_State)
     \/ /\ m.mtype = "Put"
        /\ DirTakes(m, {To(m.src, "Ack", Dir)},
                    [Same EXCEPT !.state = "I_M_I", !.owner = NoProc])

DirI_M_I(m) ==
  /\ dir_state = "I_M_I"
  /\ m.mtype = "Ack"
  /\ DirTakes(m, {}, [Same EXCEPT !.state = "I"])

(* Faulty: a write request is not stalled in M_S but taken for a first one.*)
DirServesInM_S(m) ==
  /\ dir_state = "M_S"
  /\ \/ /\ m.mtype = "GetM"
        /\ DirTakes(m, {To(m.src, "Data", Dir)}, [Same EXCEPT !.owner = m.src])
     \/ /\ m.mtype = "Put"
        /\ Holes(m, completion.M_S_Put_Response, completion.M_S_Put_Track,
                 completion.M_S_Put_State)

DirM_S(m) ==
  /\ dir_state = "M_S"
  /\ m.mtype = "Put"
  /\ Holes(m, completion.M_S_Put_Response, completion.M_S_Put_Track,
           completion.M_S_Put_State)

(* While a transaction is open requests stall (return false: no step).     *)
DirHandled ==
  [I |-> {"GetM", "GetS"}, M |-> {"GetM", "GetS", "Put"},
   S |-> {"GetM", "GetS"}, I_M |-> {"GetM", "GetS", "Ack", "Put"},
   I_M_I |-> {"GetM", "GetS", "Ack"}, M_M |-> {"GetM", "GetS", "Put"},
   S_M |-> {"GetM", "GetS", "Ack"}, M_S |-> {"GetM", "GetS", "Put"}]

DirErrs(m) ==
  \/ dir_state \in {"M", "M_M", "S_M"} /\ owner = NoProc /\ Throw("Owner unset")
  \/ dir_state = "M" /\ owner # NoProc /\ sharers # {} /\ Throw("Sharers not empty")
  \/ dir_state = "S" /\ owner # NoProc /\ Throw("Owner set")
  \/ m.mtype \notin DirHandled[dir_state] /\ Throw("Unhandled message type")

DirReceive(m) ==
  /\ error = "none"
  /\ m \in chan[Dir]
  /\ \/ DirI(m) \/ DirM(m) \/ DirS(m) \/ DirI_M(m) \/ DirI_M_I(m)
     \/ DirM_M(m) \/ DirS_M(m) \/ DirM_S(m) \/ DirErrs(m)

DirReceiveFrom(p) == \E m \in chan[Dir] : m.src = p /\ DirReceive(m)

-----------------------------------------------------------------------------
Next ==
  \E p \in Proc :
    \/ I_Read(p)
    \/ I_Write(p)
    \/ S_Write(p)
    \/ S_Replacement(p)
    \/ M_Replacement(p)
    \/ L1ReceiveUnordered(p)
    \/ DirReceiveFrom(p)

(* "A real system should provide some fairness guarantees": what a cache   *)
(* can receive it does receive, and a request that the directory stalls    *)
(* now and then but could take again and again is taken.                   *)
Fairness ==
  \A p \in Proc : WF_vars(L1ReceiveUnordered(p)) /\ SF_vars(DirReceiveFrom(p))

Spec == Init /\ [][Next]_vars /\ Fairness

-----------------------------------------------------------------------------
(***************************************************************************)
(* Properties.                                                             *)
(***************************************************************************)

(* A modified copy is the only valid one.  The invariant SWMR that accepts *)
(* a candidate only forbids a second modified copy; the shared copies it   *)
(* leaves out are covered here.                                            *)
Coherent ==
  \A p, q \in Proc : p # q /\ l1_state[p] = "M" => l1_state[q] \notin {"M", "S"}

(* No message comes where the candidate has no answer to it, no channel    *)
(* overflows, and the directory's assertions hold.                         *)
NoErrorThrown == error = "none"

(* While a writer waits in S_M, each ack it still waits for is an          *)
(* invalidation or an Ack in flight; otherwise no invalidation for a       *)
(* writer is left anywhere.                                                *)
WriterInvs ==
  {x \in Proc \X Msg : /\ x[2] \in chan[x[1]]
                      /\ x[2].mtype = "Inv" /\ x[2].src # Dir}
AcksAccountedFor ==
  IF dir_state = "S_M"
    THEN acks = Cardinality(WriterInvs)
                + Cardinality({m \in chan[Dir] : m.mtype = "Ack"})
    ELSE WriterInvs = {}

(* The directory never loses a copy: the modified one is its owner's, or   *)
(* is called back by an Inv, or its Put is under way; a shared one is a    *)
(* sharer's or has an Inv on its way.  In I there is no owner (SaneState). *)
Comes(p, mtype) == \E m \in chan[p] : m.mtype = mtype
DirectoryTracksCopies ==
  /\ dir_state = "I" => owner = NoProc
  /\ \A p \in Proc :
       /\ l1_state[p] = "M" =>
            \/ dir_state \in {"I_M", "M"} /\ owner = p
            \/ Comes(p, "Inv")
       /\ l1_state[p] = "S" => p \in sharers \/ Comes(p, "Inv")

(* LivelockFreedom accepts a candidate when no cache can go round among    *)
(* unstable states; a cache that is to be invalidated counts as stable in  *)
(* two of them.  So a cache that stays unstable comes to a standstill.     *)
StablePred(p) ==
  \/ l1_state[p] \in Stable
  \/ l1_state[p] \in {"IS_I", "I_M"} /\ Comes(p, "Inv")
NoLivelock ==
  \A p \in Proc :
    []<>StablePred(p) \/ <>[][FALSE]_<<l1_state[p], chan[p]>>

(* "If a processor issues a memory access, this memory access must         *)
(* eventually be satisfied" (domain/protocol.hh): no cache waits forever.  *)
EveryAccessSatisfied ==
  \A p \in Proc : l1_state[p] \notin Stable ~> l1_state[p] \in Stable

(* So it is with the code that stands in the holes' place with SYNON = 0.  *)
ReferenceSatisfiesAccesses == completion = Reference => EveryAccessSatisfied
=============================================================================
