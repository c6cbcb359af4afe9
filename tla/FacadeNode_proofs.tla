------------------------- MODULE FacadeNode_proofs --------------------------
(* What TLAPS proves about the node around the facade runtime, for any       *)
(* costmaps and any number of goals and patrol paths: no goal of the facade  *)
(* runs outside the boundary of its own session, and no goal of the patrol   *)
(* server is left running that nobody waits for.  The facade and the patrol  *)
(* server each get an invariant of what belongs to them at the controller    *)
(* they share; a step of one leaves the other's alone.                       *)
EXTENDS FacadeNode, TLAPS

Inner == {"sent", "follow", "tick", "replan", "readmit", "recheck", "stop", "left", "spin"}
Outside == {"free", "reserved"}
Pcs == Inner \cup Outside \cup {"init", "begin", "start", "plan", "admit", "guard", "final"}
Heards == {None, "accepted", "rejected"} \cup Ends
Goals == [owner : Owners \cup {None}, n : Nat, polygon : BOOLEAN, proof : Nat, asked : BOOLEAN]
Sessions == [pc : Pcs, n : Nat, polygon : BOOLEAN, cancel : BOOLEAN, client : BOOLEAN,
             alone : BOOLEAN, stop : {None, "cancel", "swap", "abort"}]
Bounds == [token : Nat, ever : BOOLEAN, armed : BOOLEAN]
Patrols == [pc : {"free", "next", "sent", "follow", "asked"}, n : Nat, pieces : Nat,
            cancel : BOOLEAN]

Typed ==
    /\ session \in Sessions /\ bound \in Bounds
    /\ layer \in [Costmaps -> Nat] /\ ack \in [Costmaps -> Nat]
    /\ live \in Goals /\ requests \in SUBSET Goals /\ answer \in [Owners -> Heards]
    /\ patrol \in Patrols

\* What the facade has at the controller is its session's.
FacadeRequest == [Nobody EXCEPT !.owner = "facade", !.n = session.n,
                                !.polygon = session.polygon, !.proof = bound.token]
FacadeOwns ==
    /\ \A r \in requests :
          r.owner = "facade" => /\ session.pc = "sent" /\ answer["facade"] = None
                                /\ r = FacadeRequest
    /\ live.owner = "facade" => /\ session.pc \in Inner /\ answer["facade"] = "accepted"
                                /\ live.n = session.n /\ live.proof = bound.token

\* Past its handshake a session runs under its own token and no layer under
\* another one.
TokenIsOwn ==
    /\ bound.token <= session.n
    /\ session.pc = "reserved" => bound.token < session.n
    /\ bound.ever /\ session.pc \notin Outside => bound.token = session.n
    /\ bound.ever /\ session.pc \notin Outside \cup {"init"}
          => \A c \in Costmaps : layer[c] \in {bound.token, 0}
    /\ \A c \in Costmaps : /\ layer[c] <= bound.token /\ ack[c] <= bound.token
                           /\ ack[c] = bound.token => layer[c] \in {bound.token, 0}

\* What the patrol server has there is its present path's, or asked to stop.
PatrolRequest == [Nobody EXCEPT !.owner = "patrol", !.n = patrol.n]
PatrolOwns ==
    /\ \A r \in requests :
          r.owner = "patrol" => /\ patrol.pc = "sent" /\ answer["patrol"] = None
                                /\ r = PatrolRequest
    /\ live.owner = "patrol" =>
          /\ live.n <= patrol.n
          /\ IF Own(live) THEN /\ patrol.pc \in {"sent", "follow", "asked"}
                               /\ answer["patrol"] = "accepted"
                          ELSE live.asked

OwnersKnown == \A r \in requests : r.owner \in Owners

IInv == Typed /\ OwnersKnown /\ FacadeOwns /\ TokenIsOwn /\ PatrolOwns

-----------------------------------------------------------------------------
(* Steps of the session.                                                     *)

LEMMA RequestFields ==
    ASSUME Typed
    PROVE  /\ Nobody \in Goals /\ Nobody.owner = None
           /\ FacadeRequest \in Goals /\ FacadeRequest.owner = "facade"
           /\ FacadeRequest.n = session.n /\ FacadeRequest.proof = bound.token
           /\ PatrolRequest \in Goals /\ PatrolRequest.owner = "patrol"
           /\ PatrolRequest.n = patrol.n
<1>1. session.n \in Nat /\ session.polygon \in BOOLEAN /\ bound.token \in Nat /\ patrol.n \in Nat
  BY DEF Typed, Sessions, Bounds, Patrols
<1>2. Nobody \in Goals /\ Nobody.owner = None
  BY DEF Nobody, Goals
<1> HIDE DEF Nobody
<1>3. /\ FacadeRequest \in Goals /\ FacadeRequest.owner = "facade"
      /\ FacadeRequest.n = session.n /\ FacadeRequest.proof = bound.token
  BY <1>1, <1>2 DEF FacadeRequest, Goals, Owners
<1>4. /\ PatrolRequest \in Goals /\ PatrolRequest.owner = "patrol"
      /\ PatrolRequest.n = patrol.n
  BY <1>1, <1>2 DEF PatrolRequest, Goals, Owners
<1>. QED
  BY <1>2, <1>3, <1>4

\* What a step of the facade owes the patrol server.
LEMMA PatrolApart ==
    ASSUME Typed, PatrolOwns, UNCHANGED patrol, answer'["patrol"] = answer["patrol"],
           \/ live' = live
           \/ live.owner # "patrol" /\ live'.owner # "patrol",
           \A r \in requests' : r.owner = "patrol" => r \in requests
    PROVE  PatrolOwns'
<1>1. PatrolRequest' = PatrolRequest
  BY DEF PatrolRequest
<1>2. live' = live => Own(live)' = Own(live)
  BY DEF Own
<1>. QED
  BY <1>1, <1>2 DEF PatrolOwns

\* And the other way round.
LEMMA FacadeApart ==
    ASSUME Typed, FacadeOwns, TokenIsOwn,
           session'.pc = session.pc, session'.n = session.n, session'.polygon = session.polygon,
           UNCHANGED <<bound, layer, ack>>, answer'["facade"] = answer["facade"],
           \/ live' = live
           \/ live.owner # "facade" /\ live'.owner # "facade",
           \A r \in requests' : r.owner = "facade" => r \in requests
    PROVE  FacadeOwns' /\ TokenIsOwn'
<1>1. FacadeRequest' = FacadeRequest
  BY DEF FacadeRequest
<1>. QED
  BY <1>1 DEF FacadeOwns, TokenIsOwn

Stopped(g) == [g EXCEPT !.asked = TRUE]

\* The session goes on or ends; its goal at the controller stays with it.
LEMMA SessionMoves ==
    ASSUME IInv, session' \in Sessions, UNCHANGED <<bound, layer, ack, requests, patrol>>,
           session'.n = session.n, session'.polygon = session.polygon,
           answer' = answer \/ answer' = [answer EXCEPT !["facade"] = None],
           live' = live \/ (live.owner = "facade" /\ live' = Stopped(live)),
           live.owner = "facade" => session'.pc \in Inner /\ answer' = answer,
           session.pc = "sent" /\ answer["facade"] = None => session'.pc = "sent",
           session'.pc \notin Outside => session.pc \notin Outside,
           session'.pc \notin Outside \cup {"init"} => session.pc \notin Outside \cup {"init"},
           session'.pc = "reserved" => session.pc = "reserved"
    PROVE  IInv'
<1>1. Typed
  BY DEF IInv
<1>2. /\ live' \in Goals /\ live'.owner = live.owner /\ live'.n = live.n
      /\ live'.proof = live.proof
  BY <1>1 DEF Typed, Goals, Stopped
<1>3. answer' \in [Owners -> Heards] /\ answer'["patrol"] = answer["patrol"]
      /\ (answer["facade"] = None => answer'["facade"] = None)
  BY <1>1 DEF Typed, Heards, Owners
<1>4. Typed'
  BY <1>1, <1>2, <1>3 DEF Typed
<1>5. PatrolOwns'
  BY <1>1, <1>3, PatrolApart, <1>2 DEF IInv
<1>6. FacadeRequest' = FacadeRequest
  BY DEF FacadeRequest
<1>7. FacadeOwns'
  BY <1>2, <1>3, <1>6 DEF IInv, FacadeOwns
<1>8. TokenIsOwn'
  BY DEF IInv, TokenIsOwn
<1>. QED
  BY <1>4, <1>5, <1>7, <1>8 DEF IInv, OwnersKnown

SameGoal(t) == t \in Sessions /\ t.n = session.n /\ t.polygon = session.polygon

LEMMA SessionFields ==
    ASSUME session \in Sessions
    PROVE  /\ \A pc \in Pcs : SameGoal([session EXCEPT !.pc = pc]) /\ [session EXCEPT !.pc = pc].pc = pc
           /\ \A pc \in Pcs, alone \in BOOLEAN, why \in {None, "cancel", "swap", "abort"} :
                 LET t == [session EXCEPT !.pc = pc, !.alone = alone, !.stop = why] IN
                 SameGoal(t) /\ t.pc = pc
           /\ \A why \in {"cancel", "swap", "abort"} :
                 LET t == [session EXCEPT !.pc = "stop", !.stop = why] IN
                 SameGoal(t) /\ t.pc = "stop"
           /\ LET t == [session EXCEPT !.pc = "free", !.cancel = FALSE, !.client = FALSE,
                                       !.alone = FALSE, !.stop = None] IN
              SameGoal(t) /\ t.pc = "free"
           /\ SameGoal([session EXCEPT !.cancel = TRUE])
           /\ [session EXCEPT !.cancel = TRUE].pc = session.pc
           /\ SameGoal([session EXCEPT !.cancel = TRUE, !.client = TRUE])
           /\ [session EXCEPT !.cancel = TRUE, !.client = TRUE].pc = session.pc
           /\ SameGoal([session EXCEPT !.alone = FALSE])
           /\ [session EXCEPT !.alone = FALSE].pc = session.pc
<1>1. ASSUME NEW pc \in Pcs
      PROVE  SameGoal([session EXCEPT !.pc = pc]) /\ [session EXCEPT !.pc = pc].pc = pc
  BY DEF Sessions, SameGoal
<1>2. ASSUME NEW pc \in Pcs, NEW alone \in BOOLEAN, NEW why \in {None, "cancel", "swap", "abort"}
      PROVE  LET t == [session EXCEPT !.pc = pc, !.alone = alone, !.stop = why] IN
             SameGoal(t) /\ t.pc = pc
  BY DEF Sessions, SameGoal
<1>3. ASSUME NEW why \in {"cancel", "swap", "abort"}
      PROVE  LET t == [session EXCEPT !.pc = "stop", !.stop = why] IN
             SameGoal(t) /\ t.pc = "stop"
  BY DEF Sessions, SameGoal, Pcs, Inner
<1>4. /\ SameGoal([session EXCEPT !.cancel = TRUE])
      /\ [session EXCEPT !.cancel = TRUE].pc = session.pc
  BY DEF Sessions, SameGoal
<1>5. /\ SameGoal([session EXCEPT !.cancel = TRUE, !.client = TRUE])
      /\ [session EXCEPT !.cancel = TRUE, !.client = TRUE].pc = session.pc
  BY DEF Sessions, SameGoal
<1>6. LET t == [session EXCEPT !.pc = "free", !.cancel = FALSE, !.client = FALSE,
                               !.alone = FALSE, !.stop = None] IN
      SameGoal(t) /\ t.pc = "free"
  BY DEF Sessions, SameGoal, Pcs, Outside
<1>7. /\ SameGoal([session EXCEPT !.alone = FALSE])
      /\ [session EXCEPT !.alone = FALSE].pc = session.pc
  BY DEF Sessions, SameGoal
<1>. QED
  BY <1>1, <1>2, <1>3, <1>4, <1>5, <1>6, <1>7

Calm == UNCHANGED <<bound, layer, ack, requests, patrol>>

\* A result, or a refusal, is only there when no goal runs.
LEMMA EndedMeansIdle ==
    ASSUME IInv, Ended \/ answer["facade"] = "rejected"
    PROVE  live.owner # "facade"
BY DEF IInv, FacadeOwns, Ended, Ends

\* The slot is free again.
LEMMA FinishSafe ==
    ASSUME IInv, Finish, Calm, UNCHANGED live, live.owner # "facade",
           answer' = answer \/ answer' = [answer EXCEPT !["facade"] = None],
           ~(session.pc = "sent" /\ answer["facade"] = None)
    PROVE  IInv'
<1>1. session \in Sessions
  BY DEF IInv, Typed
<1>2. /\ session' \in Sessions /\ session'.pc = "free" /\ session'.n = session.n
      /\ session'.polygon = session.polygon
  BY <1>1, SessionFields DEF Finish, SameGoal
<1>. QED
  BY <1>2, SessionMoves DEF Outside, Calm

\* From one step of a goal to the next.
LEMMA ToSafe ==
    ASSUME IInv, NEW pc \in Pcs \ Outside, To(pc), Calm, UNCHANGED live,
           session.pc \notin Outside \cup {"init"}, pc # "init",
           answer' = answer \/ answer' = [answer EXCEPT !["facade"] = None],
           live.owner = "facade" => pc \in Inner /\ answer' = answer,
           ~(session.pc = "sent" /\ answer["facade"] = None)
    PROVE  IInv'
<1>1. session \in Sessions
  BY DEF IInv, Typed
<1>2. /\ session' \in Sessions /\ session'.pc = pc /\ session'.n = session.n
      /\ session'.polygon = session.polygon
  BY <1>1, SessionFields DEF To, SameGoal
<1>. QED
  BY <1>2, SessionMoves DEF Outside, Calm

LEMMA GuardSafe ==
    ASSUME IInv, Guard, Calm, UNCHANGED live, live.owner # "facade",
           session.pc \notin Outside \cup {"init"},
           answer' = answer \/ answer' = [answer EXCEPT !["facade"] = None],
           ~(session.pc = "sent" /\ answer["facade"] = None)
    PROVE  IInv'
<1>1. session \in Sessions
  BY DEF IInv, Typed
<1> DEFINE alone == patrol.pc = "free" /\ live = Nobody
<1>2. alone \in BOOLEAN /\ session' = [session EXCEPT !.pc = "guard", !.alone = alone, !.stop = None]
  BY DEF Guard
<1> HIDE DEF alone
<1>3. /\ session' \in Sessions /\ session'.pc = "guard" /\ session'.n = session.n
      /\ session'.polygon = session.polygon
  <2>1. "guard" \in Pcs /\ None \in {None, "cancel", "swap", "abort"}
    BY DEF Pcs
  <2> DEFINE t == [session EXCEPT !.pc = "guard", !.alone = alone, !.stop = None]
  <2>2. SameGoal(t) /\ t.pc = "guard"
    BY <1>1, <1>2, <2>1, SessionFields
  <2> HIDE DEF t
  <2>. QED
    BY <1>2, <2>2 DEF SameGoal, t
<1>. QED
  BY <1>3, SessionMoves DEF Outside, Calm

LEMMA StopSafe ==
    ASSUME IInv, NEW why \in {"cancel", "swap", "abort"}, Stop(why), Calm, UNCHANGED answer,
           session.pc \in Inner \ {"sent"}
    PROVE  IInv'
<1>1. session \in Sessions
  BY DEF IInv, Typed
<1>2. /\ session' \in Sessions /\ session'.pc = "stop" /\ session'.n = session.n
      /\ session'.polygon = session.polygon
  BY <1>1, SessionFields DEF Stop, SameGoal
<1>3. live' = live \/ (live.owner = "facade" /\ live' = Stopped(live))
  BY DEF Stop, Stopped
<1>. QED
  BY <1>2, <1>3, SessionMoves DEF Outside, Inner, Calm

\* A path is sent: nothing of the facade is at the controller.
LEMMA SubmitSafe ==
    ASSUME IInv, Submit, UNCHANGED <<bound, layer, ack, patrol>>, live.owner # "facade",
           session.pc \notin Outside \cup {"init", "sent"}
    PROVE  IInv'
<1>1. Typed /\ session \in Sessions
  BY DEF IInv, Typed
<1>2. /\ session' \in Sessions /\ session'.pc = "sent" /\ session'.n = session.n
      /\ session'.polygon = session.polygon
  BY <1>1 DEF Submit, Sessions, Pcs, Inner
<1>3. requests' = requests \cup {FacadeRequest} /\ live' = live
      /\ answer' = [answer EXCEPT !["facade"] = None]
  BY DEF Submit, FacadeRequest
<1>4. answer' \in [Owners -> Heards] /\ answer'["facade"] = None
      /\ answer'["patrol"] = answer["patrol"]
  BY <1>1, <1>3 DEF Typed, Owners, Heards
<1>5. FacadeRequest \in Goals /\ FacadeRequest.owner = "facade"
  BY <1>1, RequestFields
<1>6. Typed' /\ OwnersKnown'
  BY <1>1, <1>2, <1>3, <1>4, <1>5 DEF Typed, IInv, OwnersKnown, Owners
<1>7. FacadeRequest' = FacadeRequest
  BY <1>2 DEF FacadeRequest
<1>8. FacadeOwns'
  BY <1>2, <1>3, <1>4, <1>7 DEF IInv, FacadeOwns
<1>9. PatrolOwns'
  BY <1>1, <1>3, <1>4, <1>5, PatrolApart DEF IInv
<1>10. TokenIsOwn'
  BY <1>2 DEF IInv, TokenIsOwn, Outside
<1>. QED
  BY <1>6, <1>8, <1>9, <1>10 DEF IInv

LEMMA IdleUnlessInner ==
    ASSUME IInv, session.pc \notin Inner
    PROVE  live.owner # "facade"
BY DEF IInv, FacadeOwns

LEMMA WorksSafe == ASSUME IInv, Works PROVE IInv'
<1> USE DEF Calm, SameNode, OnlySession, Forget, layerVars, followVars
<1>a. ASSUME session.pc \notin Inner PROVE live.owner # "facade"
  BY <1>a, IdleUnlessInner
<1>b. ASSUME session.pc \in {"begin", "start", "plan", "admit", "guard", "final"}
      PROVE  session.pc \notin Inner /\ session.pc \notin Outside \cup {"init"}
  BY <1>b DEF Inner, Outside
<1>c. ASSUME session.pc \in Inner \ {"sent"} PROVE session.pc \notin Outside \cup {"init", "sent"}
  BY <1>c DEF Inner, Outside
<1>d. {"begin", "start", "plan", "admit", "sent", "follow", "tick", "replan", "readmit",
       "recheck", "left", "spin"} \subseteq Pcs \ Outside
  BY DEF Pcs, Inner, Outside
<1>e. ASSUME CancelMet, session.pc \in {"tick", "replan"}, UNCHANGED <<bound, layer, ack, patrol>>
      PROVE  IInv'
  <2>1. session.pc \in Inner \ {"sent"} /\ "left" \in Inner
    BY <1>e DEF Inner
  <2>2. \/ Ended /\ Finish /\ UNCHANGED <<live, requests>>
           /\ answer' = [answer EXCEPT !["facade"] = None]
        \/ To("left") /\ UNCHANGED <<live, requests, answer>>
        \/ Stop("abort") /\ UNCHANGED <<requests, answer>>
    BY <1>e DEF CancelMet
  <2>. QED
    BY <1>e, <2>1, <2>2, <1>c, <1>d, EndedMeansIdle, FinishSafe, ToSafe, StopSafe
<1>f. ASSUME NoReplacement, session.pc \in {"tick", "replan", "readmit"},
             UNCHANGED <<bound, layer, ack, patrol>>
      PROVE  IInv'
  <2>1. session.pc \in Inner \ {"sent"} /\ {"follow", "recheck"} \subseteq Inner
    BY <1>f DEF Inner
  <2>2. \/ Stop("abort") /\ UNCHANGED <<requests, answer>>
        \/ (To("follow") \/ To("recheck")) /\ UNCHANGED <<live, requests, answer>>
        \/ /\ Ended /\ Guard /\ UNCHANGED <<live, requests>>
           /\ answer' = [answer EXCEPT !["facade"] = None]
    BY <1>f DEF NoReplacement, Ended, Ends
  <2>. QED
    BY <1>f, <2>1, <2>2, <1>c, <1>d, EndedMeansIdle, ToSafe, GuardSafe, StopSafe
<1>1. CASE Starts
  <2>1. session.pc = "reserved" /\ session \in Sessions /\ live.owner # "facade"
        /\ bound.token < session.n /\ Typed
    BY <1>1, IdleUnlessInner DEF Starts, Inner, IInv, TokenIsOwn, Typed
  <2>2. \A r \in requests : r.owner # "facade"
    BY <2>1 DEF IInv, FacadeOwns
  <2>3. UNCHANGED <<layer, ack, live, requests, answer, patrol>>
    BY <1>1 DEF Starts
  <2>4. CASE bound' = [token |-> session.n, ever |-> TRUE, armed |-> FALSE] /\ To("init")
    <3>1. session' \in Sessions /\ session'.pc = "init" /\ session'.n = session.n
      BY <2>1, <2>4, SessionFields DEF To, Pcs, SameGoal
    <3>2. bound' \in Bounds /\ bound'.token = session.n
      BY <2>1, <2>4 DEF Bounds, Sessions
    <3>3. Typed'
      BY <2>1, <2>3, <3>1, <3>2 DEF Typed
    <3>4. TokenIsOwn'
      <4>1. session.n \in Nat /\ bound.token \in Nat
            /\ \A c \in Costmaps : layer[c] \in Nat /\ ack[c] \in Nat
        BY <2>1 DEF Typed, Sessions, Bounds
      <4>2. \A c \in Costmaps : layer[c] <= bound.token /\ ack[c] <= bound.token
        BY DEF IInv, TokenIsOwn
      <4>. QED
        BY <2>1, <2>3, <3>1, <3>2, <4>1, <4>2 DEF TokenIsOwn, Outside
    <3>5. FacadeOwns'
      BY <2>1, <2>2, <2>3 DEF FacadeOwns
    <3>6. PatrolOwns'
      BY <2>1, <2>3, PatrolApart DEF IInv
    <3>. QED
      BY <2>3, <3>3, <3>4, <3>5, <3>6 DEF IInv, OwnersKnown
  <2>5. CASE ~bound.ever /\ bound' = [bound EXCEPT !.armed = FALSE] /\ To("begin")
    <3>1. session' \in Sessions /\ session'.pc = "begin" /\ session'.n = session.n
      BY <2>1, <2>5, SessionFields DEF To, Pcs, SameGoal
    <3>2. bound' \in Bounds /\ bound'.token = bound.token /\ ~bound'.ever
      BY <2>1, <2>5 DEF Bounds, Typed
    <3>3. Typed'
      BY <2>1, <2>3, <3>1, <3>2 DEF Typed
    <3>4. TokenIsOwn'
      BY <2>1, <2>3, <3>1, <3>2 DEF TokenIsOwn, IInv, Typed, Sessions, Bounds
    <3>5. FacadeOwns'
      BY <2>1, <2>2, <2>3 DEF FacadeOwns
    <3>6. PatrolOwns'
      BY <2>1, <2>3, PatrolApart DEF IInv
    <3>. QED
      BY <2>3, <3>3, <3>4, <3>5, <3>6 DEF IInv, OwnersKnown
  <2>. QED
    BY <1>1, <2>4, <2>5 DEF Starts
<1>2. CASE HandshakeEnds
  <2>1. /\ session.pc = "init" /\ To("begin") /\ Typed /\ session \in Sessions
        /\ bound' = [bound EXCEPT !.armed = session.polygon]
        /\ UNCHANGED <<layer, ack, live, requests, answer, patrol>>
        /\ \A c \in Costmaps : ack[c] = bound.token
    BY <1>2 DEF HandshakeEnds, BoundaryReady, IInv, Typed
  <2>2. live.owner # "facade" /\ \A r \in requests : r.owner # "facade"
    BY <2>1 DEF IInv, FacadeOwns, Inner
  <2>3. session' \in Sessions /\ session'.pc = "begin" /\ session'.n = session.n
    BY <2>1, SessionFields DEF To, Pcs, SameGoal
  <2>4. bound' \in Bounds /\ bound'.token = bound.token /\ bound'.ever = bound.ever
    BY <2>1 DEF Bounds, Typed, Sessions
  <2>5. Typed'
    BY <2>1, <2>3, <2>4 DEF Typed
  <2>6. TokenIsOwn'
    BY <2>1, <2>3, <2>4 DEF IInv, TokenIsOwn, Outside
  <2>7. FacadeOwns'
    BY <2>1, <2>2 DEF FacadeOwns
  <2>8. PatrolOwns'
    BY <2>1, PatrolApart DEF IInv
  <2>. QED
    BY <2>1, <2>5, <2>6, <2>7, <2>8 DEF IInv, OwnersKnown
<1>3. CASE AlreadyThere
  BY <1>3, <1>a, <1>b, FinishSafe, GuardSafe DEF AlreadyThere
<1>4. CASE Plans
  BY <1>4, <1>a, <1>b, <1>d, FinishSafe, ToSafe DEF Plans
<1>5. CASE CapturesStart
  BY <1>5, <1>a, <1>b, <1>d, FinishSafe, ToSafe DEF CapturesStart
<1>6. CASE SeesPlan
  BY <1>6, <1>a, <1>b, <1>d, FinishSafe, ToSafe DEF SeesPlan
<1>7. CASE Admits
  <2>1. session.pc = "admit" /\ UNCHANGED <<bound, layer, ack, patrol>>
        /\ (Submit \/ (Finish /\ UNCHANGED <<live, requests, answer>>))
    BY <1>7 DEF Admits
  <2>. QED
    BY <2>1, <1>a, <1>b, FinishSafe, SubmitSafe
<1>8. CASE SeesAnswer
  <2>1. session.pc = "sent" /\ answer["facade"] # None /\ UNCHANGED <<bound, layer, ack, patrol>>
    BY <1>8 DEF SeesAnswer
  <2>2. CASE answer["facade"] = "rejected"
    BY <1>8, <2>1, <2>2, EndedMeansIdle, FinishSafe DEF SeesAnswer
  <2>3. CASE answer["facade"] # "rejected"
    BY <1>8, <1>d, <2>1, <2>3, ToSafe DEF SeesAnswer, Inner, Outside
  <2>. QED
    BY <2>2, <2>3
<1>9. CASE SeesEnd
  <2>1. /\ session.pc \in Inner \ {"sent"} /\ live.owner # "facade" /\ Calm /\ UNCHANGED live
        /\ answer' = [answer EXCEPT !["facade"] = None]
        /\ Guard \/ To("plan") \/ Finish
    BY <1>9, EndedMeansIdle DEF SeesEnd, Inner
  <2>. QED
    BY <2>1, <1>c, <1>d, GuardSafe, ToSafe, FinishSafe
<1>10. CASE SeesCancel
  BY <1>10, StopSafe DEF SeesCancel, Inner
<1>11. CASE SeesReplan
  <2>1. session.pc = "replan" /\ UNCHANGED <<bound, layer, ack, patrol>>
        /\ (NoReplacement \/ (To("readmit") /\ UNCHANGED <<live, requests, answer>>))
    BY <1>11 DEF SeesReplan
  <2>. QED
    BY <2>1, <1>c, <1>d, <1>f, ToSafe DEF Inner
<1>12. CASE SendsReplan
  <2>1. session.pc = "tick" /\ UNCHANGED <<bound, layer, ack, patrol>>
        /\ \/ CancelMet \/ NoReplacement
           \/ To("replan") /\ UNCHANGED <<live, requests, answer>>
    BY <1>12 DEF SendsReplan
  <2>. QED
    BY <2>1, <1>c, <1>d, <1>e, <1>f, ToSafe DEF Inner
<1>13. CASE ReplanIsRejected
  BY <1>13, <1>e DEF ReplanIsRejected
<1>14. CASE SeesEndInReplan
  <2>1. /\ session.pc \in Inner \ {"sent"} /\ live.owner # "facade" /\ Calm /\ UNCHANGED live
        /\ \/ /\ Guard \/ Finish
              /\ answer' = [answer EXCEPT !["facade"] = None]
           \/ To("spin") /\ UNCHANGED answer
    BY <1>14, EndedMeansIdle DEF SeesEndInReplan, Inner
  <2>. QED
    BY <2>1, <1>c, <1>d, GuardSafe, ToSafe, FinishSafe
<1>15. CASE LateResult
  BY <1>15, EndedMeansIdle, FinishSafe DEF LateResult
<1>16. CASE Readmits
  <2>1. session.pc = "readmit" /\ UNCHANGED <<bound, layer, ack, patrol>>
    BY <1>16 DEF Readmits
  <2>2. \/ Stop("abort") /\ UNCHANGED <<requests, answer>>
        \/ Stop("swap") /\ UNCHANGED <<requests, answer>>
        \/ /\ Ended
           /\ \/ Submit
              \/ /\ Guard \/ Finish
                 /\ UNCHANGED <<live, requests>> /\ answer' = [answer EXCEPT !["facade"] = None]
    BY <1>16 DEF Readmits, Ended, Ends
  <2>. QED
    BY <2>1, <2>2, <1>c, EndedMeansIdle, SubmitSafe, GuardSafe, FinishSafe, StopSafe DEF Inner
<1>17. CASE KeepsPath
  BY <1>17, <1>c, <1>d, ToSafe DEF KeepsPath, Inner
<1>18. CASE IsRefused
  BY <1>18, <1>f DEF IsRefused
<1>19. CASE Rechecks
  <2>1. /\ session.pc = "recheck" /\ UNCHANGED <<bound, layer, ack, patrol, requests, answer>>
        /\ Stop("abort") \/ (To("follow") /\ UNCHANGED live)
    BY <1>19 DEF Rechecks
  <2>. QED
    BY <2>1, <1>c, <1>d, ToSafe, StopSafe DEF Inner
<1>20. CASE SeesStop
  <2>1. /\ session.pc = "stop" /\ live.owner # "facade" /\ UNCHANGED <<bound, layer, ack, patrol>>
        /\ \/ Submit
           \/ /\ Guard \/ Finish
              /\ UNCHANGED <<live, requests>> /\ answer' = [answer EXCEPT !["facade"] = None]
    BY <1>20, EndedMeansIdle DEF SeesStop
  <2>. QED
    BY <2>1, <1>c, SubmitSafe, GuardSafe, FinishSafe DEF Inner
<1>. QED
  BY <1>1, <1>2, <1>3, <1>4, <1>5, <1>6, <1>7, <1>8, <1>9, <1>10, <1>11, <1>12, <1>13, <1>14,
     <1>15, <1>16, <1>17, <1>18, <1>19, <1>20 DEF Works

LEMMA StandsSafe == ASSUME IInv, Stands \/ TimesOut PROVE IInv'
<1> USE DEF Calm, SameNode, OnlySession, layerVars, followVars
<1>1. CASE SeesStanding
  <2>1. UNCHANGED <<session, bound, layer, ack, live, requests, answer, patrol>>
    BY <1>1 DEF SeesStanding
  <2>2. Typed' /\ OwnersKnown'
    BY <2>1 DEF IInv, Typed, OwnersKnown
  <2>. QED
    BY <2>1, <2>2, FacadeApart, PatrolApart DEF IInv
<1>2. CASE AsksFinalCostmap
  BY <1>2, IdleUnlessInner, ToSafe DEF AsksFinalCostmap, Inner, Outside, Pcs
<1>3. CASE NoFinalCostmap
  BY <1>3, IdleUnlessInner, ToSafe DEF NoFinalCostmap, Inner, Outside, Pcs
<1>4. CASE Succeeds \/ GuardTimesOut
  BY <1>4, IdleUnlessInner, FinishSafe DEF Succeeds, GuardTimesOut, Leave, Inner
<1>5. CASE HandshakeFails
  BY <1>5, IdleUnlessInner, FinishSafe DEF HandshakeFails, Inner
<1>. QED
  BY <1>1, <1>2, <1>3, <1>4, <1>5 DEF Stands, TimesOut

LEMMA CancelSafe == ASSUME IInv, WatchCancels \/ ClientCancels PROVE IInv'
<1>1. /\ \/ session' = [session EXCEPT !.cancel = TRUE]
         \/ session' = [session EXCEPT !.cancel = TRUE, !.client = TRUE]
      /\ session \in Sessions
      /\ UNCHANGED <<bound, layer, ack, live, requests, answer, patrol>>
  BY DEF WatchCancels, ClientCancels, OnlySession, SameNode, layerVars, followVars, IInv, Typed
<1>2. SameGoal(session') /\ session'.pc = session.pc
  BY <1>1, SessionFields
<1>3. Typed' /\ OwnersKnown'
  BY <1>1, <1>2 DEF IInv, Typed, OwnersKnown, SameGoal
<1>. QED
  BY <1>1, <1>2, <1>3, FacadeApart, PatrolApart DEF IInv, SameGoal

LEMMA AcceptsGoalSafe == ASSUME IInv, AcceptsGoal PROVE IInv'
<1>1. PICK polygon \in BOOLEAN :
        session' = [pc |-> "reserved", n |-> session.n + 1, polygon |-> polygon,
                    cancel |-> FALSE, client |-> FALSE, alone |-> FALSE, stop |-> None]
  BY DEF AcceptsGoal
<1>2. session.pc = "free" /\ UNCHANGED <<bound, layer, ack, live, requests, answer, patrol>>
  BY DEF AcceptsGoal, OnlySession, SameNode, layerVars, followVars
<1>3. Typed /\ session.n \in Nat /\ bound.token \in Nat /\ bound.token <= session.n
  BY DEF IInv, Typed, Sessions, Bounds, TokenIsOwn
<1>4. session' \in Sessions /\ session'.pc = "reserved" /\ session'.n = session.n + 1
  BY <1>1, <1>3 DEF Sessions, Pcs, Outside
<1>5. live.owner # "facade" /\ \A r \in requests : r.owner # "facade"
  BY <1>2 DEF IInv, FacadeOwns, Inner
<1>6. Typed' /\ OwnersKnown'
  BY <1>2, <1>3, <1>4 DEF IInv, Typed, OwnersKnown
<1>7. FacadeOwns'
  BY <1>2, <1>5 DEF FacadeOwns
<1>8. TokenIsOwn'
  BY <1>2, <1>3, <1>4 DEF IInv, TokenIsOwn, Outside
<1>9. PatrolOwns'
  BY <1>2, <1>3, PatrolApart DEF IInv
<1>. QED
  BY <1>6, <1>7, <1>8, <1>9 DEF IInv

LEMMA LayersSafe == ASSUME IInv, Layers PROVE IInv'
<1>1. UNCHANGED <<session, bound, live, requests, answer, patrol>>
  BY DEF Layers, LayerUpdates, CostmapRestarts, followVars
<1>2. Typed /\ bound.token \in Nat
  BY DEF IInv, Typed, Bounds
<1>3. /\ layer \in [Costmaps -> Nat] /\ ack \in [Costmaps -> Nat]
      /\ layer' \in [Costmaps -> Nat] /\ ack' \in [Costmaps -> Nat]
      /\ \A c \in Costmaps :
            \/ layer'[c] = layer[c] /\ ack'[c] = ack[c]
            \/ layer'[c] = 0 /\ ack'[c] = ack[c]
            \/ layer'[c] \in {layer[c], bound.token} /\ ack'[c] \in {layer'[c], 0}
  <2>1. layer \in [Costmaps -> Nat] /\ ack \in [Costmaps -> Nat]
    BY <1>2 DEF Typed
  <2>2. ASSUME NEW c \in Costmaps, LayerUpdates(c)
        PROVE  /\ layer' \in [Costmaps -> Nat] /\ ack' \in [Costmaps -> Nat]
               /\ layer'[c] \in {layer[c], bound.token} /\ ack'[c] \in {layer'[c], 0}
               /\ \A d \in Costmaps \ {c} : layer'[d] = layer[d] /\ ack'[d] = ack[d]
    BY <1>2, <2>1, <2>2 DEF LayerUpdates
  <2>3. ASSUME NEW c \in Costmaps, CostmapRestarts(c)
        PROVE  /\ layer' \in [Costmaps -> Nat] /\ ack' = ack /\ layer'[c] = 0
               /\ \A d \in Costmaps \ {c} : layer'[d] = layer[d]
    BY <2>1, <2>3 DEF CostmapRestarts
  <2>. QED
    BY <2>1, <2>2, <2>3 DEF Layers
<1>4. Typed' /\ OwnersKnown'
  BY <1>1, <1>3 DEF IInv, Typed, OwnersKnown
<1>5. FacadeOwns' /\ PatrolOwns'
  BY <1>1 DEF IInv, FacadeOwns, PatrolOwns, FacadeRequest, PatrolRequest, Own
<1>6. TokenIsOwn'
  <2>1. ASSUME NEW c \in Costmaps
        PROVE  /\ layer'[c] <= bound.token /\ ack'[c] <= bound.token
               /\ ack'[c] = bound.token => layer'[c] \in {bound.token, 0}
               /\ layer[c] \in {bound.token, 0} => layer'[c] \in {bound.token, 0}
    <3>1. /\ layer[c] <= bound.token /\ ack[c] <= bound.token
          /\ ack[c] = bound.token => layer[c] \in {bound.token, 0}
          /\ layer[c] \in Nat /\ ack[c] \in Nat
      BY <1>3 DEF IInv, TokenIsOwn
    <3>. QED
      BY <1>2, <1>3, <3>1
  <2>. QED
    BY <1>1, <2>1 DEF IInv, TokenIsOwn
<1>. QED
  BY <1>4, <1>5, <1>6 DEF IInv

-----------------------------------------------------------------------------
(* The patrol server.                                                        *)

\* What a step of the patrol server owes the facade.
LEMMA PatrolStep ==
    ASSUME IInv, Typed', OwnersKnown', PatrolOwns',
           session' = session \/ session' = [session EXCEPT !.alone = FALSE],
           UNCHANGED <<bound, layer, ack>>, answer'["facade"] = answer["facade"],
           \/ live' = live
           \/ live.owner # "facade" /\ live'.owner # "facade",
           \A r \in requests' : r.owner = "facade" => r \in requests
    PROVE  IInv'
<1>1. session'.pc = session.pc /\ session'.n = session.n /\ session'.polygon = session.polygon
  BY SessionFields DEF IInv, Typed, SameGoal
<1>. QED
  BY <1>1, FacadeApart DEF IInv

\* The slot of the patrol server is free again, and its goal was asked to stop.
LEMMA PatrolEndsSafe ==
    ASSUME IInv, PatrolEnds, UNCHANGED <<session, bound, layer, ack, requests>>,
           answer' = answer \/ answer' = [answer EXCEPT !["patrol"] = None],
           \/ live' = live /\ (Own(live) => live.asked)
           \/ Own(live) /\ live' = Stopped(live),
           patrol.pc = "sent" => answer["patrol"] # None
    PROVE  IInv'
<1>1. Typed /\ patrol \in Patrols /\ live \in Goals
  BY DEF IInv, Typed
<1>2. /\ patrol' \in Patrols /\ patrol'.pc = "free" /\ patrol'.n = patrol.n
  BY <1>1 DEF PatrolEnds, Patrols
<1>3. /\ live' \in Goals /\ live'.owner = live.owner /\ live'.n = live.n
      /\ live'.owner = "patrol" => live'.asked
  <2>1. CASE live' = live /\ (Own(live) => live.asked)
    BY <1>1, <2>1 DEF IInv, PatrolOwns
  <2>2. CASE Own(live) /\ live' = Stopped(live)
    BY <1>1, <2>2 DEF Goals, Stopped
  <2>. QED
    BY <2>1, <2>2
<1>4. answer' \in [Owners -> Heards] /\ answer'["facade"] = answer["facade"]
  BY <1>1 DEF Typed, Heards, Owners
<1>5. Typed' /\ OwnersKnown'
  BY <1>1, <1>2, <1>3, <1>4 DEF Typed, IInv, OwnersKnown
<1>6. \A r \in requests : r.owner # "patrol"
  BY DEF IInv, PatrolOwns
<1>7. PatrolOwns'
  BY <1>2, <1>3, <1>6 DEF PatrolOwns, IInv, Own
<1>8. live' = live \/ (live.owner # "facade" /\ live'.owner # "facade")
  BY <1>3 DEF Own
<1>. QED
  BY <1>4, <1>5, <1>7, <1>8, PatrolStep

\* The patrol server goes on with the path it has.
LEMMA PatrolToSafe ==
    ASSUME IInv, NEW pc \in {"follow", "asked"}, PatrolTo(pc),
           patrol.pc \in {"sent", "follow"}, patrol.pc = "sent" => answer["patrol"] # None,
           UNCHANGED <<session, bound, layer, ack, live, requests, answer>>
    PROVE  IInv'
<1>1. Typed /\ patrol \in Patrols
  BY DEF IInv, Typed
<1>2. /\ patrol' \in Patrols /\ patrol'.pc = pc /\ patrol'.n = patrol.n
  BY <1>1 DEF PatrolTo, Patrols
<1>3. Typed' /\ OwnersKnown'
  BY <1>1, <1>2 DEF Typed, IInv, OwnersKnown
<1>4. \A r \in requests : r.owner # "patrol"
  BY DEF IInv, PatrolOwns
<1>5. PatrolOwns'
  BY <1>2, <1>4 DEF PatrolOwns, IInv, Own
<1>. QED
  BY <1>3, <1>5, PatrolStep

LEMMA PatrolSafe == ASSUME IInv, Patrol PROVE IInv'
<1> USE DEF SameFacade, layerVars, followVars
<1>0. Typed /\ patrol \in Patrols /\ session \in Sessions /\ PatrolOwns
  BY DEF IInv, Typed
<1>1. CASE PatrolAccepts
  <2>1. PICK pieces \in Pieces :
          patrol' = [pc |-> "next", n |-> patrol.n + 1, pieces |-> pieces, cancel |-> FALSE]
    BY <1>1 DEF PatrolAccepts
  <2>2. /\ patrol.pc = "free" /\ session' = [session EXCEPT !.alone = FALSE]
        /\ UNCHANGED <<bound, layer, ack, live, requests, answer>>
    BY <1>1 DEF PatrolAccepts
  <2>3. /\ patrol.n \in Nat /\ patrol' \in Patrols /\ patrol'.n = patrol.n + 1
        /\ SameGoal(session') /\ live.n \in Nat
    <3>1. patrol.n \in Nat /\ live.n \in Nat /\ pieces \in Nat
      BY <1>0 DEF Patrols, Pieces, Typed, Goals
    <3>2. patrol' \in Patrols /\ patrol'.n = patrol.n + 1
      BY <2>1, <3>1 DEF Patrols
    <3>3. SameGoal(session')
      BY <1>0, <2>2, SessionFields
    <3>. QED
      BY <3>1, <3>2, <3>3
  <2>4. Typed' /\ OwnersKnown'
    BY <1>0, <2>2, <2>3 DEF Typed, IInv, OwnersKnown, SameGoal
  <2>5. \A r \in requests : r.owner # "patrol"
    BY <1>0, <2>2 DEF PatrolOwns
  <2>6. live.owner = "patrol" => live.n <= patrol.n /\ live.asked
    BY <1>0, <2>2 DEF PatrolOwns, Own
  <2>7. PatrolOwns'
    BY <2>2, <2>3, <2>5, <2>6 DEF PatrolOwns, Own
  <2>. QED
    BY <2>2, <2>4, <2>7, PatrolStep
<1>2. CASE PatrolIsCancelled
  <2>1. /\ patrol' = [patrol EXCEPT !.cancel = TRUE]
        /\ UNCHANGED <<session, bound, layer, ack, live, requests, answer>>
    BY <1>2 DEF PatrolIsCancelled
  <2>2. patrol' \in Patrols /\ patrol'.pc = patrol.pc /\ patrol'.n = patrol.n
    BY <1>0, <2>1 DEF Patrols
  <2>3. Typed' /\ OwnersKnown'
    BY <1>0, <2>1, <2>2 DEF Typed, IInv, OwnersKnown
  <2>4. PatrolOwns'
    BY <1>0, <2>1, <2>2 DEF PatrolOwns, PatrolRequest, Own
  <2>. QED
    BY <2>1, <2>3, <2>4, PatrolStep
<1>3. CASE PatrolCannotSend
  <2>1. /\ patrol.pc = "next" /\ PatrolEnds
        /\ UNCHANGED <<session, bound, layer, ack, live, requests, answer>>
    BY <1>3 DEF PatrolCannotSend
  <2>2. ~Own(live)
    BY <1>0, <2>1 DEF PatrolOwns, Own
  <2>. QED
    BY <2>1, <2>2, PatrolEndsSafe
<1>4. CASE PatrolFails
  <2>1. /\ patrol.pc = "follow" /\ PatrolEnds /\ UNCHANGED <<session, bound, layer, ack, requests>>
        /\ live' = (IF Own(live) THEN [live EXCEPT !.asked = TRUE] ELSE live)
        /\ answer' = [answer EXCEPT !["patrol"] = None]
    BY <1>4 DEF PatrolFails
  <2>. QED
    BY <2>1, PatrolEndsSafe DEF Stopped
<1>5. CASE PatrolSends
  <2>1. patrol.pc = "next" /\ UNCHANGED <<session, bound, layer, ack, live>>
        /\ ~Own(live)
    BY <1>0, <1>5 DEF PatrolSends, PatrolOwns, Own
  <2>2. CASE PatrolEnds /\ UNCHANGED <<requests, answer>>
    BY <2>1, <2>2, PatrolEndsSafe
  <2>3. CASE /\ requests' = requests \cup {PatrolRequest}
             /\ answer' = [answer EXCEPT !["patrol"] = None] /\ PatrolTo("sent")
    <3>1. patrol' \in Patrols /\ patrol'.pc = "sent" /\ patrol'.n = patrol.n
      BY <1>0, <2>3 DEF PatrolTo, Patrols
    <3>2. answer' \in [Owners -> Heards] /\ answer'["patrol"] = None
          /\ answer'["facade"] = answer["facade"]
      BY <1>0, <2>3 DEF Typed, Heards, Owners
    <3>3. PatrolRequest \in Goals /\ PatrolRequest.owner = "patrol"
      BY <1>0, RequestFields
    <3>4. Typed' /\ OwnersKnown'
      BY <1>0, <2>1, <2>3, <3>1, <3>2, <3>3 DEF Typed, IInv, OwnersKnown, Owners
    <3>5. PatrolRequest' = PatrolRequest /\ \A r \in requests : r.owner # "patrol"
      BY <1>0, <2>1, <3>1 DEF PatrolRequest, PatrolOwns
    <3>6. live.owner = "patrol" => live.n # patrol.n
      BY <2>1 DEF Own
    <3>7. PatrolOwns'
      BY <1>0, <2>1, <2>3, <3>1, <3>2, <3>5, <3>6 DEF PatrolOwns, Own
    <3>. QED
      BY <2>1, <2>3, <3>2, <3>3, <3>4, <3>7, PatrolStep
  <2>. QED
    BY <1>5, <2>2, <2>3 DEF PatrolSends, PatrolRequest
<1>6. CASE PatrolSeesAnswer
  <2>1. patrol.pc = "sent" /\ answer["patrol"] # None /\ UNCHANGED <<session, bound, layer, ack>>
    BY <1>6 DEF PatrolSeesAnswer
  <2>2. CASE answer["patrol"] = "rejected"
    <3>1. ~Own(live)
      BY <1>0, <2>2 DEF PatrolOwns, Own
    <3>. QED
      BY <1>6, <2>1, <2>2, <3>1, PatrolEndsSafe DEF PatrolSeesAnswer, Unheard
  <2>3. CASE answer["patrol"] # "rejected"
    BY <1>6, <2>1, <2>3, PatrolToSafe DEF PatrolSeesAnswer
  <2>. QED
    BY <2>2, <2>3
<1>7. CASE PatrolSeesEnd
  <2>1. /\ patrol.pc = "follow" /\ answer["patrol"] \in Ends
        /\ UNCHANGED <<session, bound, layer, ack, live, requests>>
        /\ answer' = [answer EXCEPT !["patrol"] = None]
        /\ PatrolEnds \/ patrol' = [patrol EXCEPT !.pc = "next", !.pieces = 1]
    BY <1>7 DEF PatrolSeesEnd, Unheard
  <2>2. ~Own(live)
    BY <1>0, <2>1 DEF PatrolOwns, Own, Ends
  <2>3. CASE PatrolEnds
    BY <2>1, <2>2, <2>3, PatrolEndsSafe
  <2>4. CASE patrol' = [patrol EXCEPT !.pc = "next", !.pieces = 1]
    <3>1. patrol' \in Patrols /\ patrol'.pc = "next" /\ patrol'.n = patrol.n
      BY <1>0, <2>4 DEF Patrols
    <3>2. answer' \in [Owners -> Heards] /\ answer'["facade"] = answer["facade"]
      BY <1>0, <2>1 DEF Typed, Heards, Owners
    <3>3. Typed' /\ OwnersKnown'
      BY <1>0, <2>1, <3>1, <3>2 DEF Typed, IInv, OwnersKnown
    <3>4. (\A r \in requests : r.owner # "patrol") /\ Own(live)' = Own(live)
      BY <1>0, <2>1, <3>1 DEF PatrolOwns, Own
    <3>5. PatrolOwns'
      BY <1>0, <2>1, <2>2, <3>1, <3>4 DEF PatrolOwns
    <3>. QED
      BY <2>1, <3>2, <3>3, <3>5, PatrolStep
  <2>. QED
    BY <2>1, <2>3, <2>4
<1>8. CASE PatrolAsksStop
  BY <1>8, PatrolToSafe DEF PatrolAsksStop
<1>9. CASE PatrolLeaves
  BY <1>9, PatrolEndsSafe DEF PatrolLeaves, Unheard
<1>. QED
  BY <1>1, <1>2, <1>3, <1>4, <1>5, <1>6, <1>7, <1>8, <1>9 DEF Patrol, PatrolWorks

-----------------------------------------------------------------------------
(* The controller.                                                           *)

LEMMA TellTyped ==
    ASSUME Typed, NEW a \in [Owners -> Heards], NEW h \in Goals, NEW what \in Heards
    PROVE  /\ Tell(a, h, what) \in [Owners -> Heards]
           /\ h.owner # "facade" => Tell(a, h, what)["facade"] = a["facade"]
           /\ h.owner # "patrol" => Tell(a, h, what)["patrol"] = a["patrol"]
           /\ h.owner = "facade" => Tell(a, h, what)["facade"] = what
           /\ h.owner = "patrol" => Tell(a, h, what)["patrol"] = IF Own(h) THEN what ELSE a["patrol"]
BY DEF Tell, Heard, Own, Owners, Goals

LEMMA FollowSafe == ASSUME IInv, Follow PROVE IInv'
<1>0. /\ Typed /\ live \in Goals /\ requests \in SUBSET Goals /\ answer \in [Owners -> Heards]
      /\ FacadeOwns /\ PatrolOwns /\ TokenIsOwn /\ OwnersKnown
      /\ {"accepted", "rejected", "aborted"} \subseteq Heards /\ Ends \subseteq Heards
  BY DEF IInv, Typed, Heards, Ends
<1>1. UNCHANGED <<session, bound, layer, ack, patrol>>
  BY DEF Follow, Answers, SameOwners, layerVars
<1>2. /\ FacadeRequest' = FacadeRequest /\ PatrolRequest' = PatrolRequest
      /\ TokenIsOwn'
      /\ FacadeRequest \in Goals /\ FacadeRequest.owner = "facade"
      /\ FacadeRequest.n = session.n /\ FacadeRequest.proof = bound.token
      /\ PatrolRequest \in Goals /\ PatrolRequest.owner = "patrol"
      /\ PatrolRequest.n = patrol.n
      /\ Nobody \in Goals /\ Nobody.owner = None
  BY <1>0, <1>1, RequestFields DEF FacadeRequest, PatrolRequest, TokenIsOwn
<1>3. ASSUME NEW o \in Owners, Accepts(o) PROVE IInv'
  <2>1. PICK r \in requests :
          /\ r.owner = o /\ requests' = requests \ {r} /\ live' = r
          /\ answer' = Tell(Tell(answer, live, "aborted"), r, "accepted")
    BY <1>3 DEF Accepts
  <2> DEFINE a == Tell(answer, live, "aborted")
  <2>2. /\ a \in [Owners -> Heards] /\ r \in Goals
        /\ live.owner # "facade" => a["facade"] = answer["facade"]
        /\ live.owner # "patrol" => a["patrol"] = answer["patrol"]
        /\ live.owner = "patrol" => a["patrol"] = IF Own(live) THEN "aborted" ELSE answer["patrol"]
    BY <1>0, TellTyped
  <2>3. answer' = Tell(a, r, "accepted")
    BY <2>1
  <2> HIDE DEF a
  <2>4. /\ answer' \in [Owners -> Heards]
        /\ r.owner # "facade" => answer'["facade"] = a["facade"]
        /\ r.owner # "patrol" => answer'["patrol"] = a["patrol"]
        /\ r.owner = "facade" => answer'["facade"] = "accepted"
        /\ r.owner = "patrol" => answer'["patrol"] = IF Own(r) THEN "accepted" ELSE a["patrol"]
    BY <1>0, <2>2, <2>3, TellTyped
  <2>5. Typed' /\ OwnersKnown'
    BY <1>0, <1>1, <2>1, <2>2, <2>4 DEF Typed, OwnersKnown
  <2>6. CASE o = "facade"
    <3>1. r = FacadeRequest /\ session.pc = "sent" /\ answer["facade"] = None
      BY <1>0, <2>1, <2>6 DEF FacadeOwns, None
    <3>2. live.owner # "facade" /\ answer'["facade"] = "accepted" /\ live'.owner = "facade"
      BY <1>0, <2>1, <2>4, <2>6, <3>1 DEF FacadeOwns, None
    <3>3. FacadeOwns'
      BY <1>0, <1>1, <1>2, <2>1, <3>1, <3>2 DEF FacadeOwns, Inner, None
    <3>4. \A q \in requests' : q.owner = "patrol" => answer["patrol"] = None
      BY <1>0, <2>1 DEF PatrolOwns, Own, None
    <3>5. \A q \in requests' : q.owner = "patrol" => answer'["patrol"] = None
      BY <1>0, <2>2, <2>4, <3>2, <3>4, <2>1, <2>6 DEF PatrolOwns, Own, None
    <3>6. PatrolOwns'
      BY <1>0, <1>1, <1>2, <2>1, <3>2, <3>5 DEF PatrolOwns, Own, None
    <3>. QED
      BY <1>2, <2>5, <3>3, <3>6 DEF IInv
  <2>7. CASE o = "patrol"
    <3>1. r = PatrolRequest /\ patrol.pc = "sent" /\ answer["patrol"] = None
      BY <1>0, <2>1, <2>7 DEF PatrolOwns, Own, None
    <3>2. Own(r) /\ ~Own(live) /\ answer'["patrol"] = "accepted" /\ live' = r
      BY <1>0, <1>2, <2>1, <2>4, <2>7, <3>1 DEF PatrolOwns, Own, None
    <3>3. patrol.n \in Nat
      BY <1>0 DEF Typed, Patrols
    <3>4. PatrolOwns'
      BY <1>0, <1>1, <1>2, <2>1, <3>1, <3>2, <3>3 DEF PatrolOwns, Own, None
    <3>5. \A q \in requests' : q.owner = "facade" => answer'["facade"] = None
      BY <1>0, <2>1, <2>2, <2>4, <2>7 DEF FacadeOwns, None
    <3>6. FacadeOwns'
      BY <1>0, <1>1, <1>2, <2>1, <2>7, <3>5 DEF FacadeOwns, None
    <3>. QED
      BY <1>2, <2>5, <3>4, <3>6 DEF IInv
  <2>. QED
    BY <2>6, <2>7 DEF Owners
<1>4. ASSUME NEW o \in Owners, Rejects(o) PROVE IInv'
  <2>1. PICK r \in requests :
          /\ r.owner = o /\ requests' = requests \ {r} /\ live' = live
          /\ answer' = Tell(answer, r, "rejected")
    BY <1>4 DEF Rejects
  <2>2. /\ answer' \in [Owners -> Heards] /\ r \in Goals
        /\ r.owner # "facade" => answer'["facade"] = answer["facade"]
        /\ r.owner # "patrol" => answer'["patrol"] = answer["patrol"]
    BY <1>0, <2>1, TellTyped
  <2>3. Typed' /\ OwnersKnown'
    BY <1>0, <1>1, <2>1, <2>2 DEF Typed, OwnersKnown
  <2>4. CASE o = "facade"
    <3>1. r = FacadeRequest /\ live.owner # "facade"
      BY <1>0, <2>1, <2>4 DEF FacadeOwns, None
    <3>2. FacadeOwns'
      BY <1>0, <2>1, <3>1 DEF FacadeOwns, None
    <3>3. PatrolOwns'
      BY <1>0, <1>1, <2>1, <2>2, <2>4, PatrolApart
    <3>. QED
      BY <1>2, <2>3, <3>2, <3>3 DEF IInv
  <2>5. CASE o = "patrol"
    <3>1. r = PatrolRequest /\ ~Own(live) /\ Own(live)' = Own(live)
      BY <1>0, <1>1, <2>1, <2>5 DEF PatrolOwns, Own, None
    <3>2. PatrolOwns'
      BY <1>0, <1>1, <2>1, <3>1 DEF PatrolOwns, Own, None
    <3>3. FacadeOwns'
      BY <1>0, <1>1, <2>1, <2>2, <2>5, FacadeApart
    <3>. QED
      BY <1>2, <2>3, <3>2, <3>3 DEF IInv
  <2>. QED
    BY <2>4, <2>5 DEF Owners
<1>5. CASE HearsCancel
  <2>1. Own(live) /\ live' = Stopped(live) /\ UNCHANGED <<requests, answer>>
    BY <1>5 DEF HearsCancel, Stopped
  <2>2. /\ live' \in Goals /\ live'.owner = "patrol" /\ live.owner = "patrol"
        /\ live'.n = live.n /\ live'.asked
    BY <1>0, <2>1 DEF Goals, Stopped, Own
  <2>3. Typed' /\ OwnersKnown'
    BY <1>0, <1>1, <2>1, <2>2 DEF Typed, OwnersKnown
  <2>4. PatrolOwns'
    BY <1>0, <1>1, <1>2, <2>1, <2>2 DEF PatrolOwns, Own, None
  <2>5. FacadeOwns'
    BY <1>0, <1>1, <2>1, <2>2, FacadeApart
  <2>. QED
    BY <1>2, <2>3, <2>4, <2>5 DEF IInv
<1>6. CASE FollowEnds
  <2>1. PICK end \in Ends : answer' = Tell(answer, live, end)
    BY <1>6 DEF FollowEnds
  <2>2. live' = Nobody /\ UNCHANGED requests
    BY <1>6 DEF FollowEnds
  <2>3. /\ answer' \in [Owners -> Heards]
        /\ live.owner # "facade" => answer'["facade"] = answer["facade"]
        /\ live.owner # "patrol" => answer'["patrol"] = answer["patrol"]
        /\ live.owner = "patrol" => answer'["patrol"] = IF Own(live) THEN end ELSE answer["patrol"]
    BY <1>0, <2>1, TellTyped
  <2>4. Typed' /\ OwnersKnown'
    BY <1>0, <1>1, <1>2, <2>2, <2>3 DEF Typed, OwnersKnown
  <2>5. FacadeOwns'
    <3>1. \A r \in requests : r.owner = "facade" => answer'["facade"] = None
      BY <1>0, <2>3 DEF FacadeOwns, None
    <3>. QED
      BY <1>0, <1>1, <1>2, <2>2, <3>1 DEF FacadeOwns, None
  <2>6. PatrolOwns'
    <3>1. \A r \in requests : r.owner = "patrol" => answer'["patrol"] = None
      BY <1>0, <2>3 DEF PatrolOwns, Own, None
    <3>. QED
      BY <1>0, <1>1, <1>2, <2>2, <3>1 DEF PatrolOwns, None
  <2>. QED
    BY <1>2, <2>4, <2>5, <2>6 DEF IInv
<1>. QED
  BY <1>3, <1>4, <1>5, <1>6 DEF Follow, Answers

-----------------------------------------------------------------------------

LEMMA IInvInit == Init => IInv
<1> SUFFICES ASSUME Init PROVE IInv
  OBVIOUS
<1>1. Typed
  BY DEF Init, Typed, Sessions, Bounds, Goals, Patrols, Heards, Nobody, Pcs, Outside
<1>. QED
  BY <1>1 DEF Init, IInv, OwnersKnown, FacadeOwns, TokenIsOwn, PatrolOwns, Outside, Nobody, None

LEMMA IInvNext == IInv /\ [Next]_vars => IInv'
<1> SUFFICES ASSUME IInv, [Next]_vars PROVE IInv'
  OBVIOUS
<1>1. CASE Layers
  BY <1>1, LayersSafe
<1>2. CASE WatchCancels \/ ClientCancels
  BY <1>2, CancelSafe
<1>3. CASE AcceptsGoal
  BY <1>3, AcceptsGoalSafe
<1>4. CASE Works
  BY <1>4, WorksSafe
<1>5. CASE Replans
  BY <1>5, ToSafe
  DEF Replans, OnlySession, SameNode, layerVars, followVars, Calm, Inner, Outside, Pcs
<1>6. CASE Stands \/ TimesOut
  BY <1>6, StandsSafe
<1>7. CASE Patrol
  BY <1>7, PatrolSafe
<1>8. CASE Follow
  BY <1>8, FollowSafe
<1>9. ASSUME UNCHANGED <<session, bound, layer, ack, live, requests, answer, patrol>>
      PROVE  IInv'
  <2>1. Typed' /\ OwnersKnown'
    BY <1>9 DEF IInv, Typed, OwnersKnown
  <2>. QED
    BY <1>9, <2>1, FacadeApart, PatrolApart DEF IInv
<1>10. CASE Robot
  BY <1>9, <1>10 DEF Robot, layerVars, followVars
<1>11. CASE UNCHANGED vars
  BY <1>9, <1>11 DEF vars, layerVars, followVars
<1>. QED
  BY <1>1, <1>2, <1>3, <1>4, <1>5, <1>6, <1>7, <1>8, <1>10, <1>11 DEF Next

(* No goal the facade has at the controller runs before every costmap        *)
(* carries the boundary of its own session, for any number of costmaps and   *)
(* whichever of them restarts (_initialize_boundary).                        *)
THEOREM InsideBoundary == Spec => []MotionInsideBoundary
<1>1. IInv => MotionInsideBoundary
  BY DEF IInv, FacadeOwns, TokenIsOwn, MotionInsideBoundary, Inner, Outside
<1>. QED
  BY IInvInit, IInvNext, <1>1, PTL DEF Spec

(* A goal of the patrol server that nobody waits for has been asked to stop  *)
(* (_execute_patrol_path).                                                   *)
THEOREM NoneOrphaned == Spec => []NoOrphan
<1>1. IInv => NoOrphan
  BY DEF IInv, PatrolOwns, NoOrphan
<1>. QED
  BY IInvInit, IInvNext, <1>1, PTL DEF Spec

-----------------------------------------------------------------------------
(* The stop at the end of a session.                                         *)

\* A session that was alone when its guard began stays alone until a patrol path
\* is accepted: nothing drives the robot, and what was seen of it is still so.
Standing ==
    /\ evidence \in [zero : Nat, still : Nat]
    /\ session.alone => session.pc \in {"guard", "final"} /\ patrol.pc = "free" /\ live = Nobody
    /\ session.alone /\ evidence.still # 0 => robot = "still"
    /\ session.alone /\ session.pc = "final" => evidence.still # 0

LEMMA StandingInit == Init => Standing
BY DEF Init, NoEvidence, Standing

LEMMA LeastEvidence ==
    ASSUME NEW n \in Nat
    PROVE  Least(Need, n + 1) \in Nat \ {0}
BY NodeBounds DEF Least

\* Only a guard that begins makes a session alone.
LEMMA StandingWorks == ASSUME IInv, Standing, Works PROVE Standing'
<1>1. session \in Sessions /\ UNCHANGED <<patrol, robot>>
  BY DEF IInv, Typed, Works, Starts, HandshakeEnds, AlreadyThere, Plans, CapturesStart, SeesPlan,
     Admits, SeesAnswer, SeesEnd, SeesCancel, SendsReplan, SeesReplan, ReplanIsRejected,
     SeesEndInReplan, LateResult, CancelMet, Readmits, KeepsPath, IsRefused,
     NoReplacement, Rechecks, SeesStop, SameNode, OnlySession
<1>2. session.pc \notin {"guard", "final"}
  BY DEF Works, Starts, HandshakeEnds, AlreadyThere, Plans, CapturesStart, SeesPlan,
     Admits, SeesAnswer, SeesEnd, SeesCancel, SendsReplan, SeesReplan, ReplanIsRejected,
     SeesEndInReplan, LateResult, CancelMet, Readmits, KeepsPath, IsRefused,
     NoReplacement, Rechecks, SeesStop
<1>3. ~session.alone
  BY <1>2 DEF Standing
<1>4. ASSUME NEW pc, To(pc) PROVE ~session'.alone
  BY <1>1, <1>3, <1>4 DEF To, Sessions
<1>5. ASSUME Finish PROVE ~session'.alone
  BY <1>1, <1>5 DEF Finish, Sessions
<1>6. ASSUME NEW why, Stop(why) PROVE ~session'.alone
  BY <1>1, <1>3, <1>6 DEF Stop, Sessions
<1>7. ASSUME Submit PROVE ~session'.alone
  BY <1>1, <1>3, <1>7 DEF Submit, Sessions
<1>8. evidence' \in [zero : Nat, still : Nat]
  <2>1. NoEvidence \in [zero : Nat, still : Nat]
    BY DEF NoEvidence
  <2>2. evidence' = evidence \/ evidence' = NoEvidence
    BY DEF Works, Starts, HandshakeEnds, AlreadyThere, Plans, CapturesStart, SeesPlan,
       Admits, SeesAnswer, SeesEnd, SeesCancel, SendsReplan, SeesReplan, ReplanIsRejected,
     SeesEndInReplan, LateResult, CancelMet, Readmits, KeepsPath, IsRefused,
       NoReplacement, Rechecks, SeesStop, OnlySession, Guard
  <2>. QED
    BY <2>1, <2>2 DEF Standing
<1>9. ASSUME Guard, UNCHANGED live PROVE Standing'
  <2>1. /\ session'.pc = "guard" /\ evidence' = NoEvidence
        /\ session'.alone => patrol.pc = "free" /\ live = Nobody
    BY <1>1, <1>9 DEF Guard, Sessions
  <2>. QED
    BY <1>1, <1>8, <1>9, <2>1 DEF Standing, NoEvidence
<1>10. ASSUME ~session'.alone PROVE Standing'
  BY <1>8, <1>10 DEF Standing
<1>11. ASSUME CancelMet PROVE Standing'
  BY <1>4, <1>5, <1>6, <1>10, <1>11 DEF CancelMet
<1>12. ASSUME NoReplacement PROVE Standing'
  BY <1>4, <1>6, <1>9, <1>10, <1>12 DEF NoReplacement, Forget
<1>13. CASE SendsReplan \/ SeesReplan \/ IsRefused
  BY <1>4, <1>10, <1>11, <1>12, <1>13 DEF SendsReplan, SeesReplan, IsRefused
<1>14. CASE ReplanIsRejected \/ LateResult
  BY <1>5, <1>10, <1>11, <1>14 DEF ReplanIsRejected, LateResult
<1>15. CASE SeesEndInReplan
  BY <1>4, <1>5, <1>9, <1>10, <1>15 DEF SeesEndInReplan, Forget
<1>16. CASE Starts \/ HandshakeEnds \/ CapturesStart \/ SeesPlan \/ KeepsPath
  BY <1>4, <1>5, <1>10, <1>16
     DEF Starts, HandshakeEnds, CapturesStart, SeesPlan, KeepsPath
<1>17. CASE Plans
  BY <1>4, <1>5, <1>10, <1>17 DEF Plans
<1>18. CASE AlreadyThere
  BY <1>5, <1>9, <1>10, <1>18 DEF AlreadyThere, followVars
<1>19. CASE Admits \/ SeesAnswer
  BY <1>4, <1>5, <1>7, <1>10, <1>19 DEF Admits, SeesAnswer
<1>20. CASE SeesEnd
  BY <1>4, <1>5, <1>9, <1>10, <1>20 DEF SeesEnd, Forget
<1>21. CASE SeesCancel \/ Rechecks
  BY <1>4, <1>6, <1>10, <1>21 DEF SeesCancel, Rechecks
<1>22. CASE Readmits
  BY <1>5, <1>6, <1>7, <1>9, <1>10, <1>22 DEF Readmits, Forget
<1>23. CASE SeesStop
  BY <1>5, <1>7, <1>9, <1>10, <1>23 DEF SeesStop, Forget
<1>. QED
  BY <1>13, <1>14, <1>15, <1>16, <1>17, <1>18, <1>19, <1>20, <1>21, <1>22, <1>23 DEF Works

LEMMA StandingStands == ASSUME IInv, Standing, Stands \/ TimesOut PROVE Standing'
<1>1. session \in Sessions /\ evidence.still \in Nat /\ evidence.zero \in Nat
  BY DEF IInv, Typed, Standing
<1>2. CASE SeesStanding
  <2>1. UNCHANGED <<session, patrol, live, robot>> /\ session.pc = "guard"
    BY <1>2 DEF SeesStanding, SameNode, followVars
  <2>2. PICK gap \in BOOLEAN :
          evidence' = [zero |-> IF robot = "driven" THEN 0 ELSE Least(Need, evidence.zero + 1),
                       still |-> IF robot # "still" \/ gap THEN 0
                                 ELSE Least(Need, evidence.still + 1)]
    BY <1>2 DEF SeesStanding
  <2>3. evidence' \in [zero : Nat, still : Nat] /\ (evidence'.still # 0 => robot = "still")
    BY <1>1, <2>2, LeastEvidence
  <2>. QED
    BY <2>1, <2>3 DEF Standing
<1>3. CASE AsksFinalCostmap
  <2>1. evidence.still # 0
    BY <1>3, NodeBounds DEF AsksFinalCostmap, StopProved
  <2>2. session'.pc = "final" /\ session'.alone = session.alone
    BY <1>1, <1>3 DEF AsksFinalCostmap, To, Sessions
  <2>. QED
    BY <1>3, <2>1, <2>2 DEF AsksFinalCostmap, OnlySession, SameNode, followVars, Standing
<1>4. CASE NoFinalCostmap
  <2>1. session'.pc = "guard" /\ session'.alone = session.alone
    BY <1>1, <1>4 DEF NoFinalCostmap, To, Sessions
  <2>. QED
    BY <1>4, <2>1 DEF NoFinalCostmap, OnlySession, SameNode, followVars, Standing
<1>5. CASE Succeeds \/ GuardTimesOut
  <2>1. ~session'.alone /\ evidence' = NoEvidence
    BY <1>1, <1>5 DEF Succeeds, GuardTimesOut, Leave, Finish, Sessions
  <2>. QED
    BY <2>1 DEF Standing, NoEvidence
<1>6. CASE HandshakeFails
  <2>1. ~session'.alone /\ UNCHANGED evidence
    BY <1>1, <1>6 DEF HandshakeFails, Finish, OnlySession, Sessions
  <2>. QED
    BY <2>1 DEF Standing
<1>. QED
  BY <1>2, <1>3, <1>4, <1>5, <1>6 DEF Stands, TimesOut

\* Nobody has a goal at the controller, nor a request, while a session is alone.
LEMMA StandingOthers == ASSUME IInv, Standing, Patrol \/ Follow \/ Robot PROVE Standing'
<1>1. session \in Sessions /\ live \in Goals
  BY DEF IInv, Typed
<1>2. CASE PatrolAccepts
  <2>1. ~session'.alone /\ UNCHANGED evidence
    BY <1>1, <1>2 DEF PatrolAccepts, Sessions
  <2>. QED
    BY <2>1 DEF Standing
<1>3. CASE Patrol /\ ~PatrolAccepts
  <2>1. patrol.pc # "free" /\ UNCHANGED <<session, evidence>>
    BY <1>3 DEF Patrol, PatrolIsCancelled, PatrolCannotSend, PatrolFails, PatrolWorks,
       PatrolSends, PatrolSeesAnswer, PatrolSeesEnd, PatrolAsksStop, PatrolLeaves, SameFacade
  <2>. QED
    BY <2>1 DEF Standing
<1>4. CASE Follow
  <2>1. UNCHANGED <<session, patrol, robot, evidence>>
    BY <1>4 DEF Follow, Answers, SameOwners
  <2>2. ASSUME session.alone PROVE live' = Nobody
    <3>1. session.pc \in {"guard", "final"} /\ patrol.pc = "free" /\ live = Nobody
      BY <2>2 DEF Standing
    <3>2. requests = {}
      BY <3>1 DEF IInv, OwnersKnown, Owners, FacadeOwns, PatrolOwns
    <3>3. ~Own(live)
      BY <3>1 DEF Own
    <3>. QED
      BY <1>4, <3>1, <3>2, <3>3 DEF Follow, Answers, Accepts, Rejects, HearsCancel, FollowEnds
  <2>. QED
    BY <2>1, <2>2 DEF Standing
<1>5. CASE Robot
  <2>1. NoEvidence \in [zero : Nat, still : Nat] /\ NoEvidence.still = 0
    BY DEF NoEvidence
  <2>. QED
    BY <1>5, <2>1 DEF Robot, followVars, Standing
<1>. QED
  BY <1>2, <1>3, <1>4, <1>5

LEMMA StandingNext == IInv /\ Standing /\ [Next]_vars => Standing'
<1>. SUFFICES ASSUME IInv, Standing, [Next]_vars PROVE Standing'
  OBVIOUS
<1>1. session \in Sessions
  BY DEF IInv, Typed
<1>2. CASE Layers \/ UNCHANGED vars
  BY <1>2 DEF Layers, LayerUpdates, CostmapRestarts, vars, followVars, Standing
<1>3. CASE WatchCancels \/ ClientCancels
  <2>1. session'.pc = session.pc /\ session'.alone = session.alone
    BY <1>1, <1>3 DEF WatchCancels, ClientCancels, Sessions
  <2>. QED
    BY <1>3, <2>1 DEF WatchCancels, ClientCancels, OnlySession, SameNode, followVars, Standing
<1>4. CASE AcceptsGoal
  <2>1. ~session'.alone /\ UNCHANGED evidence
    BY <1>4 DEF AcceptsGoal, OnlySession
  <2>. QED
    BY <2>1 DEF Standing
<1>5. CASE Replans
  <2>1. session'.pc = "tick" /\ session'.alone = session.alone /\ session.pc = "follow"
    BY <1>1, <1>5 DEF Replans, To, Sessions
  <2>. QED
    BY <1>5, <2>1 DEF Replans, OnlySession, Standing
<1>. QED
  BY <1>2, <1>3, <1>4, <1>5, StandingWorks, StandingStands, StandingOthers DEF Next

\* A waypoint is reported as reached only by a robot that stands and is told to
\* stand, unless a patrol path was accepted meanwhile: nobody else can have set
\* it in motion (_wait_for_waypoint_stop_and_snapshot).
THEOREM WaypointStops == Spec => WaypointIsAStop
<1>1. Init => IInv /\ Standing
  BY IInvInit, StandingInit
<1>2. IInv /\ Standing /\ [Next]_vars => (IInv /\ Standing)'
  BY IInvNext, StandingNext
<1>3. IInv /\ Standing /\ [Next]_vars => [Succeeds /\ session.alone => robot = "still"]_vars
  BY DEF Succeeds, Standing
<1>. QED
  BY <1>1, <1>2, <1>3, PTL DEF Spec, WaypointIsAStop
=============================================================================
