-------------------------- MODULE HilClient_proofs --------------------------
(* What TLAPS proves about the HIL client: for any set of requests and any   *)
(* length of the log, what the J6M is told of the end of a goal is true and  *)
(* it is told one end.  A result is on its way before it is told, in one of  *)
(* three queues, and may be told again; so the invariant is about what has   *)
(* been said: told or on its way.                                            *)
EXTENDS HilClient, SequenceTheorems, TLAPS

Events == TERMINAL_EVENTS \cup {"GOAL_ACCEPTED"}
Results == [req : Requests, event : Events]
Entries == [op : {"submit", "submit bad", "cancel"}, req : Requests]
Loops == [pc : {"take", "post", "ended"}, after : Nat,
          pending : Seq(Results), remaining : Seq(Results)]
States == [known : BOOLEAN, handle : BOOLEAN, cancel_requested : BOOLEAN,
           cancel_in_flight : BOOLEAN, cancel_accepted : BOOLEAN, terminal : BOOLEAN]
Goals == {"none", "asked", "refused", "running", "canceling"} \cup Ended
Final == Ended \cup {"refused"}

Held(s) == {s[i] : i \in 1 .. Len(s)}
Waiting == Held(http.pending) \cup Held(http.remaining) \cup Held(outgoing)

\* What has been said of a request: told, or on its way.
Said(r) == told[r] \cup {e \in Events : [req |-> r, event |-> e] \in Waiting}

QueuesTyped ==
    /\ log \in Seq(Entries) /\ incoming \in Seq(Entries)
    /\ http \in Loops /\ outgoing \in Seq(Results)
    /\ told \in [Requests -> SUBSET Events]

Typed ==
    /\ QueuesTyped
    /\ states \in [Requests -> States] /\ goal \in [Requests -> Goals]
    /\ call \in [Requests -> {"none", "asked", "accepted", "rejected"}]

Agrees(end, e) ==
    /\ e = "SUCCEEDED" => end = "succeeded"
    /\ e = "CANCEL_CONFIRMED" => end = "canceled"
    /\ e = "FAILED" => end \in {"aborted", "canceled"}
    /\ e = "GOAL_REJECTED" => end \in {"none", "refused"}

Honest(r) ==
    /\ ~states[r].known => goal[r] = "none" /\ call[r] = "none" /\ ~states[r].terminal
    /\ \A e \in Said(r) : Agrees(goal[r], e)
    /\ \A e \in Said(r) \cap TERMINAL_EVENTS : states[r].terminal
    /\ \A e, f \in Said(r) \cap TERMINAL_EVENTS : e = f

IInv == Typed /\ \A r \in Requests : Honest(r)

-----------------------------------------------------------------------------
(* What a sequence holds.                                                    *)

LEMMA HeldEmpty == Held(<<>>) = {}
<1>1. Len(<<>>) = 0
  BY EmptySeq
<1>2. 1 .. 0 = {}
  OBVIOUS
<1>. QED
  BY <1>1, <1>2 DEF Held

LEMMA HeldAppend ==
    ASSUME NEW S, NEW s \in Seq(S), NEW x \in S
    PROVE  Append(s, x) \in Seq(S) /\ Held(Append(s, x)) = Held(s) \cup {x}
<1> DEFINE a == Append(s, x)
           n == Len(s)
<1>1. /\ a \in Seq(S) /\ Len(a) = n + 1 /\ n \in Nat
      /\ (\A i \in 1 .. n : a[i] = s[i]) /\ a[n + 1] = x
  BY AppendProperties, LenProperties
<1> HIDE DEF a, n
<1>2. 1 .. n + 1 = (1 .. n) \cup {n + 1}
  BY <1>1
<1>3. {a[i] : i \in 1 .. n + 1} = {s[i] : i \in 1 .. n} \cup {x}
  BY <1>1, <1>2
<1>. QED
  BY <1>1, <1>3 DEF Held, a, n

LEMMA HeldConcat ==
    ASSUME NEW S, NEW s \in Seq(S), NEW t \in Seq(S)
    PROVE  s \o t \in Seq(S) /\ Held(s \o t) = Held(s) \cup Held(t)
<1> DEFINE a == s \o t
           n == Len(s)
           m == Len(t)
<1>1. /\ a \in Seq(S) /\ Len(a) = n + m /\ n \in Nat /\ m \in Nat
      /\ \A i \in 1 .. n + m : a[i] = IF i <= n THEN s[i] ELSE t[i - n]
  BY ConcatProperties, LenProperties
<1> HIDE DEF a, n, m
<1>2. ASSUME NEW i \in 1 .. n + m PROVE a[i] \in {s[j] : j \in 1 .. n} \cup {t[j] : j \in 1 .. m}
  <2>1. CASE i <= n
    <3>1. i \in 1 .. n /\ a[i] = s[i]
      BY <1>1, <2>1
    <3>. QED
      BY <3>1
  <2>2. CASE ~(i <= n)
    <3>1. i - n \in 1 .. m /\ a[i] = t[i - n]
      BY <1>1, <2>2
    <3>. QED
      BY <3>1
  <2>. QED
    BY <2>1, <2>2
<1>3. ASSUME NEW j \in 1 .. n PROVE s[j] \in {a[i] : i \in 1 .. n + m}
  <2>1. j \in 1 .. n + m /\ a[j] = s[j]
    BY <1>1
  <2>. QED
    BY <2>1
<1>4. ASSUME NEW j \in 1 .. m PROVE t[j] \in {a[i] : i \in 1 .. n + m}
  <2>1. n + j \in 1 .. n + m /\ ~(n + j <= n) /\ n + j - n = j
    BY <1>1
  <2>2. a[n + j] = t[n + j - n]
    BY <1>1, <2>1
  <2>3. a[n + j] = t[j]
    BY <2>1, <2>2
  <2>. QED
    BY <2>1, <2>3
<1>5. {a[i] : i \in 1 .. n + m} = {s[j] : j \in 1 .. n} \cup {t[j] : j \in 1 .. m}
  BY <1>2, <1>3, <1>4
<1>. QED
  BY <1>1, <1>5 DEF Held, a, n, m

LEMMA HeldHeadTail ==
    ASSUME NEW S, NEW s \in Seq(S), s # <<>>
    PROVE  /\ Head(s) \in S /\ Tail(s) \in Seq(S)
           /\ Head(s) \in Held(s) /\ Held(Tail(s)) \subseteq Held(s)
<1> DEFINE t == Tail(s)
           n == Len(s)
<1>1. /\ Head(s) \in S /\ t \in Seq(S) /\ Len(t) = n - 1 /\ n \in Nat \ {0}
      /\ \A i \in 1 .. Len(t) : t[i] = s[i + 1]
  BY HeadTailProperties, EmptySeq
<1>2. Head(s) = s[1]
  OBVIOUS
<1> HIDE DEF t, n
<1>3. 1 \in 1 .. n
  BY <1>1
<1>4. ASSUME NEW i \in 1 .. Len(t) PROVE t[i] \in {s[j] : j \in 1 .. n}
  <2>1. i + 1 \in 1 .. n /\ t[i] = s[i + 1]
    BY <1>1
  <2>. QED
    BY <2>1
<1>. QED
  BY <1>1, <1>2, <1>3, <1>4 DEF Held, t, n

LEMMA HeldOne ==
    ASSUME NEW S, NEW x \in S
    PROVE  <<x>> \in Seq(S) /\ Held(<<x>>) = {x}
<1> DEFINE z == <<>>
<1>1. z \in Seq(S)
  BY EmptySeq
<1>2. Append(z, x) = <<x>> /\ Held(z) = {}
  BY HeldEmpty
<1> HIDE DEF z
<1>3. Append(z, x) \in Seq(S) /\ Held(Append(z, x)) = Held(z) \cup {x}
  BY <1>1, HeldAppend
<1>. QED
  BY <1>2, <1>3

-----------------------------------------------------------------------------
(* Two ways in which a step keeps what has been said true.                   *)

\* Nothing new is said, and an end stays what it is.
LEMMA NothingSaid ==
    ASSUME IInv, Typed',
           \A r \in Requests :
               /\ Said(r)' \subseteq Said(r)
               /\ states[r].known => states'[r].known
               /\ states'[r].terminal = states[r].terminal
               /\ goal[r] \in Final => goal'[r] = goal[r]
               /\ goal[r] = "none" /\ states[r].known => goal'[r] = "none"
               /\ ~states'[r].known => goal'[r] = "none" /\ call'[r] = "none"
    PROVE  IInv'
<1> SUFFICES ASSUME NEW r \in Requests PROVE Honest(r)'
  BY DEF IInv
<1>1. Honest(r)
  BY DEF IInv
<1>2. ASSUME NEW e \in Said(r)' PROVE Agrees(goal'[r], e)
  <2>1. e \in Said(r) /\ Agrees(goal[r], e)
    BY <1>1 DEF Honest
  <2>2. e = "GOAL_REJECTED" => states[r].terminal /\ states[r].known
    BY <1>1, <2>1 DEF Honest, TERMINAL_EVENTS
  <2>. QED
    BY <2>1, <2>2 DEF Agrees, Final, Ended
<1>3. ~states'[r].known => ~states'[r].terminal
  BY <1>1 DEF Honest
<1>. QED
  BY <1>1, <1>2, <1>3 DEF Honest

\* One event is said of a request that has not ended.
LEMMA OneSaid ==
    ASSUME IInv, Typed', NEW r \in Requests, NEW e \in Events,
           outgoing' = Append(outgoing, [req |-> r, event |-> e]),
           UNCHANGED <<told, http, goal>>,
           ~states[r].terminal, states'[r].known,
           e \in TERMINAL_EVENTS => states'[r].terminal,
           \A q \in Requests \ {r} : states'[q] = states[q] /\ call'[q] = call[q],
           Agrees(goal[r], e)
    PROVE  IInv'
<1>1. [req |-> r, event |-> e] \in Results /\ outgoing \in Seq(Results)
  BY DEF Results, IInv, Typed, QueuesTyped
<1>2. Held(outgoing') = Held(outgoing) \cup {[req |-> r, event |-> e]}
  BY <1>1, HeldAppend
<1>3. Waiting' = Waiting \cup {[req |-> r, event |-> e]}
  BY <1>2 DEF Waiting
<1>4. Said(r)' = Said(r) \cup {e} /\ \A q \in Requests \ {r} : Said(q)' = Said(q)
  BY <1>3 DEF Said
<1> SUFFICES ASSUME NEW q \in Requests PROVE Honest(q)'
  BY DEF IInv
<1>5. Honest(q) /\ Honest(r)
  BY DEF IInv
<1>6. CASE q # r
  BY <1>4, <1>5, <1>6 DEF Honest
<1>7. CASE q = r
  <2>1. Said(r) \cap TERMINAL_EVENTS = {}
    BY <1>5 DEF Honest
  <2>2. Said(r)' \cap TERMINAL_EVENTS \subseteq {e}
    BY <1>4, <2>1
  <2>. QED
    BY <1>4, <1>5, <1>7, <2>2 DEF Honest
<1>. QED
  BY <1>6, <1>7

LEMMA SaidTheSame ==
    ASSUME UNCHANGED <<told, http, outgoing>>
    PROVE  \A r : Said(r)' = Said(r)
BY DEF Said, Waiting

\* _emit_result, of a terminal event, once the state of the request is st.
LEMMA EmitsSafe ==
    ASSUME IInv, NEW r \in Requests, NEW st \in States, NEW e \in TERMINAL_EVENTS,
           Emits(r, st, e), st.known, ~states[r].terminal, st.terminal = states[r].terminal,
           UNCHANGED <<told, http, goal, log>>, incoming' \in Seq(Entries),
           call' \in [Requests -> {"none", "asked", "accepted", "rejected"}],
           \A q \in Requests \ {r} : call'[q] = call[q],
           Agrees(goal[r], e)
    PROVE  IInv'
<1>1. /\ outgoing' = Append(outgoing, [req |-> r, event |-> e])
      /\ states' = [states EXCEPT ![r] = [st EXCEPT !.terminal = @ \/ e \in TERMINAL_EVENTS]]
  BY DEF Emits
<1>2. states \in [Requests -> States]
  BY DEF IInv, Typed
<1> DEFINE s == [st EXCEPT !.terminal = @ \/ e \in TERMINAL_EVENTS]
<1>3. s \in States /\ s.terminal /\ s.known
  BY DEF States
<1>4. states' = [states EXCEPT ![r] = s]
  BY <1>1
<1> HIDE DEF s
<1>5. /\ states' \in [Requests -> States] /\ states'[r].terminal /\ states'[r].known
      /\ \A q \in Requests \ {r} : states'[q] = states[q]
  BY <1>2, <1>3, <1>4
<1>6. [req |-> r, event |-> e] \in Results /\ outgoing \in Seq(Results) /\ e \in Events
  BY DEF Results, Events, IInv, Typed, QueuesTyped
<1>7. outgoing' \in Seq(Results)
  BY <1>1, <1>6, HeldAppend
<1>8. Typed'
  BY <1>5, <1>7 DEF IInv, Typed, QueuesTyped
<1>. QED
  BY <1>1, <1>5, <1>6, <1>8, OneSaid

\* The state of a request changes and nothing is said.
LEMMA StateSafe ==
    ASSUME IInv, NEW r \in Requests, NEW st \in States,
           states' = [states EXCEPT ![r] = st],
           states[r].known => st.known, st.terminal = states[r].terminal,
           UNCHANGED <<told, http, outgoing, log>>, incoming' \in Seq(Entries),
           call' \in [Requests -> {"none", "asked", "accepted", "rejected"}],
           \A q \in Requests \ {r} : call'[q] = call[q],
           call'[r] # "none" => st.known,
           \/ goal' = goal /\ (~st.known => ~states[r].known)
           \/ ~states[r].known /\ st.known /\ goal' = [goal EXCEPT ![r] = "asked"]
    PROVE  IInv'
<1>1. states \in [Requests -> States] /\ goal \in [Requests -> Goals]
  BY DEF IInv, Typed
<1>2. states' \in [Requests -> States] /\ goal' \in [Requests -> Goals]
  BY <1>1 DEF Goals
<1>3. Typed'
  BY <1>2 DEF IInv, Typed, QueuesTyped
<1>4. ASSUME NEW q \in Requests
      PROVE  /\ Said(q)' \subseteq Said(q)
             /\ states[q].known => states'[q].known
             /\ states'[q].terminal = states[q].terminal
             /\ goal[q] \in Final => goal'[q] = goal[q]
             /\ goal[q] = "none" /\ states[q].known => goal'[q] = "none"
             /\ ~states'[q].known => goal'[q] = "none" /\ call'[q] = "none"
  <2>1. Honest(q)
    BY DEF IInv
  <2>2. Said(q)' = Said(q)
    BY SaidTheSame
  <2>3. ~states[q].known => goal[q] = "none" /\ call[q] = "none"
    BY <2>1 DEF Honest
  <2>. QED
    BY <1>1, <2>2, <2>3 DEF Final, Ended
<1>. QED
  BY <1>3, <1>4, NothingSaid

-----------------------------------------------------------------------------
(* The thread.                                                               *)

\* A step that moves results without adding any.
LEMMA MovesSafe ==
    ASSUME IInv, QueuesTyped', UNCHANGED <<states, goal, call>>,
           \A r \in Requests : Said(r)' \subseteq Said(r)
    PROVE  IInv'
<1>1. Typed'
  BY DEF IInv, Typed
<1>2. ASSUME NEW r \in Requests
      PROVE  /\ Said(r)' \subseteq Said(r)
             /\ states[r].known => states'[r].known
             /\ states'[r].terminal = states[r].terminal
             /\ goal[r] \in Final => goal'[r] = goal[r]
             /\ goal[r] = "none" /\ states[r].known => goal'[r] = "none"
             /\ ~states'[r].known => goal'[r] = "none" /\ call'[r] = "none"
  <2>1. Honest(r)
    BY DEF IInv
  <2>. QED
    BY <2>1 DEF Honest
<1>. QED
  BY <1>1, <1>2, NothingSaid

LEMMA TakesSafe == ASSUME IInv, Takes PROVE IInv'
<1>1. /\ http \in Loops /\ outgoing \in Seq(Results)
      /\ http.remaining \in Seq(Results) /\ http.pending \in Seq(Results)
      /\ <<>> \in Seq(Results)
  BY EmptySeq DEF IInv, Typed, QueuesTyped, Loops
<1>2. /\ outgoing' = <<>> /\ UNCHANGED <<log, told, incoming, states, goal, call>>
      /\ http' = [http EXCEPT !.pc = "post", !.pending = http.remaining \o outgoing,
                              !.remaining = <<>>]
      /\ http.pc = "take"
  BY DEF Takes
<1> DEFINE b == http.remaining \o outgoing
<1>3. b \in Seq(Results) /\ Held(b) = Held(http.remaining) \cup Held(outgoing)
  BY <1>1, HeldConcat
<1>4. http' = [http EXCEPT !.pc = "post", !.pending = b, !.remaining = <<>>]
  BY <1>2
<1> HIDE DEF b
<1>5. http' \in Loops /\ http'.pending = b /\ http'.remaining = <<>>
  BY <1>1, <1>3, <1>4 DEF Loops
<1>6. Waiting' \subseteq Waiting
  <2>1. Waiting' = Held(b) \cup {} \cup {}
    BY <1>2, <1>5, HeldEmpty DEF Waiting
  <2>. QED
    BY <1>3, <2>1 DEF Waiting
<1>7. QueuesTyped'
  BY <1>1, <1>2, <1>5 DEF IInv, Typed, QueuesTyped
<1>8. \A r \in Requests : Said(r)' \subseteq Said(r)
  BY <1>2, <1>6 DEF Said
<1>. QED
  BY <1>2, <1>7, <1>8, MovesSafe

LEMMA PostsSafe == ASSUME IInv, NEW answer \in Answers, Posts(answer) PROVE IInv'
<1> DEFINE x == Head(http.pending)
           t == Tail(http.pending)
           b == http.remaining \o (IF answer \in {"unheard", "failed"} THEN <<x>> ELSE <<>>)
<1>1. /\ http \in Loops /\ http.remaining \in Seq(Results) /\ http.pending \in Seq(Results)
      /\ http.pending # <<>> /\ told \in [Requests -> SUBSET Events]
  BY DEF IInv, Typed, QueuesTyped, Loops, Posts
<1>2. /\ UNCHANGED <<log, incoming, outgoing, states, goal, call>>
      /\ told' = IF answer \in {"ok", "unheard"}
                 THEN [told EXCEPT ![x.req] = @ \union {x.event}] ELSE told
      /\ http' = [http EXCEPT !.pending = t, !.remaining = b]
  BY DEF Posts, Kept
<1>3. x \in Results /\ t \in Seq(Results) /\ x \in Held(http.pending)
      /\ Held(t) \subseteq Held(http.pending)
  BY <1>1, HeldHeadTail
<1>4. b \in Seq(Results) /\ Held(b) \subseteq Held(http.remaining) \cup {x}
  <2>1. <<x>> \in Seq(Results) /\ Held(<<x>>) = {x}
    BY <1>3, HeldOne
  <2>2. <<>> \in Seq(Results)
    BY EmptySeq
  <2>3. CASE answer \in {"unheard", "failed"}
    <3> DEFINE y == <<x>>
    <3>1. y \in Seq(Results) /\ Held(y) = {x} /\ b = http.remaining \o y
      BY <2>1, <2>3
    <3> HIDE DEF y, b
    <3>2. http.remaining \o y \in Seq(Results)
          /\ Held(http.remaining \o y) = Held(http.remaining) \cup Held(y)
      BY <1>1, <3>1, HeldConcat
    <3>. QED
      BY <3>1, <3>2
  <2>4. CASE answer \notin {"unheard", "failed"}
    <3>1. b = http.remaining
      BY <1>1, <2>4, ConcatEmptySeq
    <3>. QED
      BY <1>1, <3>1
  <2>. QED
    BY <2>3, <2>4
<1> HIDE DEF x, t, b
<1>5. http' \in Loops /\ http'.pending = t /\ http'.remaining = b
  BY <1>1, <1>2, <1>3, <1>4 DEF Loops
<1>6. Waiting' \subseteq Waiting /\ x \in Waiting
  BY <1>2, <1>3, <1>4, <1>5 DEF Waiting
<1>7. x.req \in Requests /\ x.event \in Events /\ x = [req |-> x.req, event |-> x.event]
  BY <1>3 DEF Results
<1>8. /\ told' \in [Requests -> SUBSET Events]
      /\ \A r \in Requests : told'[r] \subseteq told[r] \cup (IF r = x.req THEN {x.event} ELSE {})
  BY <1>1, <1>2, <1>7
<1>9. QueuesTyped'
  BY <1>2, <1>5, <1>8 DEF IInv, Typed, QueuesTyped
<1>10. ASSUME NEW r \in Requests PROVE Said(r)' \subseteq Said(r)
  <2>1. r = x.req => x.event \in Said(r)
    BY <1>6, <1>7 DEF Said
  <2>. QED
    BY <1>6, <1>8, <2>1 DEF Said
<1>. QED
  BY <1>2, <1>9, <1>10, MovesSafe

LEMMA PollsSafe == ASSUME IInv, NEW answered \in BOOLEAN, Polls(answered) PROVE IInv'
<1>1. /\ http \in Loops /\ log \in Seq(Entries) /\ incoming \in Seq(Entries)
      /\ http.after \in Nat /\ Len(log) \in Nat
  BY LenProperties DEF IInv, Typed, QueuesTyped, Loops
<1>2. /\ UNCHANGED <<log, told, outgoing, states, goal, call>>
      /\ http' = [http EXCEPT !.pc = "take", !.after = IF answered THEN Len(log) ELSE @]
      /\ incoming' = IF answered THEN incoming \o Unread ELSE incoming
  BY DEF Polls
<1>3. http' \in Loops /\ http'.pending = http.pending /\ http'.remaining = http.remaining
  <2> DEFINE n == IF answered THEN Len(log) ELSE http.after
  <2>1. n \in Nat /\ http' = [http EXCEPT !.pc = "take", !.after = n]
    BY <1>1, <1>2
  <2> HIDE DEF n
  <2>. QED
    BY <1>1, <2>1 DEF Loops
<1>4. Unread \in Seq(Entries)
  <2>1. http.after + 1 \in Int /\ Len(log) \in Int
    BY <1>1
  <2>2. \A i \in http.after + 1 .. Len(log) : log[i] \in Entries
    <3>1. \A i \in 1 .. Len(log) : log[i] \in Entries
      BY <1>1, ElementOfSeq
    <3>. QED
      BY <1>1, <3>1
  <2>. QED
    BY <2>1, <2>2, SubSeqProperties DEF Unread
<1>5. incoming' \in Seq(Entries)
  BY <1>1, <1>2, <1>4, ConcatProperties
<1>6. QueuesTyped'
  BY <1>2, <1>3, <1>5 DEF IInv, Typed, QueuesTyped
<1>7. \A r \in Requests : Said(r)' \subseteq Said(r)
  BY <1>2, <1>3 DEF Said, Waiting
<1>. QED
  BY <1>2, <1>6, <1>7, MovesSafe

LEMMA WritesAndEndsSafe == ASSUME IInv, J6mWrites \/ HttpEnds PROVE IInv'
<1>1. CASE J6mWrites
  <2>1. PICK r \in Requests, op \in {"submit", "submit bad", "cancel"} :
          log' = Append(log, [op |-> op, req |-> r])
    BY <1>1 DEF J6mWrites
  <2>2. [op |-> op, req |-> r] \in Entries
    BY DEF Entries
  <2>3. log' \in Seq(Entries)
    BY <2>1, <2>2, HeldAppend DEF IInv, Typed, QueuesTyped
  <2>4. QueuesTyped'
    BY <1>1, <2>3 DEF J6mWrites, hilVars, IInv, Typed, QueuesTyped
  <2>. QED
    BY <1>1, <2>4, SaidTheSame, MovesSafe DEF J6mWrites, hilVars
<1>2. CASE HttpEnds
  <2>1. http' = [http EXCEPT !.pc = "ended"] /\ http \in Loops
    BY <1>2 DEF HttpEnds, IInv, Typed, QueuesTyped
  <2>2. http' \in Loops /\ http'.pending = http.pending /\ http'.remaining = http.remaining
    BY <2>1 DEF Loops
  <2>3. QueuesTyped'
    BY <1>2, <2>2 DEF HttpEnds, IInv, Typed, QueuesTyped
  <2>4. \A r \in Requests : Said(r)' \subseteq Said(r)
    BY <1>2, <2>2 DEF HttpEnds, Said, Waiting
  <2>. QED
    BY <1>2, <2>3, <2>4, MovesSafe DEF HttpEnds
<1>. QED
  BY <1>1, <1>2

-----------------------------------------------------------------------------
(* The node.                                                                 *)

\* _request_cancel, of a request in the state st.
LEMMA AsksCancelSafe ==
    ASSUME IInv, NEW r \in Requests, NEW st \in States, AsksCancel(r, st),
           states[r].known, st.known, st.terminal = states[r].terminal,
           UNCHANGED <<told, http, outgoing, log, goal>>, incoming' \in Seq(Entries)
    PROVE  IInv'
<1>1. call \in [Requests -> {"none", "asked", "accepted", "rejected"}]
  BY DEF IInv, Typed
<1>2. CASE states' = [states EXCEPT ![r] = st] /\ UNCHANGED call
  BY <1>1, <1>2, StateSafe
<1>3. CASE /\ states' = [states EXCEPT ![r] = [st EXCEPT !.cancel_in_flight = TRUE]]
           /\ call' = [call EXCEPT ![r] = "asked"]
  <2> DEFINE s == [st EXCEPT !.cancel_in_flight = TRUE]
  <2>1. s \in States /\ s.known /\ s.terminal = states[r].terminal
    BY DEF States
  <2>2. states' = [states EXCEPT ![r] = s]
    BY <1>3
  <2>3. /\ call' \in [Requests -> {"none", "asked", "accepted", "rejected"}]
        /\ \A q \in Requests \ {r} : call'[q] = call[q]
    BY <1>1, <1>3
  <2> HIDE DEF s
  <2>. QED
    BY <2>1, <2>2, <2>3, StateSafe
<1>. QED
  BY <1>2, <1>3 DEF AsksCancel

LEMMA DrainsSafe == ASSUME IInv, Drains PROVE IInv'
<1> DEFINE event == Head(incoming)
           r == event.req
<1>1. /\ incoming \in Seq(Entries) /\ incoming # <<>> /\ incoming' = Tail(incoming)
      /\ UNCHANGED <<log, told, refused, http>>
      /\ IF event.op = "cancel" THEN HandleCancel(r) ELSE HandleSubmit(r, IsGoal(event))
  BY DEF IInv, Typed, QueuesTyped, Drains
<1>2. event \in Entries /\ incoming' \in Seq(Entries)
  BY <1>1, HeadTailProperties
<1>3. r \in Requests
  BY <1>2 DEF Entries
<1> HIDE DEF event, r
<1>4. /\ states \in [Requests -> States] /\ states[r] \in States /\ goal \in [Requests -> Goals]
      /\ call \in [Requests -> {"none", "asked", "accepted", "rejected"}]
      /\ Honest(r)
  BY <1>3 DEF IInv, Typed
<1>5. ASSUME UNCHANGED <<states, outgoing, goal, call>> PROVE IInv'
  <2>1. QueuesTyped'
    BY <1>1, <1>2, <1>5 DEF IInv, Typed, QueuesTyped
  <2>. QED
    BY <1>1, <1>5, <2>1, SaidTheSame, MovesSafe
<1>6. CASE HandleCancel(r)
  <2>1. CASE states[r].known /\ ~states[r].terminal
    <3> DEFINE st == [states[r] EXCEPT !.cancel_requested = TRUE]
    <3>1. st \in States /\ st.known /\ st.terminal = states[r].terminal
      BY <1>4, <2>1 DEF States
    <3>2. AsksCancel(r, st) /\ UNCHANGED <<outgoing, goal>>
      BY <1>6, <2>1 DEF HandleCancel
    <3> HIDE DEF st
    <3>. QED
      BY <1>1, <1>2, <1>3, <2>1, <3>1, <3>2, AsksCancelSafe
  <2>2. CASE ~(states[r].known /\ ~states[r].terminal)
    BY <1>5, <1>6, <2>2 DEF HandleCancel
  <2>. QED
    BY <2>1, <2>2
<1>7. CASE HandleSubmit(r, IsGoal(event))
  <2>1. CASE states[r].known
    BY <1>5, <1>7, <2>1 DEF HandleSubmit
  <2>2. CASE ~states[r].known
    <3> DEFINE st == [states[r] EXCEPT !.known = TRUE]
    <3>1. st \in States /\ st.known /\ st.terminal = states[r].terminal
      BY <1>4 DEF States
    <3>2. goal[r] = "none" /\ ~states[r].terminal
      BY <1>4, <2>2 DEF Honest
    <3>3. /\ UNCHANGED call
          /\ IF IsGoal(event)
             THEN /\ states' = [states EXCEPT ![r] = st] /\ UNCHANGED outgoing
                  /\ goal' = [goal EXCEPT ![r] = "asked"]
             ELSE Emits(r, st, "GOAL_REJECTED") /\ UNCHANGED goal
      BY <1>7, <2>2 DEF HandleSubmit
    <3> HIDE DEF st
    <3>4. CASE /\ states' = [states EXCEPT ![r] = st] /\ UNCHANGED outgoing
               /\ goal' = [goal EXCEPT ![r] = "asked"]
      BY <1>1, <1>2, <1>3, <1>4, <2>2, <3>1, <3>3, <3>4, StateSafe
    <3>5. CASE Emits(r, st, "GOAL_REJECTED") /\ UNCHANGED goal
      <4>1. "GOAL_REJECTED" \in TERMINAL_EVENTS /\ Agrees(goal[r], "GOAL_REJECTED")
        BY <3>2 DEF TERMINAL_EVENTS, Agrees
      <4>. QED
        BY <1>1, <1>2, <1>3, <1>4, <3>1, <3>2, <3>3, <3>5, <4>1, EmitsSafe
    <3>. QED
      BY <3>3, <3>4, <3>5
  <2>. QED
    BY <2>1, <2>2
<1>. QED
  BY <1>1, <1>6, <1>7

LEMMA GoalResponseSafe == ASSUME IInv, NEW r \in Requests, OnGoalResponse(r) PROVE IInv'
<1>1. /\ states \in [Requests -> States] /\ states[r] \in States
      /\ call \in [Requests -> {"none", "asked", "accepted", "rejected"}]
      /\ incoming \in Seq(Entries) /\ outgoing \in Seq(Results)
  BY DEF IInv, Typed, QueuesTyped
<1>2. /\ states[r].known /\ ~states[r].terminal
      /\ UNCHANGED <<log, told, refused, http, incoming, goal>>
  BY DEF OnGoalResponse
<1>3. CASE goal[r] = "refused"
  <2>1. Emits(r, states[r], "GOAL_REJECTED") /\ UNCHANGED call
    BY <1>3 DEF OnGoalResponse
  <2>2. "GOAL_REJECTED" \in TERMINAL_EVENTS /\ Agrees(goal[r], "GOAL_REJECTED")
    BY <1>3 DEF TERMINAL_EVENTS, Agrees
  <2>. QED
    BY <1>1, <1>2, <2>1, <2>2, EmitsSafe
<1>4. CASE goal[r] # "refused"
  <2> DEFINE st == [states[r] EXCEPT !.handle = TRUE]
             sc == [st EXCEPT !.cancel_in_flight = TRUE]
  <2>1. /\ outgoing' = Append(outgoing, [req |-> r, event |-> "GOAL_ACCEPTED"])
        /\ QueuedCancel(r, st)
    BY <1>4 DEF OnGoalResponse
  <2>2. /\ st \in States /\ st.known /\ ~st.terminal
        /\ sc \in States /\ sc.known /\ ~sc.terminal
    BY <1>1, <1>2 DEF States
  <2>3. /\ states' = [states EXCEPT ![r] = st] \/ states' = [states EXCEPT ![r] = sc]
        /\ call' = call \/ call' = [call EXCEPT ![r] = "asked"]
    BY <2>1 DEF QueuedCancel, AsksCancel
  <2> HIDE DEF st, sc
  <2>4. /\ states' \in [Requests -> States] /\ states'[r].known
        /\ \A q \in Requests \ {r} : states'[q] = states[q] /\ call'[q] = call[q]
        /\ call' \in [Requests -> {"none", "asked", "accepted", "rejected"}]
    BY <1>1, <2>2, <2>3
  <2>5. /\ "GOAL_ACCEPTED" \in Events /\ "GOAL_ACCEPTED" \notin TERMINAL_EVENTS
        /\ Agrees(goal[r], "GOAL_ACCEPTED")
    BY DEF Events, TERMINAL_EVENTS, Agrees
  <2>6. [req |-> r, event |-> "GOAL_ACCEPTED"] \in Results
    BY <2>5 DEF Results
  <2>7. outgoing' \in Seq(Results)
    BY <1>1, <2>1, <2>6, HeldAppend
  <2>8. Typed'
    BY <1>2, <2>4, <2>7 DEF IInv, Typed, QueuesTyped
  <2>. QED
    BY <1>2, <2>1, <2>4, <2>5, <2>8, OneSaid
<1>. QED
  BY <1>3, <1>4

LEMMA CancelResponseSafe == ASSUME IInv, NEW r \in Requests, OnCancelResponse(r) PROVE IInv'
<1> DEFINE st == [states[r] EXCEPT !.cancel_in_flight = FALSE]
           sa == [st EXCEPT !.cancel_accepted = TRUE]
<1>1. /\ states \in [Requests -> States] /\ states[r] \in States
      /\ call \in [Requests -> {"none", "asked", "accepted", "rejected"}]
      /\ incoming \in Seq(Entries) /\ Honest(r)
  BY DEF IInv, Typed, QueuesTyped
<1>2. /\ call' = [call EXCEPT ![r] = "none"]
      /\ UNCHANGED <<log, told, refused, http, incoming, goal>>
  BY DEF OnCancelResponse
<1>3. /\ call' \in [Requests -> {"none", "asked", "accepted", "rejected"}]
      /\ incoming' \in Seq(Entries) /\ call'[r] = "none"
      /\ \A q \in Requests \ {r} : call'[q] = call[q]
  BY <1>1, <1>2
<1>4. /\ st \in States /\ st.known = states[r].known /\ st.terminal = states[r].terminal
      /\ sa \in States /\ sa.known = states[r].known /\ sa.terminal = states[r].terminal
  BY <1>1 DEF States
<1>5. IF states[r].terminal THEN UNCHANGED <<states, outgoing>>
      ELSE IF call[r] = "rejected" THEN Emits(r, st, "CANCEL_FAILED")
      ELSE states' = [states EXCEPT ![r] = sa] /\ UNCHANGED outgoing
  BY DEF OnCancelResponse
<1> HIDE DEF st, sa
<1>6. CASE states[r].terminal
  <2>1. UNCHANGED <<states, outgoing>>
    BY <1>5, <1>6
  <2>2. states' = [states EXCEPT ![r] = states[r]]
    BY <1>1, <2>1
  <2>. QED
    BY <1>1, <1>2, <1>3, <2>1, <2>2, StateSafe
<1>7. CASE ~states[r].terminal /\ call[r] = "rejected"
  <2>3. states[r].known
    BY <1>1, <1>7 DEF Honest
  <2>1. Emits(r, st, "CANCEL_FAILED")
    BY <1>5, <1>7
  <2>2. "CANCEL_FAILED" \in TERMINAL_EVENTS /\ Agrees(goal[r], "CANCEL_FAILED")
    BY DEF TERMINAL_EVENTS, Agrees
  <2>. QED
    BY <1>2, <1>3, <1>4, <1>7, <2>1, <2>2, <2>3, EmitsSafe
<1>8. CASE ~states[r].terminal /\ call[r] # "rejected"
  <2>1. states' = [states EXCEPT ![r] = sa] /\ UNCHANGED outgoing
    BY <1>5, <1>8
  <2>. QED
    BY <1>2, <1>3, <1>4, <2>1, StateSafe
<1>. QED
  BY <1>6, <1>7, <1>8

LEMMA GoalResultSafe == ASSUME IInv, NEW r \in Requests, OnGoalResult(r) PROVE IInv'
<1>1. /\ states[r] \in States /\ incoming \in Seq(Entries) /\ Honest(r)
      /\ call \in [Requests -> {"none", "asked", "accepted", "rejected"}]
  BY DEF IInv, Typed, QueuesTyped
<1>2. /\ ~states[r].terminal /\ goal[r] \in Ended
      /\ Emits(r, states[r], Verdict(states[r], goal[r]))
      /\ UNCHANGED <<log, told, refused, http, incoming, goal, call>>
  BY DEF OnGoalResult
<1>3. /\ Verdict(states[r], goal[r]) \in TERMINAL_EVENTS
      /\ Agrees(goal[r], Verdict(states[r], goal[r]))
  BY <1>2 DEF Verdict, TERMINAL_EVENTS, Agrees, Ended
<1>4. states[r].known
  BY <1>1, <1>2 DEF Honest, Ended
<1>. QED
  BY <1>1, <1>2, <1>3, <1>4, EmitsSafe

-----------------------------------------------------------------------------
(* The server: what it decides is not undone.                                *)

LEMMA ServesSafe ==
    ASSUME IInv, NEW r \in Requests, NEW to \in Goals \ {"none", "asked"},
           Serves(r, to), goal[r] \notin Final \cup {"none"},
           call' \in [Requests -> {"none", "asked", "accepted", "rejected"}],
           \A q \in Requests \ {r} : call'[q] = call[q]
    PROVE  IInv'
<1>1. goal \in [Requests -> Goals] /\ goal' = [goal EXCEPT ![r] = to]
      /\ UNCHANGED <<log, told, http, incoming, outgoing, states>>
  BY DEF IInv, Typed, Serves, hilVars
<1>2. Typed'
  BY <1>1 DEF IInv, Typed, QueuesTyped
<1>3. ASSUME NEW q \in Requests
      PROVE  /\ Said(q)' \subseteq Said(q)
             /\ states[q].known => states'[q].known
             /\ states'[q].terminal = states[q].terminal
             /\ goal[q] \in Final => goal'[q] = goal[q]
             /\ goal[q] = "none" /\ states[q].known => goal'[q] = "none"
             /\ ~states'[q].known => goal'[q] = "none" /\ call'[q] = "none"
  <2>1. Honest(q)
    BY DEF IInv
  <2>2. ~states[q].known => goal[q] = "none" /\ call[q] = "none"
    BY <2>1 DEF Honest
  <2>3. Said(q)' = Said(q)
    BY <1>1, SaidTheSame
  <2>. QED
    BY <1>1, <2>2, <2>3
<1>. QED
  BY <1>2, <1>3, NothingSaid

LEMMA ServerSafe ==
    ASSUME IInv, NEW r \in Requests,
           ServerDecides(r) \/ ServerEnds(r) \/ ServerHearsCancel(r) \/ OthersCancel(r)
    PROVE  IInv'
<1>1. call \in [Requests -> {"none", "asked", "accepted", "rejected"}]
      /\ goal \in [Requests -> Goals] /\ states \in [Requests -> States] /\ Honest(r)
  BY DEF IInv, Typed
<1>2. CASE ServerDecides(r)
  BY <1>1, <1>2, ServesSafe DEF ServerDecides, Goals, Final, Ended
<1>3. CASE ServerEnds(r)
  <2>1. PICK to \in Ended : Serves(r, to)
    BY <1>3 DEF ServerEnds, Ended
  <2>2. goal[r] \notin Final \cup {"none"} /\ UNCHANGED call
    BY <1>3 DEF ServerEnds, Final, Ended
  <2>3. to \in Goals \ {"none", "asked"}
    BY DEF Goals, Ended
  <2>. QED
    BY <1>1, <2>1, <2>2, <2>3, ServesSafe
<1>4. CASE ServerHearsCancel(r)
  <2>1. /\ call' \in [Requests -> {"none", "asked", "accepted", "rejected"}]
        /\ (\A q \in Requests \ {r} : call'[q] = call[q]) /\ states[r].known
    BY <1>1, <1>4 DEF ServerHearsCancel, Honest
  <2>2. CASE goal[r] = "running" /\ Serves(r, "canceling")
    BY <2>1, <2>2, ServesSafe DEF Goals, Final, Ended
  <2>3. CASE Serves(r, goal[r])
    <3>1. goal' = goal /\ UNCHANGED <<log, told, http, incoming, outgoing, states>>
      BY <1>1, <2>3 DEF Serves, hilVars
    <3>2. states' = [states EXCEPT ![r] = states[r]] /\ states[r] \in States
      BY <1>1, <3>1
    <3>3. incoming' \in Seq(Entries)
      BY <3>1 DEF IInv, Typed, QueuesTyped
    <3>. QED
      BY <2>1, <3>1, <3>2, <3>3, StateSafe
  <2>. QED
    BY <1>4, <2>2, <2>3 DEF ServerHearsCancel
<1>5. CASE OthersCancel(r)
  BY <1>1, <1>5, ServesSafe DEF OthersCancel, Goals, Final, Ended
<1>. QED
  BY <1>2, <1>3, <1>4, <1>5

-----------------------------------------------------------------------------

LEMMA IInvInit == Init => IInv
<1> SUFFICES ASSUME Init PROVE IInv
  OBVIOUS
<1>1. <<>> \in Seq(Entries) /\ <<>> \in Seq(Results)
  BY EmptySeq
<1>2. Typed
  BY <1>1 DEF Init, Typed, QueuesTyped, Loops, States, Goals
<1>3. Waiting = {}
  BY HeldEmpty DEF Init, Waiting
<1>4. \A r \in Requests : Said(r) = {}
  BY <1>3 DEF Init, Said
<1>. QED
  BY <1>2, <1>4 DEF Init, IInv, Honest

LEMMA IInvNext == IInv /\ [Next]_vars => IInv'
<1> SUFFICES ASSUME IInv, [Next]_vars PROVE IInv'
  OBVIOUS
<1>1. CASE J6mWrites \/ HttpEnds
  BY <1>1, WritesAndEndsSafe
<1>2. CASE Takes
  BY <1>2, TakesSafe
<1>3. CASE Drains
  BY <1>3, DrainsSafe
<1>4. CASE \E answer \in Answers : Posts(answer)
  BY <1>4, PostsSafe
<1>5. CASE \E answered \in BOOLEAN : Polls(answered)
  BY <1>5, PollsSafe
<1>6. ASSUME NEW r \in Requests, Callback(r) PROVE IInv'
  BY <1>6, GoalResponseSafe, CancelResponseSafe, GoalResultSafe DEF Callback
<1>7. ASSUME NEW r \in Requests,
             ServerDecides(r) \/ ServerEnds(r) \/ ServerHearsCancel(r) \/ OthersCancel(r)
      PROVE  IInv'
  BY <1>7, ServerSafe
<1>8. CASE UNCHANGED vars
  <2>1. QueuesTyped'
    BY <1>8 DEF vars, hilVars, IInv, Typed, QueuesTyped
  <2>. QED
    BY <1>8, <2>1, SaidTheSame, MovesSafe DEF vars, hilVars
<1>. QED
  BY <1>1, <1>2, <1>3, <1>4, <1>5, <1>6, <1>7, <1>8 DEF Next

(* What the J6M is told of the end of a goal is what became of it, and it is *)
(* told one end, for any number of requests and however results and cancels  *)
(* cross or are repeated (_on_goal_result, _emit_result).                    *)
THEOREM ReportTrue == Spec => []ReportIsTrue
<1>1. IInv => ReportIsTrue
  <2> SUFFICES ASSUME IInv, NEW r \in Requests
               PROVE  /\ \A e \in told[r] : Agrees(goal[r], e)
                      /\ \A e, f \in told[r] \intersect TERMINAL_EVENTS : e = f
    BY DEF ReportIsTrue, Agrees
  <2>1. Honest(r) /\ told[r] \subseteq Said(r)
    BY DEF IInv, Said
  <2>. QED
    BY <2>1 DEF Honest
<1>. QED
  BY IInvInit, IInvNext, <1>1, PTL DEF Spec
=============================================================================
