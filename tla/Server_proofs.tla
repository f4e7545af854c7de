--------------------------- MODULE Server_proofs ----------------------------
(* What TLAPS proves about Server: what an action tells its caller is true,  *)
(* for any set of actions, any values and any losses; the CSV file of the    *)
(* statistics has every line once, whatever becomes of the appends; and a    *)
(* line shows what its header says, whatever records the polls hand over.    *)
EXTENDS Server, Frame_lemmas, FiniteSetTheorems

PlanOK ==
  \A a \in DOMAIN plan :
    /\ Len(plan[a]) \in Nat \ { 0 } /\ DOMAIN plan[a] = 1 .. Len(plan[a])
    /\ \A i, j \in DOMAIN plan[a] : plan[a][i].reg = plan[a][j].reg => i = j

ActionsType ==
  /\ PlanOK
  /\ phase \in [DOMAIN plan -> { "new", "write", "read", "finished", "failed" }]
  /\ point \in [DOMAIN plan -> Nat]
  /\ cnt \in [DOMAIN plan -> 0 .. MaxTries]
  /\ lost \in [DOMAIN plan -> 0 .. MaxTries]
  /\ queue \in Seq(DOMAIN plan)
  /\ DOMAIN held = UNION { RegistersOf(a) : a \in DOMAIN plan }
  /\ \A a \in DOMAIN plan :
       /\ point[a] \in DOMAIN plan[a]
       /\ phase[a] \in { "new", "write", "read" } => cnt[a] < MaxTries

InPlace(a, i) == AsRead(plan[a][i].reg, held[plan[a][i].reg]) = plan[a][i].asked
Written(a) ==
  held[plan[a][point[a]].reg] =
    Kept(WriteRegisterNow(SomeId, plan[a][point[a]].raw, SizeOf(plan[a][point[a]].reg)))

\* What holds of an action whose registers no other one writes: the values before the
\* one it is setting are in place, the one it reads back has been written, and each of
\* its tries has cost it an access unless reading is in vain.
Alone(a) ==
  /\ \A i \in DOMAIN plan[a] : i < point[a] \/ phase[a] = "finished" => InPlace(a, i)
  /\ phase[a] = "read" => Written(a)
  /\ instance # "missing" /\ Settable(plan[a][point[a]]) => cnt[a] <= lost[a]

\* The inductive invariant.
IInv ==
  /\ ActionsType
  /\ \A a \in DOMAIN plan :
       /\ phase[a] = "failed" => cnt[a] = MaxTries
       /\ Shared(a) \/ Alone(a)

-----------------------------------------------------------------------------
(* The steps of an action *)

\* Sharing a register never ends.
LEMMA SharedStays ==
  ASSUME NEW a \in DOMAIN plan, ActionsType, plan' = plan, Shared(a),
         \A b \in DOMAIN plan : phase[b] # "new" => phase'[b] # "new"
  PROVE  Shared(a)'
<1>1. PICK b \in DOMAIN plan \ { a } :
         phase[b] # "new" /\ RegistersOf(a) \cap RegistersOf(b) # {}
  BY DEF Shared
<1>2. RegistersOf(a)' = RegistersOf(a) /\ RegistersOf(b)' = RegistersOf(b)
  BY DEF RegistersOf
<1> QED
  BY <1>1, <1>2 DEF Shared

\* Nothing is lost for an action whose variables and registers a step leaves alone.
LEMMA AloneStays ==
  ASSUME NEW a \in DOMAIN plan, ActionsType, Alone(a), plan' = plan, instance' = instance,
         phase'[a] = phase[a], point'[a] = point[a], cnt'[a] = cnt[a], lost'[a] = lost[a],
         \A r \in RegistersOf(a) : held'[r] = held[r]
  PROVE  Alone(a)'
<1>1. \A i \in DOMAIN plan[a] : plan[a][i].reg \in RegistersOf(a)
  BY DEF RegistersOf
<1>2. point[a] \in DOMAIN plan[a]
  BY DEF ActionsType
<1>3. \A i \in DOMAIN plan[a] : InPlace(a, i)' = InPlace(a, i)
  BY <1>1 DEF InPlace
<1>4. Written(a)' = Written(a)
  BY <1>1, <1>2 DEF Written
<1>5. Settable(plan[a][point[a]])' = Settable(plan[a][point[a]])
  OBVIOUS
<1> QED
  BY <1>3, <1>4, <1>5 DEF Alone

\* Only the register that b is setting may change when b is served.
Untouched(b) ==
  /\ plan' = plan /\ instance' = instance
  /\ DOMAIN held' = DOMAIN held
  /\ \A r \in DOMAIN held : r # plan[b][point[b]].reg => held'[r] = held[r]
  /\ \A c \in DOMAIN plan \ { b } :
       phase'[c] = phase[c] /\ point'[c] = point[c] /\ cnt'[c] = cnt[c] /\ lost'[c] = lost[c]
  /\ phase[b] # "new" /\ phase'[b] # "new"

LEMMA OthersStay ==
  ASSUME ActionsType, NEW b \in DOMAIN plan, NEW a \in DOMAIN plan \ { b },
         Shared(a) \/ Alone(a), Untouched(b)
  PROVE  (Shared(a) \/ Alone(a))'
<1>1. CASE Shared(a)
  BY <1>1, SharedStays DEF Untouched
<1>2. CASE ~Shared(a)
  <2>1. RegistersOf(a) \cap RegistersOf(b) = {}
    BY <1>2 DEF Shared, Untouched
  <2>2. plan[b][point[b]].reg \in RegistersOf(b)
    BY DEF RegistersOf, ActionsType
  <2>3. RegistersOf(a) \subseteq DOMAIN held
    BY DEF ActionsType
  <2>4. \A r \in RegistersOf(a) : held'[r] = held[r]
    BY <2>1, <2>2, <2>3 DEF Untouched
  <2> QED
    BY <1>2, <2>4, AloneStays DEF Untouched
<1> QED
  BY <1>1, <1>2

\* The values in place before the one that is set stay there.
LEMMA EarlierStay ==
  ASSUME ActionsType, NEW b \in DOMAIN plan, Alone(b), Untouched(b)
  PROVE  \A i \in DOMAIN plan[b] : i < point[b] => InPlace(b, i)'
<1> SUFFICES ASSUME NEW i \in DOMAIN plan[b], i < point[b] PROVE InPlace(b, i)'
  OBVIOUS
<1>1. plan[b][i].reg \in DOMAIN held
  BY DEF ActionsType, RegistersOf
<1>2. point[b] \in DOMAIN plan[b] /\ point[b] \in Nat
  BY DEF ActionsType
<1>3. i # point[b]
  BY <1>2
<1>4. plan[b][i].reg # plan[b][point[b]].reg
  BY <1>2, <1>3 DEF ActionsType, PlanOK
<1>5. held'[plan[b][i].reg] = held[plan[b][i].reg]
  BY <1>1, <1>4 DEF Untouched
<1>6. InPlace(b, i)
  BY DEF Alone
<1> QED
  BY <1>5, <1>6 DEF InPlace, Untouched

\* The queue after the head has been served.
LEMMA QueueType ==
  ASSUME NEW S, NEW q \in Seq(S), q # <<>>
  PROVE  Head(q) \in S /\ Tail(q) \in Seq(S) /\ Append(Tail(q), Head(q)) \in Seq(S)
OBVIOUS

\* An error in a try.
LEMMA RetryStep ==
  ASSUME IInv, NEW b \in DOMAIN plan, queue # <<>>, b = Head(queue),
         phase[b] \in { "write", "read" }, Retry(b), Untouched(b),
         lost' \in [DOMAIN plan -> 0 .. MaxTries],
         \/ lost'[b] = lost[b] + 1 \/ lost'[b] = MaxTries
         \/ /\ lost'[b] = lost[b]
            /\ Shared(b) \/ instance = "missing" \/ ~Settable(plan[b][point[b]])
  PROVE  IInv'
<1> USE DEF MaxTries
<1>1. ActionsType
  BY DEF IInv
<1>2. /\ Head(queue) \in DOMAIN plan /\ Tail(queue) \in Seq(DOMAIN plan)
      /\ Append(Tail(queue), b) \in Seq(DOMAIN plan)
  BY <1>1, QueueType DEF ActionsType
<1>3. cnt[b] \in 0 .. 2
  BY <1>1 DEF ActionsType
<1>4. /\ phase' \in [DOMAIN plan -> { "new", "write", "read", "finished", "failed" }]
      /\ cnt' \in [DOMAIN plan -> 0 .. 3] /\ cnt'[b] = cnt[b] + 1
      /\ point' = point
      /\ phase'[b] \in { "write", "failed" }
      /\ phase'[b] = "write" => cnt'[b] < 3
      /\ phase'[b] = "failed" => cnt'[b] = 3
      /\ queue' \in Seq(DOMAIN plan)
  <2>1. /\ cnt' = [cnt EXCEPT ![b] = cnt[b] + 1] /\ point' = point
        /\ \/ /\ cnt[b] + 1 < 3
              /\ phase' = [phase EXCEPT ![b] = "write"] /\ queue' = Append(Tail(queue), b)
           \/ /\ ~(cnt[b] + 1 < 3)
              /\ phase' = [phase EXCEPT ![b] = "failed"] /\ queue' = Tail(queue)
    BY DEF Retry
  <2>2. cnt \in [DOMAIN plan -> 0 .. 3]
    BY <1>1 DEF ActionsType
  <2>3. phase \in [DOMAIN plan -> { "new", "write", "read", "finished", "failed" }]
    BY <1>1 DEF ActionsType
  <2>4. cnt' \in [DOMAIN plan -> 0 .. 3] /\ cnt'[b] = cnt[b] + 1
    BY <2>1, <2>2, <1>3
  <2>5. CASE cnt[b] + 1 < 3
    <3>1. phase' = [phase EXCEPT ![b] = "write"] /\ queue' = Append(Tail(queue), b)
      BY <2>1, <2>5
    <3> QED
      BY <1>2, <1>3, <2>1, <2>3, <2>4, <2>5, <3>1
  <2>6. CASE ~(cnt[b] + 1 < 3)
    <3>1. phase' = [phase EXCEPT ![b] = "failed"] /\ queue' = Tail(queue)
      BY <2>1, <2>6
    <3> QED
      BY <1>2, <1>3, <2>1, <2>3, <2>4, <2>6, <3>1
  <2> QED
    BY <2>5, <2>6
<1>5. PlanOK'
  BY <1>1 DEF ActionsType, PlanOK, Untouched
<1>6. DOMAIN held' = UNION { RegistersOf(a)' : a \in DOMAIN plan' }
  BY <1>1 DEF ActionsType, RegistersOf, Untouched
<1>7. \A a \in DOMAIN plan :
        /\ point'[a] \in DOMAIN plan[a]
        /\ phase'[a] \in { "new", "write", "read" } => cnt'[a] < 3
  BY <1>1, <1>4 DEF ActionsType, Untouched
<1>8. ActionsType'
  BY <1>1, <1>4, <1>5, <1>6, <1>7 DEF ActionsType, Untouched
<1>9. \A a \in DOMAIN plan : phase'[a] = "failed" => cnt'[a] = MaxTries
  BY <1>4 DEF IInv, Untouched
<1>10. ASSUME NEW a \in DOMAIN plan PROVE (Shared(a) \/ Alone(a))'
  <2>1. CASE a # b
    BY <1>1, <2>1, OthersStay DEF IInv
  <2>2. CASE a = b /\ Shared(a)
    BY <1>1, <2>2, SharedStays DEF Untouched
  <2>3. CASE a = b /\ ~Shared(a)
    <3>1. Alone(b)
      BY <2>3 DEF IInv
    <3>2. \A i \in DOMAIN plan[b] : i < point[b] => InPlace(b, i)'
      BY <1>1, <3>1, EarlierStay
    <3>3. instance # "missing" /\ Settable(plan[b][point[b]]) => cnt'[b] <= lost'[b]
      <4> SUFFICES ASSUME instance # "missing", Settable(plan[b][point[b]])
                   PROVE  cnt'[b] <= lost'[b]
        OBVIOUS
      <4>1. cnt[b] <= lost[b]
        BY <3>1 DEF Alone
      <4>2. lost'[b] = lost[b] + 1 \/ lost'[b] = 3
        BY <2>3
      <4>3. lost[b] \in 0 .. 3
        BY <1>1 DEF ActionsType
      <4> QED
        BY <1>3, <1>4, <4>1, <4>2, <4>3
    <3>4. Settable(plan[b][point[b]])' = Settable(plan[b][point[b]])
      BY <1>4 DEF Untouched
    <3> QED
      BY <1>4, <2>3, <3>2, <3>3, <3>4 DEF Alone, Untouched
  <2> QED
    BY <2>1, <2>2, <2>3
<1> QED
  BY <1>8, <1>9, <1>10 DEF IInv, Untouched

\* A value has been set.
LEMMA ContinueStep ==
  ASSUME IInv, NEW b \in DOMAIN plan, queue # <<>>, b = Head(queue),
         phase[b] = "read", Continue(b), plan' = plan, instance' = instance, held' = held,
         InPlace(b, point[b]), lost' = lost
  PROVE  IInv'
<1> USE DEF MaxTries
<1>1. ActionsType
  BY DEF IInv
<1>2. /\ Head(queue) \in DOMAIN plan /\ Tail(queue) \in Seq(DOMAIN plan)
      /\ Append(Tail(queue), b) \in Seq(DOMAIN plan)
  BY <1>1, QueueType DEF ActionsType
<1>3. /\ Len(plan[b]) \in Nat \ { 0 } /\ DOMAIN plan[b] = 1 .. Len(plan[b])
      /\ point[b] \in 1 .. Len(plan[b])
  BY <1>1 DEF ActionsType, PlanOK
<1>4. PlanOK'
  BY <1>1 DEF ActionsType, PlanOK
<1>5. DOMAIN held' = UNION { RegistersOf(a)' : a \in DOMAIN plan' }
  BY <1>1 DEF ActionsType, RegistersOf
<1>6. /\ phase \in [DOMAIN plan -> { "new", "write", "read", "finished", "failed" }]
      /\ point \in [DOMAIN plan -> Nat]
      /\ cnt \in [DOMAIN plan -> 0 .. 3] /\ lost \in [DOMAIN plan -> 0 .. 3]
  BY <1>1 DEF ActionsType
<1>7. \/ /\ point[b] = Len(plan[b])
         /\ phase' = [phase EXCEPT ![b] = "finished"] /\ queue' = Tail(queue)
         /\ point' = point /\ cnt' = cnt
      \/ /\ point[b] # Len(plan[b])
         /\ phase' = [phase EXCEPT ![b] = "write"] /\ queue' = Append(Tail(queue), b)
         /\ point' = [point EXCEPT ![b] = point[b] + 1] /\ cnt' = [cnt EXCEPT ![b] = 0]
  BY DEF Continue
<1>8. /\ phase' \in [DOMAIN plan -> { "new", "write", "read", "finished", "failed" }]
      /\ point' \in [DOMAIN plan -> Nat] /\ cnt' \in [DOMAIN plan -> 0 .. 3]
      /\ queue' \in Seq(DOMAIN plan)
      /\ point'[b] \in DOMAIN plan[b]
      /\ \/ phase'[b] = "finished" /\ point[b] = Len(plan[b])
            /\ cnt'[b] = cnt[b] /\ point'[b] = point[b]
         \/ phase'[b] = "write" /\ cnt'[b] = 0 /\ point'[b] = point[b] + 1
  <2>1. CASE point[b] = Len(plan[b])
    <3>1. /\ phase' = [phase EXCEPT ![b] = "finished"] /\ queue' = Tail(queue)
          /\ point' = point /\ cnt' = cnt
      BY <1>7, <2>1
    <3>2. /\ phase' \in [DOMAIN plan -> { "new", "write", "read", "finished", "failed" }]
          /\ phase'[b] = "finished"
      BY <1>6, <3>1
    <3> QED
      BY <1>2, <1>3, <1>6, <2>1, <3>1, <3>2
  <2>2. CASE point[b] # Len(plan[b])
    <3>1. /\ phase' = [phase EXCEPT ![b] = "write"] /\ queue' = Append(Tail(queue), b)
          /\ point' = [point EXCEPT ![b] = point[b] + 1] /\ cnt' = [cnt EXCEPT ![b] = 0]
      BY <1>7, <2>2
    <3>2. /\ phase' \in [DOMAIN plan -> { "new", "write", "read", "finished", "failed" }]
          /\ phase'[b] = "write"
      BY <1>6, <3>1
    <3>3. cnt' \in [DOMAIN plan -> 0 .. 3] /\ cnt'[b] = 0
      BY <1>6, <3>1
    <3>4. point' \in [DOMAIN plan -> Nat] /\ point'[b] = point[b] + 1
      BY <1>3, <1>6, <3>1
    <3>5. point'[b] \in DOMAIN plan[b]
      BY <1>3, <2>2, <3>4
    <3> QED
      BY <1>2, <3>1, <3>2, <3>3, <3>4, <3>5
  <2> QED
    BY <2>1, <2>2
<1>9. Untouched(b)
  BY <1>6, <1>7, <1>8 DEF Untouched
<1>10. \A a \in DOMAIN plan :
        /\ point'[a] \in DOMAIN plan[a]
        /\ phase'[a] \in { "new", "write", "read" } => cnt'[a] < 3
  <2> SUFFICES ASSUME NEW a \in DOMAIN plan
               PROVE  /\ point'[a] \in DOMAIN plan[a]
                      /\ phase'[a] \in { "new", "write", "read" } => cnt'[a] < 3
    OBVIOUS
  <2>1. CASE a = b
    BY <1>8, <2>1
  <2>2. CASE a # b
    <3>1. phase'[a] = phase[a] /\ point'[a] = point[a] /\ cnt'[a] = cnt[a]
      BY <1>9, <2>2 DEF Untouched
    <3> QED
      BY <1>1, <3>1 DEF ActionsType
  <2> QED
    BY <2>1, <2>2
<1>11. ActionsType'
  BY <1>1, <1>4, <1>5, <1>6, <1>8, <1>10 DEF ActionsType
<1>12. \A a \in DOMAIN plan : phase'[a] = "failed" => cnt'[a] = MaxTries
  BY <1>8, <1>9 DEF IInv, Untouched
<1>13. ASSUME NEW a \in DOMAIN plan PROVE (Shared(a) \/ Alone(a))'
  <2>1. CASE a # b
    BY <1>1, <1>9, <2>1, OthersStay DEF IInv
  <2>2. CASE a = b /\ Shared(a)
    BY <1>1, <1>9, <2>2, SharedStays DEF Untouched
  <2>3. CASE a = b /\ ~Shared(a)
    <3>1. Alone(b)
      BY <2>3 DEF IInv
    <3>2. \A i \in DOMAIN plan[b] : InPlace(b, i)' = InPlace(b, i)
      BY DEF InPlace
    <3>3. \A i \in DOMAIN plan[b] : i < point[b] \/ i = point[b] => InPlace(b, i)'
      BY <3>1, <3>2 DEF Alone
    <3>4. \A i \in DOMAIN plan[b] : i < point'[b] \/ phase'[b] = "finished" => InPlace(b, i)'
      BY <1>3, <1>8, <3>3
    <3>5. instance # "missing" /\ Settable(plan[b][point'[b]]) => cnt'[b] <= lost'[b]
      <4>1. lost[b] \in 0 .. 3
        BY <1>6
      <4>2. CASE cnt'[b] = 0
        BY <4>1, <4>2
      <4>3. CASE cnt'[b] = cnt[b] /\ point'[b] = point[b]
        BY <3>1, <4>3 DEF Alone
      <4> QED
        BY <1>8, <4>2, <4>3
    <3>6. Settable(plan[b][point[b]])' = Settable(plan[b][point'[b]])
      OBVIOUS
    <3> QED
      BY <1>8, <2>3, <3>4, <3>5, <3>6 DEF Alone
  <2> QED
    BY <2>1, <2>2, <2>3
<1> QED
  BY <1>11, <1>12, <1>13 DEF IInv

\* A value has been written, and the heat pump has said so.
LEMMA WrittenStep ==
  ASSUME IInv, NEW b \in DOMAIN plan, queue # <<>>, b = Head(queue), phase[b] = "write",
         phase' = [phase EXCEPT ![b] = "read"], queue' = Append(Tail(queue), b),
         point' = point, cnt' = cnt, lost' = lost, plan' = plan, instance' = instance,
         held' = [held EXCEPT ![plan[b][point[b]].reg] =
           Kept(WriteRegisterNow(SomeId, plan[b][point[b]].raw, SizeOf(plan[b][point[b]].reg)))]
  PROVE  IInv'
<1> USE DEF MaxTries
<1>1. ActionsType
  BY DEF IInv
<1>2. /\ Head(queue) \in DOMAIN plan /\ Tail(queue) \in Seq(DOMAIN plan)
      /\ Append(Tail(queue), b) \in Seq(DOMAIN plan)
  BY <1>1, QueueType DEF ActionsType
<1>3. PlanOK'
  BY <1>1 DEF ActionsType, PlanOK
<1>4. DOMAIN held' = UNION { RegistersOf(a)' : a \in DOMAIN plan' }
  BY <1>1 DEF ActionsType, RegistersOf
<1>5. phase \in [DOMAIN plan -> { "new", "write", "read", "finished", "failed" }]
  BY <1>1 DEF ActionsType
<1>6. /\ phase' \in [DOMAIN plan -> { "new", "write", "read", "finished", "failed" }]
      /\ phase'[b] = "read"
      /\ \A a \in DOMAIN plan \ { b } : phase'[a] = phase[a]
  BY <1>5
<1>7. Untouched(b)
  BY <1>6 DEF Untouched
<1>8. ActionsType'
  BY <1>1, <1>2, <1>3, <1>4, <1>6 DEF ActionsType
<1>9. \A a \in DOMAIN plan : phase'[a] = "failed" => cnt'[a] = MaxTries
  BY <1>6 DEF IInv
<1>10. ASSUME NEW a \in DOMAIN plan PROVE (Shared(a) \/ Alone(a))'
  <2>1. CASE a # b
    BY <1>1, <1>7, <2>1, OthersStay DEF IInv
  <2>2. CASE a = b /\ Shared(a)
    BY <1>1, <1>7, <2>2, SharedStays DEF Untouched
  <2>3. CASE a = b /\ ~Shared(a)
    <3>1. Alone(b)
      BY <2>3 DEF IInv
    <3>2. \A i \in DOMAIN plan[b] : i < point[b] => InPlace(b, i)'
      BY <1>1, <1>7, <3>1, EarlierStay
    <3>3. plan[b][point[b]].reg \in DOMAIN held
      BY <1>1 DEF ActionsType, RegistersOf
    <3>4. Written(b)'
      BY <3>3 DEF Written
    <3>5. Settable(plan[b][point[b]])' = Settable(plan[b][point[b]])
      OBVIOUS
    <3> QED
      BY <1>6, <2>3, <3>1, <3>2, <3>4, <3>5 DEF Alone
  <2> QED
    BY <2>1, <2>2, <2>3
<1> QED
  BY <1>8, <1>9, <1>10 DEF IInv

LEMMA RetryUntouched ==
  ASSUME ActionsType, NEW b \in DOMAIN plan, phase[b] \in { "write", "read" }, Retry(b),
         plan' = plan, instance' = instance, DOMAIN held' = DOMAIN held,
         \A r \in DOMAIN held : r # plan[b][point[b]].reg => held'[r] = held[r],
         \A c \in DOMAIN plan \ { b } : lost'[c] = lost[c]
  PROVE  Untouched(b)
<1>1. /\ point' = point /\ cnt' = [cnt EXCEPT ![b] = cnt[b] + 1]
      /\ \/ phase' = [phase EXCEPT ![b] = "write"]
         \/ phase' = [phase EXCEPT ![b] = "failed"]
  BY DEF Retry
<1>2. phase \in [DOMAIN plan -> { "new", "write", "read", "finished", "failed" }]
  BY DEF ActionsType
<1>3. cnt \in [DOMAIN plan -> 0 .. MaxTries]
  BY DEF ActionsType
<1>4. phase'[b] # "new" /\ \A c \in DOMAIN plan \ { b } : phase'[c] = phase[c]
  BY <1>1, <1>2
<1>5. \A c \in DOMAIN plan \ { b } : cnt'[c] = cnt[c]
  BY <1>1, <1>3
<1> QED
  BY <1>1, <1>4, <1>5 DEF Untouched

\* A poll serves the first access.
LEMMA ServeStep ==
  ASSUME IInv, queue # <<>>, NEW obeyed \in BOOLEAN, NEW answered \in BOOLEAN,
         Serve(obeyed, answered, instance # "missing"), instance' = instance
  PROVE  IInv'
<1> DEFINE b == Head(queue)
<1> DEFINE p == plan[b][point[b]]
<1>1. ActionsType
  BY DEF IInv
<1>2. b \in DOMAIN plan
  BY <1>1, QueueType DEF ActionsType
<1>3. /\ plan' = plan /\ phase[b] \in { "write", "read" }
      /\ lost' = [lost EXCEPT ![b] = IF answered \/ lost[b] = MaxTries THEN lost[b]
                                                                  ELSE lost[b] + 1]
  BY DEF Serve
<1>4. lost \in [DOMAIN plan -> 0 .. MaxTries]
  BY <1>1 DEF ActionsType
<1>5. /\ lost' \in [DOMAIN plan -> 0 .. MaxTries]
      /\ \A c \in DOMAIN plan \ { b } : lost'[c] = lost[c]
      /\ answered => lost' = lost
      /\ ~answered => lost'[b] = lost[b] + 1 \/ lost'[b] = MaxTries
  BY <1>2, <1>3, <1>4 DEF MaxTries
<1>6. CASE phase[b] = "write"
  <2>1. WriteNow(b, obeyed, answered)
    BY <1>6 DEF Serve
  <2>2. /\ answered => obeyed
        /\ held' = IF obeyed
                   THEN [held EXCEPT ![p.reg] =
                           Kept(WriteRegisterNow(SomeId, p.raw, SizeOf(p.reg)))]
                   ELSE held
    BY <2>1 DEF WriteNow
  <2>3. CASE answered
    <3>1. /\ phase' = [phase EXCEPT ![b] = "read"] /\ queue' = Append(Tail(queue), b)
          /\ point' = point /\ cnt' = cnt
      BY <2>1, <2>3 DEF WriteNow
    <3>2. held' = [held EXCEPT ![p.reg] =
                     Kept(WriteRegisterNow(SomeId, p.raw, SizeOf(p.reg)))]
      BY <2>2, <2>3
    <3> QED
      BY <1>2, <1>3, <1>5, <1>6, <2>3, <3>1, <3>2, WrittenStep
  <2>4. CASE ~answered
    <3>1. Retry(b)
      BY <2>1, <2>4 DEF WriteNow
    <3>2. /\ DOMAIN held' = DOMAIN held
          /\ \A r \in DOMAIN held : r # p.reg => held'[r] = held[r]
      BY <2>2
    <3>3. Untouched(b)
      BY <1>1, <1>2, <1>3, <1>5, <3>1, <3>2, RetryUntouched
    <3> QED
      BY <1>2, <1>3, <1>5, <2>4, <3>1, <3>3, RetryStep
  <2> QED
    BY <2>3, <2>4
<1>7. CASE phase[b] = "read"
  <2>1. ReadNow(b, answered /\ instance # "missing")
    BY <1>7 DEF Serve
  <2>2. held' = held
    BY <2>1 DEF ReadNow
  <2> DEFINE good == answered /\ instance # "missing" /\ InPlace(b, point[b])
  <2>3. CASE good
    <3>1. Continue(b)
      BY <2>1, <2>3 DEF ReadNow, InPlace
    <3> QED
      BY <1>2, <1>3, <1>5, <1>7, <2>2, <2>3, <3>1, ContinueStep
  <2>4. CASE ~good
    <3>1. Retry(b)
      BY <2>1, <2>4 DEF ReadNow, InPlace
    <3>2. Untouched(b)
      BY <1>1, <1>2, <1>3, <1>5, <2>2, <3>1, RetryUntouched
    <3>3. Shared(b) \/ Written(b)
      BY <1>2, <1>7 DEF IInv, Alone
    <3>4. answered => Shared(b) \/ instance = "missing" \/ ~Settable(p)
      BY <2>4, <3>3 DEF Written, InPlace, Settable
    <3> QED
      BY <1>2, <1>3, <1>5, <3>1, <3>2, <3>4, RetryStep
  <2> QED
    BY <2>3, <2>4
<1> QED
  BY <1>3, <1>6, <1>7

\* An action is executed.
LEMMA ExecuteStep ==
  ASSUME IInv, NEW b \in DOMAIN plan, Execute(b), instance' = instance
  PROVE  IInv'
<1>1. ActionsType
  BY DEF IInv
<1>2. /\ phase[b] = "new" /\ phase' = [phase EXCEPT ![b] = "write"]
      /\ queue' = Append(queue, b)
      /\ plan' = plan /\ point' = point /\ cnt' = cnt /\ held' = held /\ lost' = lost
  BY DEF Execute
<1>3. phase \in [DOMAIN plan -> { "new", "write", "read", "finished", "failed" }]
  BY <1>1 DEF ActionsType
<1>4. /\ phase' \in [DOMAIN plan -> { "new", "write", "read", "finished", "failed" }]
      /\ phase'[b] = "write" /\ \A a \in DOMAIN plan \ { b } : phase'[a] = phase[a]
  BY <1>2, <1>3
<1>5. queue' \in Seq(DOMAIN plan)
  BY <1>1, <1>2 DEF ActionsType
<1>6. PlanOK'
  BY <1>1, <1>2 DEF ActionsType, PlanOK
<1>7. DOMAIN held' = UNION { RegistersOf(a)' : a \in DOMAIN plan' }
  BY <1>1, <1>2 DEF ActionsType, RegistersOf
<1>8. \A a \in DOMAIN plan : point[a] \in DOMAIN plan[a]
        /\ (phase'[a] \in { "new", "write", "read" } => cnt[a] < MaxTries)
  BY <1>1, <1>2, <1>4 DEF ActionsType
<1>9. ActionsType'
  BY <1>1, <1>2, <1>4, <1>5, <1>6, <1>7, <1>8 DEF ActionsType
<1>10. \A a \in DOMAIN plan : phase'[a] = "failed" => cnt'[a] = MaxTries
  BY <1>2, <1>4 DEF IInv
<1>11. ASSUME NEW a \in DOMAIN plan PROVE (Shared(a) \/ Alone(a))'
  <2>1. CASE Shared(a)
    BY <1>1, <1>2, <1>4, <2>1, SharedStays
  <2>2. CASE Alone(a)
    <3>1. \A i \in DOMAIN plan[a] : InPlace(a, i)' = InPlace(a, i)
      BY <1>2 DEF InPlace
    <3>2. Written(a)' = Written(a)
      BY <1>2 DEF Written
    <3>3. Settable(plan[a][point[a]])' = Settable(plan[a][point[a]])
      BY <1>2
    <3>4. phase'[a] = phase[a] \/ phase'[a] = "write"
      BY <1>4
    <3> QED
      BY <1>2, <2>2, <3>1, <3>2, <3>3, <3>4 DEF Alone
  <2> QED
    BY <2>1, <2>2 DEF IInv
<1> QED
  BY <1>2, <1>9, <1>10, <1>11 DEF IInv

-----------------------------------------------------------------------------
(* The theorem                                                              *)

LEMMA InitIInv == Init => IInv
<1> SUFFICES ASSUME Init PROVE IInv
  OBVIOUS
<1>1. PICK s \in Scenarios : plan = s.plan
  BY DEF Init
<1>2. PlanOK
  BY <1>1, ServerAssumption DEF PlanOK
<1>3. /\ phase = [a \in DOMAIN plan |-> "new"] /\ point = [a \in DOMAIN plan |-> 1]
      /\ cnt = [a \in DOMAIN plan |-> 0] /\ lost = [a \in DOMAIN plan |-> 0]
      /\ queue = <<>>
      /\ DOMAIN held = UNION { RegistersOf(a) : a \in DOMAIN plan }
  BY DEF Init, ActionsInit
<1>4. \A a \in DOMAIN plan : 1 \in DOMAIN plan[a]
  BY <1>2 DEF PlanOK
<1>5. ActionsType
  BY <1>2, <1>3, <1>4 DEF ActionsType, MaxTries
<1>6. \A a \in DOMAIN plan : Alone(a)
  BY <1>2, <1>3 DEF Alone, PlanOK
<1> QED
  BY <1>3, <1>5, <1>6 DEF IInv

LEMMA StutterStep ==
  ASSUME IInv, UNCHANGED actions, instance' = instance
  PROVE  IInv'
<1>1. /\ plan' = plan /\ phase' = phase /\ point' = point /\ cnt' = cnt
      /\ queue' = queue /\ held' = held /\ lost' = lost
  BY DEF actions
<1>2. ActionsType'
  BY <1>1 DEF IInv, ActionsType, PlanOK, RegistersOf
<1>3. \A a \in DOMAIN plan : Shared(a)' = Shared(a)
  BY <1>1 DEF Shared, RegistersOf
<1>4. \A a \in DOMAIN plan : Alone(a)' = Alone(a)
  BY <1>1 DEF Alone, InPlace, Written
<1> QED
  BY <1>1, <1>2, <1>3, <1>4 DEF IInv

LEMMA NextIInv == IInv /\ [Next]_vars => IInv'
<1> SUFFICES ASSUME IInv, [Next]_vars PROVE IInv'
  OBVIOUS
<1>1. CASE PollServes
  BY <1>1, ServeStep DEF PollServes
<1>2. CASE Executed
  BY <1>2, ExecuteStep DEF Executed
<1>3. CASE PollReads \/ Timer \/ Appended \/ UNCHANGED vars
  <2>1. UNCHANGED actions /\ instance' = instance
    BY <1>3 DEF PollReads, Timer, Appended, vars
  <2> QED
    BY <2>1, StutterStep
<1> QED
  BY <1>1, <1>2, <1>3 DEF Next

\* What an action tells its caller is true, for any actions and values, in any order of
\* polls and losses: a finished action has set every register, one that has thrown lost
\* three accesses or asked for what the register cannot show (execute(),
\* handlePolling()).
THEOREM OutcomeIsRight == Spec => []OutcomeRight
<1>1. IInv => OutcomeRight
  <2> SUFFICES ASSUME IInv, NEW a \in DOMAIN plan
               PROVE  /\ phase[a] = "finished" /\ ~Shared(a) =>
                           \A i \in DOMAIN plan[a] : InPlace(a, i)
                      /\ phase[a] = "failed" =>
                           \/ lost[a] = MaxTries \/ Shared(a) \/ instance = "missing"
                           \/ ~Settable(plan[a][point[a]])
    BY DEF OutcomeRight, InPlace
  <2>1. phase[a] = "finished" /\ ~Shared(a) => \A i \in DOMAIN plan[a] : InPlace(a, i)
    BY DEF IInv, Alone
  <2>2. phase[a] = "failed" /\ Alone(a) =>
          \/ lost[a] = MaxTries \/ instance = "missing" \/ ~Settable(plan[a][point[a]])
    <3>1. lost[a] \in 0 .. 3
      BY DEF IInv, ActionsType, MaxTries
    <3> QED
      BY <3>1 DEF IInv, Alone, MaxTries
  <2> QED
    BY <2>1, <2>2 DEF IInv
<1> QED
  BY <1>1, InitIInv, NextIInv, PTL DEF Spec

-----------------------------------------------------------------------------
(* The file of the statistics *)

JoinTrace(it, f, s) ==
  \A u \in SUBSET DOMAIN s :
    it[u] = IF u = {} THEN f ELSE it[u \ {Max(u)}] \o s[Max(u)]

LEMMA JoinHasTrace ==
  ASSUME NEW f \in Seq(Nat), NEW s \in Seq(Seq(Nat))
  PROVE  \E it : JoinTrace(it, f, s) /\ Joined(f, s) = it[DOMAIN s]
<1> DEFINE Eq(it) == it = [u \in SUBSET DOMAIN s |->
                            IF u = {} THEN f ELSE it[u \ {Max(u)}] \o s[Max(u)]]
<1>1. Joined(f, s) = (CHOOSE it : Eq(it))[DOMAIN s]
  BY DEF Joined, FoldLeft, MapThenFoldSet
<1>2. \E it : Eq(it)
  <2> DEFINE T == Seq(Nat)
             g == [p \in T \X T |-> p[1] \o p[2]]
  <2>1. g \in [T \X T -> T]
    OBVIOUS
  <2>2. f \in T /\ s \in Seq(T)
    OBVIOUS
  <2>3. \A a, b \in T : g[<< a, b >>] = a \o b
    OBVIOUS
  <2> HIDE DEF T, g
  <2>4. PICK n \in Nat : s \in [1 .. n -> T] /\ DOMAIN s = 1 .. n
    BY <2>2
  <2>5. PICK h : TraceOf(h, T, g, f, n, s)
    BY <2>1, <2>2, <2>4, TraceExists
  <2>6. ASSUME NEW u \in SUBSET (1 .. n)
        PROVE  h[u] = IF u = {} THEN f ELSE h[u \ {Max(u)}] \o s[Max(u)]
    <3>1. CASE u = {}
      BY <2>5, <3>1 DEF TraceOf
    <3>2. CASE u # {}
      <4>1. u \ {Max(u)} \in SUBSET (1 .. n) /\ Max(u) \in 1 .. n
        BY <2>5, <3>2 DEF TraceOf
      <4>2. h[u \ {Max(u)}] \in T /\ s[Max(u)] \in T
        BY <2>4, <2>5, <4>1 DEF TraceOf
      <4>3. h[u] = g[<< h[u \ {Max(u)}], s[Max(u)] >>]
        BY <2>5, <3>2 DEF TraceOf
      <4>4. QED
        BY <2>3, <3>2, <4>2, <4>3
    <3>3. QED
      BY <3>1, <3>2
  <2>7. Eq(h)
    BY <2>4, <2>5, <2>6 DEF TraceOf
  <2>8. QED
    BY <2>7
<1> DEFINE result == CHOOSE it : Eq(it)
<1>3. Eq(result)
  <2> HIDE DEF Eq
  <2>1. QED
    BY <1>2
<1> HIDE DEF result
<1>4. JoinTrace(result, f, s)
  BY <1>3 DEF JoinTrace
<1>5. QED
  BY <1>1, <1>4 DEF result

LEMMA JoinedNone == ASSUME NEW f \in Seq(Nat) PROVE Joined(f, <<>>) = f
<1>1. <<>> \in Seq(Seq(Nat)) /\ DOMAIN <<>> = {}
  OBVIOUS
<1>2. PICK it : JoinTrace(it, f, <<>>) /\ Joined(f, <<>>) = it[DOMAIN <<>>]
  BY <1>1, JoinHasTrace
<1>3. QED
  BY <1>1, <1>2 DEF JoinTrace

LEMMA JoinTraceStep ==
  \A it, f, s : JoinTrace(it, f, s) =>
    \A m \in Nat : 1 .. m + 1 \in SUBSET DOMAIN s =>
      it[1 .. m + 1] = it[1 .. m] \o s[m + 1]
BY Segment, Zenon DEF JoinTrace

\* The last append is joined last.
LEMMA JoinedAppend ==
  ASSUME NEW f \in Seq(Nat), NEW s \in Seq(Seq(Nat)), NEW a \in Seq(Nat)
  PROVE  Joined(f, Append(s, a)) = Joined(f, s) \o a
<1> DEFINE t == Append(s, a)
<1>1. PICK n \in Nat : n = Len(s) /\ DOMAIN s = 1 .. n /\ DOMAIN t = 1 .. n + 1
  OBVIOUS
<1>2. /\ t \in Seq(Seq(Nat)) /\ t[n + 1] = a
      /\ \A m \in 1 .. n : t[m] = s[m]
  BY <1>1
<1> HIDE DEF t
<1>3. PICK g : JoinTrace(g, f, s) /\ Joined(f, s) = g[1 .. n]
  BY <1>1, JoinHasTrace
<1>4. PICK h : JoinTrace(h, f, t) /\ Joined(f, t) = h[1 .. n + 1]
  BY <1>1, <1>2, JoinHasTrace
<1>5. ASSUME NEW m \in Nat, m + 1 <= n
      PROVE  g[1 .. m + 1] = g[1 .. m] \o s[m + 1]
  <2>1. 1 .. m + 1 \in SUBSET DOMAIN s
    BY <1>1, <1>5
  <2>2. QED
    BY <1>3, <2>1, JoinTraceStep, Zenon
<1>6. ASSUME NEW m \in Nat, m <= n
      PROVE  h[1 .. m + 1] = h[1 .. m] \o t[m + 1]
  <2>1. 1 .. m + 1 \in SUBSET DOMAIN t
    BY <1>1, <1>6
  <2>2. QED
    BY <1>4, <2>1, JoinTraceStep, Zenon
<1> DEFINE S == { m \in Nat : m <= n => g[1 .. m] = h[1 .. m] }
<1>7. 0 \in S
  <2>1. 1 .. 0 = {} /\ {} \in SUBSET DOMAIN s /\ {} \in SUBSET DOMAIN t
    OBVIOUS
  <2>2. QED
    BY <1>3, <1>4, <2>1 DEF JoinTrace
<1>8. ASSUME NEW m \in S PROVE m + 1 \in S
  <2>1. ASSUME m + 1 <= n PROVE g[1 .. m + 1] = h[1 .. m + 1]
    <3>1. m <= n /\ g[1 .. m] = h[1 .. m] /\ m + 1 \in 1 .. n
      BY <2>1
    <3>2. t[m + 1] = s[m + 1]
      BY <1>2, <3>1
    <3>3. QED
      BY <1>5, <1>6, <2>1, <3>1, <3>2, Zenon
  <2>2. QED
    BY <2>1
<1>9. n \in S
  <2>1. S \subseteq Nat
    OBVIOUS
  <2> HIDE DEF S
  <2>2. QED
    BY <1>7, <1>8, <2>1, Natural
<1>10. g[1 .. n] = h[1 .. n]
  BY <1>9
<1> HIDE DEF S
<1>11. Joined(f, t) = Joined(f, s) \o a
  <2>1. n <= n
    OBVIOUS
  <2>2. QED
    BY <1>2, <1>3, <1>4, <1>6, <1>10, <2>1, Zenon
<1>12. QED
  BY <1>11 DEF t

\* What is appended: the line of a slot, with a header before it or without.
Piece == { << k >> : k \in Nat \ { 0 } } \cup { << HeaderLine, k >> : k \in Nat \ { 0 } }
NumberIn(a) == a[Len(a)]

NoneTwice(t) == \A i, j \in DOMAIN t : i # j /\ t[i] = t[j] => t[i] = HeaderLine

\* The lines that are appended are different ones, and the file holds none of them.
Fresh(f, s) ==
  /\ NoneTwice(f)
  /\ \A i, j \in DOMAIN s : NumberIn(s[i]) = NumberIn(s[j]) => i = j
  /\ \A i \in DOMAIN s, j \in DOMAIN f : f[j] # NumberIn(s[i])

LEMMA PieceType ==
  \A a \in Piece :
    /\ a \in Seq(Nat) /\ Len(a) \in 1 .. 2 /\ NumberIn(a) \in Nat \ { 0 }
    /\ Len(a) = 2 => a[1] = HeaderLine
<1>1. ASSUME NEW k \in Nat \ { 0 }
      PROVE  /\ << k >> \in Seq(Nat) /\ Len(<< k >>) = 1 /\ NumberIn(<< k >>) = k
             /\ << HeaderLine, k >> \in Seq(Nat) /\ Len(<< HeaderLine, k >>) = 2
             /\ NumberIn(<< HeaderLine, k >>) = k /\ << HeaderLine, k >>[1] = HeaderLine
  BY DEF NumberIn, HeaderLine
<1>2. ASSUME NEW a \in Piece
      PROVE  \E k \in Nat \ { 0 } : a = << k >> \/ a = << HeaderLine, k >>
  BY Zenon DEF Piece
<1>3. ASSUME NEW a \in Piece
      PROVE  /\ a \in Seq(Nat) /\ Len(a) \in 1 .. 2 /\ NumberIn(a) \in Nat \ { 0 }
             /\ Len(a) = 2 => a[1] = HeaderLine
  <2>1. PICK k \in Nat \ { 0 } : a = << k >> \/ a = << HeaderLine, k >>
    BY <1>2
  <2>2. 1 \in 1 .. 2 /\ 2 \in 1 .. 2 /\ 1 # 2
    OBVIOUS
  <2>3. QED
    BY <1>1, <2>1, <2>2, Zenon
<1>4. QED
  BY <1>3

\* A text with one more piece.
LEMMA JoinOne ==
  ASSUME NEW f \in Seq(Nat), NoneTwice(f), NEW a \in Piece,
         \A j \in DOMAIN f : f[j] # NumberIn(a)
  PROVE  /\ f \o a \in Seq(Nat) /\ NoneTwice(f \o a)
         /\ \A j \in DOMAIN (f \o a) :
              (f \o a)[j] \in { HeaderLine, NumberIn(a) } \cup { f[i] : i \in DOMAIN f }
<1> DEFINE t == f \o a
<1>1. /\ a \in Seq(Nat) /\ Len(a) \in 1 .. 2 /\ NumberIn(a) \in Nat \ { 0 }
      /\ Len(a) = 2 => a[1] = HeaderLine
  BY PieceType
<1>2. PICK n \in Nat : n = Len(f) /\ DOMAIN f = 1 .. n
  OBVIOUS
<1>3. PICK m \in 1 .. 2 : m = Len(a)
  BY <1>1
<1>4. /\ t \in Seq(Nat) /\ Len(t) = n + m
      /\ \A j \in 1 .. n + m : t[j] = IF j <= n THEN f[j] ELSE a[j - n]
  BY <1>1, <1>2, <1>3, ConcatProperties
<1> HIDE DEF t
<1>5. DOMAIN t = 1 .. n + m
  BY <1>4
<1>6. \A j \in 1 .. n + m :
        /\ j <= n => t[j] = f[j] /\ j \in DOMAIN f
        /\ j > n /\ j < n + m => t[j] = HeaderLine
        /\ j = n + m => t[j] = NumberIn(a)
  <2> SUFFICES ASSUME NEW j \in 1 .. n + m
               PROVE  /\ j <= n => t[j] = f[j] /\ j \in DOMAIN f
                      /\ j > n /\ j < n + m => t[j] = HeaderLine
                      /\ j = n + m => t[j] = NumberIn(a)
    OBVIOUS
  <2>1. j <= n => t[j] = f[j] /\ j \in DOMAIN f
    BY <1>2, <1>4
  <2>2. j > n /\ j < n + m => m = 2 /\ j - n = 1
    OBVIOUS
  <2>3. j > n => t[j] = a[j - n]
    BY <1>4
  <2>4. j = n + m => j - n = m /\ j > n
    OBVIOUS
  <2>5. QED
    BY <1>1, <1>3, <2>1, <2>2, <2>3, <2>4 DEF NumberIn
<1>7. ASSUME NEW i \in 1 .. n + m, NEW j \in 1 .. n + m, i < j, t[i] = t[j]
      PROVE  t[i] = HeaderLine
  <2>1. CASE j <= n
    BY <1>2, <1>6, <1>7, <2>1 DEF NoneTwice
  <2>2. CASE j > n /\ j < n + m
    BY <1>6, <1>7, <2>2
  <2>3. CASE j = n + m
    <3>1. i <= n \/ (i > n /\ i < n + m)
      BY <1>7, <2>3
    <3>2. ~(i <= n)
      BY <1>6, <1>7, <2>3
    <3>3. QED
      BY <1>6, <3>1, <3>2
  <2>4. QED
    BY <2>1, <2>2, <2>3
<1>8. NoneTwice(t)
  <2>1. ASSUME NEW i \in 1 .. n + m, NEW j \in 1 .. n + m, i # j, t[i] = t[j]
        PROVE  t[i] = HeaderLine
    BY <1>7, <2>1
  <2>2. QED
    BY <1>5, <2>1 DEF NoneTwice
<1>9. \A j \in DOMAIN t : t[j] \in { HeaderLine, NumberIn(a) } \cup { f[i] : i \in DOMAIN f }
  <2> SUFFICES ASSUME NEW j \in 1 .. n + m
               PROVE  t[j] \in { HeaderLine, NumberIn(a) } \cup { f[i] : i \in DOMAIN f }
    BY <1>5
  <2>1. j <= n \/ (j > n /\ j < n + m) \/ j = n + m
    OBVIOUS
  <2>2. QED
    BY <1>6, <2>1
<1>10. QED
  BY <1>4, <1>8, <1>9 DEF t

LEMMA JoinedFresh ==
  ASSUME NEW f \in Seq(Nat)
  PROVE  \A s \in Seq(Piece) :
           Fresh(f, s) =>
             /\ Joined(f, s) \in Seq(Nat) /\ NoneTwice(Joined(f, s))
             /\ \A j \in DOMAIN Joined(f, s) :
                  Joined(f, s)[j] \in { HeaderLine } \cup { f[i] : i \in DOMAIN f }
                                                     \cup { NumberIn(s[i]) : i \in DOMAIN s }
<1> DEFINE Has(s) == { HeaderLine } \cup { f[i] : i \in DOMAIN f }
                                    \cup { NumberIn(s[i]) : i \in DOMAIN s }
           Right(s) == /\ Joined(f, s) \in Seq(Nat) /\ NoneTwice(Joined(f, s))
                       /\ \A j \in DOMAIN Joined(f, s) : Joined(f, s)[j] \in Has(s)
           P == { s \in Seq(Piece) : Fresh(f, s) => Right(s) }
<1>1. <<>> \in P
  BY JoinedNone DEF Fresh
<1>2. ASSUME NEW s \in P, NEW a \in Piece, Fresh(f, Append(s, a)) PROVE Right(Append(s, a))
  <2> DEFINE t == Append(s, a)
  <2>1. s \in Seq(Piece)
    OBVIOUS
  <2>2. Fresh(f, s) => Right(s)
    OBVIOUS
  <2> HIDE DEF P
  <2>3. PICK n \in Nat : n = Len(s) /\ DOMAIN s = 1 .. n /\ DOMAIN t = 1 .. n + 1
    BY <2>1
  <2>4. t[n + 1] = a /\ \A i \in 1 .. n : t[i] = s[i]
    BY <2>1, <2>3
  <2>5. s \in Seq(Seq(Nat)) /\ a \in Seq(Nat) /\ NumberIn(a) # HeaderLine
    <3>1. Piece \subseteq Seq(Nat)
      BY PieceType
    <3>2. QED
      BY <2>1, <3>1, PieceType DEF HeaderLine
  <2>6. Joined(f, t) = Joined(f, s) \o a
    BY <2>5, JoinedAppend
  <2>7. Fresh(f, t)
    BY <1>2
  <2> HIDE DEF t
  <2>8. Fresh(f, s)
    <3>1. \A i \in 1 .. n : i \in DOMAIN t /\ t[i] = s[i]
      BY <2>3, <2>4
    <3>2. QED
      BY <2>3, <2>7, <3>1 DEF Fresh
  <2>9. Right(s)
    BY <2>2, <2>8
  <2>10. /\ \A i \in 1 .. n : NumberIn(s[i]) # NumberIn(a)
        /\ \A j \in DOMAIN f : f[j] # NumberIn(a)
    <3>1. n + 1 \in DOMAIN t /\ \A i \in 1 .. n : i \in DOMAIN t /\ i # n + 1
      BY <2>3
    <3>2. QED
      BY <2>3, <2>4, <2>7, <3>1 DEF Fresh
  <2> DEFINE text == Joined(f, s)
  <2>11. text \in Seq(Nat) /\ NoneTwice(text) /\ \A j \in DOMAIN text : text[j] \in Has(s)
    BY <2>9
  <2>12. NumberIn(a) \notin Has(s)
    BY <2>3, <2>5, <2>10
  <2> HIDE DEF text, Has
  <2>13. \A j \in DOMAIN text : text[j] # NumberIn(a)
    BY <2>11, <2>12
  <2>14. /\ text \o a \in Seq(Nat) /\ NoneTwice(text \o a)
         /\ \A j \in DOMAIN (text \o a) :
              (text \o a)[j] \in { HeaderLine, NumberIn(a) } \cup { text[i] : i \in DOMAIN text }
    BY <2>11, <2>13, JoinOne
  <2>15. { HeaderLine, NumberIn(a) } \subseteq Has(t) /\ Has(s) \subseteq Has(t)
    <3>1. n + 1 \in DOMAIN t /\ \A i \in 1 .. n : i \in DOMAIN t
      BY <2>3
    <3>2. QED
      BY <2>3, <2>4, <3>1 DEF Has
  <2>16. \A j \in DOMAIN (text \o a) : (text \o a)[j] \in Has(t)
    BY <2>11, <2>14, <2>15
  <2>17. Right(t)
    BY <2>6, <2>14, <2>16 DEF text
  <2>18. QED
    BY <2>17 DEF t
<1>3. \A s \in P, a \in Piece : Append(s, a) \in P
  <2> HIDE DEF Right
  <2>1. QED
    BY <1>2
<1>4. P = Seq(Piece)
  <2>1. P \subseteq Seq(Piece)
    OBVIOUS
  <2> HIDE DEF P
  <2>2. QED
    BY <1>1, <1>3, <2>1, Sequences
<1>5. QED
  BY <1>4

-----------------------------------------------------------------------------
(* The invariant of the file *)

WholeUpTo(n) ==
  IF n = 1 THEN <<>> ELSE << HeaderLine >> \o [i \in 1 .. n - 1 |-> i]

\* The lines on their way and in the file are those of earlier slots, no two the same;
\* and without an overlap the file is whole once the one append has ended.
FileInv ==
  /\ lines = <<>> /\ slot \in Nat \ { 0 } /\ overlapped \in BOOLEAN
  /\ file \in Seq(Nat) /\ \A j \in DOMAIN file : file[j] < slot
  /\ appends \in Seq(Piece) /\ \A i \in DOMAIN appends : NumberIn(appends[i]) < slot
  /\ Fresh(file, appends)
  /\ ~overlapped => Len(appends) <= 1 /\ Joined(file, appends) = WholeUpTo(slot)

LEMMA FileInvUse == FileInv => FileIsRight
<1> SUFFICES ASSUME FileInv PROVE FileIsRight
  OBVIOUS
<1>1. NoneTwice(Joined(file, appends))
  BY JoinedFresh DEF FileInv
<1>2. QED
  BY <1>1, Zenon DEF FileInv, FileIsRight, NoneTwice, WholeUpTo

LEMMA PieceOf ==
  ASSUME NEW k \in Nat \ { 0 }
  PROVE  /\ << k >> \in Piece /\ NumberIn(<< k >>) = k
         /\ << HeaderLine, k >> \in Piece /\ NumberIn(<< HeaderLine, k >>) = k
BY DEF Piece, NumberIn

\* The line of the slot makes a whole file of a whole file.
LEMMA NextWhole ==
  ASSUME NEW n \in Nat \ { 0 }
  PROVE  /\ WholeUpTo(n) = <<>> => n = 1
         /\ WholeUpTo(1) = <<>> /\ <<>> \o << HeaderLine, 1 >> = WholeUpTo(2)
         /\ n # 1 => WholeUpTo(n) \o << n >> = WholeUpTo(n + 1)
<1> DEFINE Up(m) == [i \in 1 .. m - 1 |-> i]
           Both(m) == << HeaderLine >> \o Up(m)
<1>1. ASSUME NEW m \in Nat \ { 0, 1 }
      PROVE  /\ Both(m) \in Seq(Nat) /\ Len(Both(m)) = m
             /\ \A i \in 1 .. m : Both(m)[i] = i - 1
  <2>1. Up(m) \in Seq(Nat) /\ Len(Up(m)) = m - 1 /\ \A i \in 1 .. m - 1 : Up(m)[i] = i
    OBVIOUS
  <2>2. << HeaderLine >> \in Seq(Nat) /\ Len(<< HeaderLine >>) = 1 /\ << HeaderLine >>[1] = 0
    BY DEF HeaderLine
  <2> DEFINE h == << HeaderLine >>
  <2> HIDE DEF Up, h
  <2>3. /\ h \o Up(m) \in Seq(Nat) /\ Len(h \o Up(m)) = m
        /\ \A i \in 1 .. m : (h \o Up(m))[i] = IF i <= 1 THEN h[i] ELSE Up(m)[i - 1]
    BY <2>1, <2>2, ConcatProperties DEF h
  <2>4. ASSUME NEW i \in 1 .. m PROVE (h \o Up(m))[i] = i - 1
    <3>1. CASE i = 1
      BY <2>2, <2>3, <3>1 DEF h
    <3>2. CASE i # 1
      BY <2>1, <2>3, <3>2
    <3>3. QED
      BY <3>1, <3>2
  <2>5. QED
    BY <2>3, <2>4 DEF h
<1>2. \A m \in Nat \ { 0, 1 } : WholeUpTo(m) = Both(m)
  BY DEF WholeUpTo
<1>3. WholeUpTo(1) = <<>>
  BY DEF WholeUpTo
<1> HIDE DEF Both
<1>4. n # 1 => Len(WholeUpTo(n)) = n /\ WholeUpTo(n) # <<>>
  BY <1>1, <1>2
<1>5. <<>> \o << HeaderLine, 1 >> = WholeUpTo(2)
  <2>1. /\ << HeaderLine, 1 >> \in Seq(Nat) /\ Len(<< HeaderLine, 1 >>) = 2
        /\ << HeaderLine, 1 >>[1] = 0 /\ << HeaderLine, 1 >>[2] = 1
        /\ <<>> \o << HeaderLine, 1 >> = << HeaderLine, 1 >>
    BY DEF HeaderLine
  <2> DEFINE h == << HeaderLine, 1 >>
  <2> HIDE DEF h
  <2>2. /\ WholeUpTo(2) \in Seq(Nat) /\ Len(WholeUpTo(2)) = 2
        /\ WholeUpTo(2)[1] = 0 /\ WholeUpTo(2)[2] = 1
    <3>1. 2 \in Nat \ { 0, 1 } /\ 1 \in 1 .. 2 /\ 2 \in 1 .. 2 /\ 1 - 1 = 0 /\ 2 - 1 = 1
      OBVIOUS
    <3>2. Both(2) \in Seq(Nat) /\ Len(Both(2)) = 2 /\ \A i \in 1 .. 2 : Both(2)[i] = i - 1
      BY <1>1, <3>1
    <3>3. WholeUpTo(2) = Both(2)
      BY <1>2, <3>1
    <3>4. QED
      BY <3>1, <3>2, <3>3
  <2>3. \A i \in 1 .. 2 : h[i] = WholeUpTo(2)[i]
    <3>1. \A i \in 1 .. 2 : i = 1 \/ i = 2
      OBVIOUS
    <3>2. QED
      BY <2>1, <2>2, <3>1 DEF h
  <2>4. h = WholeUpTo(2)
    BY <2>1, <2>2, <2>3, SeqEqual DEF h
  <2>5. QED
    BY <2>1, <2>4 DEF h
<1>6. ASSUME n # 1 PROVE WholeUpTo(n) \o << n >> = WholeUpTo(n + 1)
  <2> DEFINE w == WholeUpTo(n)
             v == WholeUpTo(n + 1)
             one == << n >>
  <2>1. w \in Seq(Nat) /\ Len(w) = n /\ \A i \in 1 .. n : w[i] = i - 1
    BY <1>1, <1>2, <1>6
  <2>2. v \in Seq(Nat) /\ Len(v) = n + 1 /\ \A i \in 1 .. n + 1 : v[i] = i - 1
    <3>1. n + 1 \in Nat \ { 0, 1 }
      OBVIOUS
    <3>2. QED
      BY <1>1, <1>2, <3>1
  <2>3. one \in Seq(Nat) /\ Len(one) = 1 /\ one[1] = n
    OBVIOUS
  <2> HIDE DEF w, v, one
  <2>4. /\ w \o one \in Seq(Nat) /\ Len(w \o one) = n + 1
        /\ \A i \in 1 .. n + 1 : (w \o one)[i] = IF i <= n THEN w[i] ELSE one[i - n]
    <3>1. /\ w \o one \in Seq(Nat) /\ Len(w \o one) = Len(w) + Len(one)
          /\ \A i \in 1 .. Len(w) + Len(one) :
               (w \o one)[i] = IF i <= Len(w) THEN w[i] ELSE one[i - Len(w)]
      BY <2>1, <2>3, ConcatProperties
    <3>2. QED
      BY <2>1, <2>3, <3>1
  <2>5. ASSUME NEW i \in 1 .. n + 1 PROVE (w \o one)[i] = v[i]
    <3>1. CASE i <= n
      BY <2>1, <2>2, <2>4, <3>1
    <3>2. CASE i = n + 1
      <4>1. ~(i <= n) /\ i - n = 1 /\ i - 1 = n
        BY <3>2
      <4>2. QED
        BY <2>2, <2>3, <2>4, <4>1
    <3>3. i <= n \/ i = n + 1
      OBVIOUS
    <3>4. QED
      BY <3>1, <3>2, <3>3
  <2>6. w \o one = v
    BY <2>2, <2>4, <2>5, SeqEqual
  <2>7. QED
    BY <2>6 DEF w, v, one
<1>7. QED
  BY <1>3, <1>4, <1>5, <1>6

LEMMA FileInit == StatisticsInit => FileInv
<1> SUFFICES ASSUME StatisticsInit PROVE FileInv
  OBVIOUS
<1>1. /\ slot = 1 /\ lines = <<>> /\ appends = <<>> /\ file = <<>> /\ overlapped = FALSE
  BY DEF StatisticsInit
<1>2. file \in Seq(Nat) /\ appends \in Seq(Piece) /\ Len(appends) = 0
  BY <1>1
<1>3. DOMAIN file = {} /\ DOMAIN appends = {}
  BY <1>1
<1>4. Joined(file, appends) = WholeUpTo(slot)
  <2>1. Joined(file, <<>>) = file /\ WholeUpTo(1) = <<>>
    BY <1>2, JoinedNone DEF WholeUpTo
  <2>2. QED
    BY <1>1, <2>1
<1>5. QED
  <2>1. Fresh(file, appends)
    BY <1>3, Zenon DEF Fresh, NoneTwice
  <2>2. /\ slot \in Nat \ { 0 } /\ overlapped \in BOOLEAN /\ Len(appends) <= 1
    <3>1. 1 \in Nat \ { 0 } /\ 0 <= 1
      OBVIOUS
    <3>2. overlapped \in BOOLEAN
      BY <1>1, Zenon
    <3>3. QED
      BY <1>1, <1>2, <3>1, <3>2, Zenon
  <2>3. /\ \A j \in DOMAIN file : file[j] < slot
        /\ \A i \in DOMAIN appends : NumberIn(appends[i]) < slot
    BY <1>3, Zenon
  <2>4. QED
    BY <1>1, <1>2, <1>4, <2>1, <2>2, <2>3, Zenon DEF FileInv

\* A new append carries the line of a slot that has none yet.
LEMMA OneMore ==
  ASSUME FileInv, NEW a \in Piece, NumberIn(a) = slot,
         appends' = Append(appends, a), slot' = slot + 1, file' = file, lines' = <<>>,
         overlapped' = (overlapped \/ Len(appends') > 1),
         ~overlapped /\ appends = <<>> => file \o a = WholeUpTo(slot + 1)
  PROVE  FileInv'
<1>1. /\ file \in Seq(Nat) /\ appends \in Seq(Piece) /\ slot \in Nat \ { 0 }
      /\ overlapped \in BOOLEAN
  BY DEF FileInv
<1>2. PICK n \in Nat : n = Len(appends) /\ DOMAIN appends = 1 .. n
                       /\ DOMAIN appends' = 1 .. n + 1 /\ Len(appends') = n + 1
  BY <1>1
<1>3. /\ appends' \in Seq(Piece) /\ appends'[n + 1] = a
      /\ \A i \in 1 .. n : appends'[i] = appends[i]
  BY <1>1, <1>2
<1>4. \A i \in 1 .. n + 1 : i \in 1 .. n \/ i = n + 1
  OBVIOUS
<1>5. /\ \A i \in 1 .. n : NumberIn(appends[i]) < slot /\ NumberIn(appends[i]) \in Nat
      /\ \A j \in DOMAIN file : file[j] < slot /\ file[j] \in Nat
  <2>1. \A i \in 1 .. n : appends[i] \in Piece
    BY <1>1, <1>2
  <2>2. QED
    <3>1. \A i \in 1 .. n : NumberIn(appends[i]) \in Nat
      BY <2>1, PieceType
    <3>2. \A j \in DOMAIN file : file[j] \in Nat
      BY <1>1
    <3>3. QED
      BY <1>2, <3>1, <3>2 DEF FileInv
<1>6. /\ \A i \in 1 .. n : NumberIn(appends[i]) # slot
      /\ \A j \in DOMAIN file : file[j] # slot
  BY <1>1, <1>5
<1>7. Fresh(file, appends)'
  <2>1. Fresh(file, appends)
    BY DEF FileInv
  <2>2. \A i \in 1 .. n + 1 : i # n + 1 => NumberIn(appends'[i]) = NumberIn(appends[i])
    BY <1>3, <1>4
  <2>3. NumberIn(appends'[n + 1]) = slot
    BY <1>3
  <2>4. ASSUME NEW i \in 1 .. n + 1, NEW j \in 1 .. n + 1,
               NumberIn(appends'[i]) = NumberIn(appends'[j])
        PROVE  i = j
    BY <1>2, <1>4, <1>6, <2>1, <2>2, <2>3, <2>4, Zenon DEF Fresh
  <2>5. ASSUME NEW i \in 1 .. n + 1, NEW j \in DOMAIN file
        PROVE  file[j] # NumberIn(appends'[i])
    BY <1>2, <1>4, <1>6, <2>1, <2>2, <2>3, Zenon DEF Fresh
  <2>6. NoneTwice(file')
    BY <2>1 DEF Fresh
  <2>7. QED
    BY <1>2, <2>4, <2>5, <2>6, Zenon DEF Fresh
<1>8. /\ \A i \in DOMAIN appends' : NumberIn(appends'[i]) < slot'
      /\ \A j \in DOMAIN file' : file'[j] < slot'
  <2>1. \A i \in 1 .. n : NumberIn(appends'[i]) < slot + 1
    BY <1>1, <1>3, <1>5
  <2>2. NumberIn(appends'[n + 1]) < slot + 1
    BY <1>1, <1>3
  <2>3. \A j \in DOMAIN file : file[j] < slot + 1
    BY <1>1, <1>5
  <2>4. QED
    BY <1>2, <1>4, <2>1, <2>2, <2>3
<1>9. ASSUME ~overlapped'
      PROVE  Len(appends') <= 1 /\ Joined(file', appends') = WholeUpTo(slot')
  <2>1. ~overlapped /\ n = 0
    <3>1. ~overlapped /\ ~(n + 1 > 1)
      BY <1>2, <1>9
    <3>2. QED
      BY <3>1
  <2>2. appends = <<>>
    BY <1>1, <1>2, <2>1
  <2>3. a \in Seq(Nat) /\ <<>> \in Seq(Seq(Nat))
    BY PieceType
  <2>4. Joined(file, Append(<<>>, a)) = Joined(file, <<>>) \o a
    BY <1>1, <2>3, JoinedAppend
  <2>5. Joined(file, <<>>) = file
    BY <1>1, JoinedNone
  <2>6. Len(appends') = 1
    BY <1>2, <2>1
  <2>7. QED
    BY <2>1, <2>2, <2>4, <2>5, <2>6
<1>10. overlapped' \in BOOLEAN /\ slot' \in Nat \ { 0 }
  BY <1>1
<1>11. QED
  BY <1>1, <1>3, <1>7, <1>8, <1>9, <1>10 DEF FileInv

LEMMA TimerFile == FileInv /\ HandleTimer => FileInv'
<1> SUFFICES ASSUME FileInv, HandleTimer PROVE FileInv'
  OBVIOUS
<1>1. /\ file \in Seq(Nat) /\ appends \in Seq(Piece) /\ slot \in Nat \ { 0 }
      /\ overlapped \in BOOLEAN /\ lines = <<>>
  BY DEF FileInv
<1>2. file' = file /\ overlapped' = (overlapped \/ Len(appends') > 1)
  BY DEF HandleTimer
<1>3. CASE recordCount = 0
  <2>1. lines' = lines /\ appends' = appends /\ slot' = slot
    BY <1>3 DEF HandleTimer
  <2>2. ~overlapped' => ~overlapped
    BY <1>2
  <2>3. Fresh(file, appends)'
    BY <1>2, <2>1 DEF FileInv, Fresh, NoneTwice
  <2>4. Joined(file, appends)' = Joined(file, appends) /\ WholeUpTo(slot)' = WholeUpTo(slot)
    BY <1>2, <2>1
  <2>5. overlapped' \in BOOLEAN
    BY <1>2
  <2>6. QED
    BY <1>2, <2>1, <2>2, <2>3, <2>4, <2>5, Zenon DEF FileInv
<1>4. CASE recordCount # 0
  <2>1. Append(lines, slot) = << slot >> /\ Len(<< slot >>) = 1
        /\ Head(<< slot >>) = slot /\ Tail(<< slot >>) = <<>> /\ << slot >> # <<>>
    BY <1>1
  <2>2. WriteToFile(<< slot >>, appends) /\ slot' = slot + 1
    BY <1>4, <2>1 DEF HandleTimer
  <2> DEFINE a == IF file = <<>> THEN << HeaderLine, slot >> ELSE << slot >>
  <2>3. lines' = <<>> /\ appends' = Append(appends, a)
    BY <2>1, <2>2 DEF WriteToFile
  <2>4. a \in Piece /\ NumberIn(a) = slot
    BY <1>1, PieceOf
  <2>5. ASSUME ~overlapped, appends = <<>> PROVE file \o a = WholeUpTo(slot + 1)
    <3>1. file = WholeUpTo(slot)
      BY <1>1, <2>5, JoinedNone DEF FileInv
    <3>2. CASE slot = 1
      <4>1. file = <<>> /\ a = << HeaderLine, 1 >> /\ slot + 1 = 2
        BY <1>1, <3>1, <3>2, NextWhole
      <4>2. QED
        BY <1>1, <4>1, NextWhole
    <3>3. CASE slot # 1
      <4>1. file # <<>>
        BY <1>1, <3>1, <3>3, NextWhole
      <4>2. QED
        BY <1>1, <3>1, <3>3, <4>1, NextWhole
    <3>4. QED
      BY <3>2, <3>3
  <2> HIDE DEF a
  <2>6. QED
    BY <1>2, <2>2, <2>3, <2>4, <2>5, OneMore
<1>5. QED
  BY <1>3, <1>4

\* An append that ends puts its line into the file or loses it.
LEMMA EndFile ==
  ASSUME FileInv, NEW k \in DOMAIN appends, NEW ok \in BOOLEAN, AppendEnds(k, ok)
  PROVE  FileInv'
<1> DEFINE left == RemoveAt(appends, k)
           a == appends[k]
<1>1. /\ file \in Seq(Nat) /\ appends \in Seq(Piece) /\ slot \in Nat \ { 0 }
      /\ overlapped \in BOOLEAN /\ lines = <<>> /\ Fresh(file, appends)
  BY DEF FileInv
<1>2. /\ lines' = <<>> /\ appends' = left /\ slot' = slot
      /\ overlapped' = (overlapped \/ ~ok) /\ file' = IF ok THEN file \o a ELSE file
  BY <1>1 DEF AppendEnds, WriteToFile
<1>3. PICK n \in Nat : n = Len(appends) /\ DOMAIN appends = 1 .. n
  BY <1>1
<1>4. /\ left \in Seq(Piece) /\ Len(left) = n - 1
      /\ \A j \in 1 .. n - 1 : left[j] = IF j < k THEN appends[j] ELSE appends[j + 1]
  BY <1>1, <1>3, RemovedAt
<1>5. DOMAIN left = 1 .. n - 1
  BY <1>3, <1>4
<1> DEFINE Was(j) == IF j < k THEN j ELSE j + 1
<1>6. /\ \A j \in 1 .. n - 1 : Was(j) \in 1 .. n /\ Was(j) # k
      /\ \A i, j \in 1 .. n - 1 : Was(i) = Was(j) => i = j
  BY <1>3
<1>7. \A j \in 1 .. n - 1 : left[j] = appends[Was(j)]
  BY <1>4
<1>8. a \in Piece /\ NumberIn(a) < slot /\ \A j \in DOMAIN file : file[j] # NumberIn(a)
  BY <1>1 DEF FileInv, Fresh
<1> HIDE DEF left, a, Was
<1> DEFINE num(i) == NumberIn(appends[i])
<1>9. /\ \A i, j \in 1 .. n : num(i) = num(j) => i = j
      /\ \A i \in 1 .. n, j \in DOMAIN file : file[j] # num(i)
  BY <1>1, <1>3, Zenon DEF Fresh
<1>10. \A j \in 1 .. n - 1 : NumberIn(left[j]) = num(Was(j))
  BY <1>7
<1>11. NumberIn(a) = num(k) /\ k \in 1 .. n
  BY <1>3 DEF a
<1> HIDE DEF num
<1>12. \A j \in 1 .. n - 1 : NumberIn(left[j]) # NumberIn(a)
  BY <1>6, <1>9, <1>10, <1>11, Zenon
<1>13. /\ \A i, j \in 1 .. n - 1 : NumberIn(left[i]) = NumberIn(left[j]) => i = j
       /\ \A i \in 1 .. n - 1, j \in DOMAIN file : file[j] # NumberIn(left[i])
  <2>1. ASSUME NEW i \in 1 .. n - 1, NEW j \in 1 .. n - 1, NumberIn(left[i]) = NumberIn(left[j])
        PROVE  i = j
    <3>1. num(Was(i)) = num(Was(j)) /\ Was(i) \in 1 .. n /\ Was(j) \in 1 .. n
      BY <1>6, <1>10, <2>1
    <3>2. Was(i) = Was(j)
      BY <1>9, <3>1
    <3>3. QED
      BY <1>6, <3>2
  <2>2. \A i \in 1 .. n - 1, j \in DOMAIN file : file[j] # NumberIn(left[i])
    BY <1>6, <1>9, <1>10
  <2>3. QED
    BY <2>1, <2>2
<1>14. /\ file \o a \in Seq(Nat) /\ NoneTwice(file \o a)
       /\ \A j \in DOMAIN (file \o a) :
            (file \o a)[j] \in { HeaderLine, NumberIn(a) } \cup { file[i] : i \in DOMAIN file }
  BY <1>1, <1>8, JoinOne DEF Fresh
<1>15. \A j \in 1 .. n - 1 : NumberIn(left[j]) # HeaderLine /\ NumberIn(left[j]) < slot
  <2>1. \A j \in 1 .. n - 1 : left[j] \in Piece
    BY <1>4, <1>5
  <2>2. QED
    BY <1>3, <1>6, <1>7, <2>1, PieceType DEF FileInv, HeaderLine
<1>16. CASE ok
  <2>1. file' = file \o a
    BY <1>2, <1>16
  <2>2. \A j \in DOMAIN file' : file'[j] < slot
    <3>1. \A v \in { HeaderLine, NumberIn(a) } \cup { file[i] : i \in DOMAIN file } : v < slot
      <4>1. HeaderLine < slot /\ NumberIn(a) < slot
        BY <1>1, <1>8 DEF HeaderLine
      <4>2. \A i \in DOMAIN file : file[i] < slot
        BY DEF FileInv
      <4>3. QED
        BY <4>1, <4>2
    <3>2. QED
      BY <1>14, <2>1, <3>1
  <2>3. ASSUME NEW i \in 1 .. n - 1, NEW j \in DOMAIN file'
        PROVE  file'[j] # NumberIn(left[i])
    BY <1>12, <1>13, <1>14, <1>15, <2>1, SMT
  <2>4. Fresh(file', left)
    BY <1>5, <1>13, <1>14, <2>1, <2>3 DEF Fresh
  <2>5. ASSUME ~overlapped' PROVE Len(left) <= 1 /\ Joined(file', left) = WholeUpTo(slot)
    <3>1. ~overlapped
      BY <1>2, <2>5
    <3>2. n = 1 /\ k = 1
      BY <1>3, <3>1 DEF FileInv
    <3>3. Len(left) = 0
      BY <1>4, <3>2
    <3>4. left = <<>>
      BY <1>4, <3>3
    <3>5. appends = Append(<<>>, a)
      BY <1>1, <1>3, <3>2 DEF a
    <3>6. a \in Seq(Nat) /\ <<>> \in Seq(Seq(Nat))
      BY <1>8, PieceType
    <3>7. Joined(file, appends) = file \o a
      <4>1. Joined(file, Append(<<>>, a)) = Joined(file, <<>>) \o a
        BY <1>1, <3>6, JoinedAppend
      <4>2. Joined(file, <<>>) = file
        BY <1>1, JoinedNone
      <4>3. QED
        BY <3>5, <4>1, <4>2
    <3>8. Joined(file', left) = file \o a
      BY <1>14, <2>1, <3>4, JoinedNone
    <3>9. QED
      BY <3>1, <3>3, <3>7, <3>8 DEF FileInv
  <2>6. overlapped' \in BOOLEAN /\ file' \in Seq(Nat)
    BY <1>2, <1>14, <2>1
  <2>7. QED
    BY <1>1, <1>2, <1>4, <1>5, <1>15, <2>2, <2>4, <2>5, <2>6 DEF FileInv
<1>17. CASE ~ok
  <2>1. file' = file /\ overlapped'
    BY <1>2, <1>17
  <2>2. Fresh(file', left)
    BY <1>1, <1>5, <1>13, <2>1 DEF Fresh
  <2>3. overlapped' \in BOOLEAN
    BY <1>2, <1>17
  <2>4. \A j \in DOMAIN file : file[j] < slot
    BY DEF FileInv
  <2>5. QED
    BY <1>1, <1>2, <1>4, <1>5, <1>15, <2>1, <2>2, <2>3, <2>4 DEF FileInv
<1>18. QED
  BY <1>16, <1>17

LEMMA OthersFile ==
  FileInv /\ UNCHANGED << slot, lines, appends, file, overlapped >> => FileInv'
<1> SUFFICES ASSUME FileInv, UNCHANGED << slot, lines, appends, file, overlapped >>
             PROVE  FileInv'
  OBVIOUS
<1>1. /\ slot' = slot /\ lines' = lines /\ appends' = appends /\ file' = file
      /\ overlapped' = overlapped
  OBVIOUS
<1>2. Fresh(file, appends)' = Fresh(file, appends)
  BY <1>1 DEF Fresh, NoneTwice
<1>3. /\ lines' = <<>> /\ slot' \in Nat \ { 0 } /\ overlapped' \in BOOLEAN
      /\ file' \in Seq(Nat) /\ \A j \in DOMAIN file' : file'[j] < slot'
  BY <1>1, Zenon DEF FileInv
<1>4. appends' \in Seq(Piece) /\ \A i \in DOMAIN appends' : NumberIn(appends'[i]) < slot'
  BY <1>1, Zenon DEF FileInv
<1>5. Fresh(file, appends)'
  BY <1>2, Zenon DEF FileInv
<1>6. ASSUME ~overlapped'
      PROVE  Len(appends') <= 1 /\ Joined(file', appends') = WholeUpTo(slot')
  <2>1. ~overlapped
    BY <1>1, <1>6
  <2>2. Len(appends) <= 1 /\ Joined(file, appends) = WholeUpTo(slot)
    BY <2>1 DEF FileInv
  <2>3. QED
    BY <1>1, <2>2
<1>7. QED
  BY <1>3, <1>4, <1>5, <1>6, Zenon DEF FileInv

LEMMA NextFile == FileInv /\ [Next]_vars => FileInv'
<1> SUFFICES ASSUME FileInv, [Next]_vars PROVE FileInv'
  OBVIOUS
<1>1. CASE Timer
  BY <1>1, TimerFile DEF Timer
<1>2. CASE Appended
  <2>1. PICK i \in DOMAIN appends, ok \in BOOLEAN : AppendEnds(i, ok)
    BY <1>2 DEF Appended
  <2>2. QED
    BY <2>1, EndFile
<1>3. CASE PollServes \/ PollReads \/ Executed \/ UNCHANGED vars
  <2>1. UNCHANGED << slot, lines, appends, file, overlapped >>
    BY <1>3, Zenon DEF PollServes, PollReads, Executed, vars, statistics
  <2>2. QED
    BY <2>1, OthersFile
<1>4. QED
  BY <1>1, <1>2, <1>3 DEF Next

\* However many slots there are, and whatever order the appends to the CSV file end in
\* and fail, no line is lost in the queue or written twice, and without an overlap or a
\* failure the file is one header and the lines of all slots in their order
\* (handleTimer(), writeToCsvFile(), writeToFile()).
THEOREM FileIsWritten == Spec => []FileIsRight
<1>1. Init => FileInv
  BY FileInit DEF Init
<1>2. QED
  BY <1>1, FileInvUse, NextFile, PTL DEF Spec

-----------------------------------------------------------------------------
(* The header, and the record of a slot without values *)

\* The lists of header items, and one list behind another.
ItemIds == { RecordIds[i] : i \in 1 .. 3 } \cup { MinMaxIds[i] : i \in 1 .. 19 }
             \cup { SingleIds[i] : i \in 1 .. 32 }
HeaderItem == [id : ItemIds, kind : Kinds]
Lists == Seq(HeaderItem)
ListThen(a, b) == a \o b

LEMMA ListThenType ==
  \A a, b \in Lists : ListThen(a, b) \in Lists /\ Len(ListThen(a, b)) = Len(a) + Len(b)
BY DEF Lists, ListThen

LEMMA ListThenLeft ==
  \A a, b \in Lists : \A i \in 1 .. Len(a) : ListThen(a, b)[i] = a[i]
BY DEF Lists, ListThen

LEMMA ListThenRight ==
  \A a, b \in Lists : \A i \in 1 .. Len(b) : ListThen(a, b)[Len(a) + i] = b[i]
BY DEF Lists, ListThen

LEMMA RecordItems ==
  /\ Items("record", RecordIds) \in Lists /\ Len(Items("record", RecordIds)) = 3
  /\ \A i \in 1 .. 3 : Items("record", RecordIds)[i].kind = "record"
<1> DEFINE a == [i \in 1 .. 3 |-> [id |-> RecordIds[i], kind |-> "record"]]
<1>1. DOMAIN RecordIds = 1 .. 3
  BY DEF RecordIds
<1>2. Items("record", RecordIds) = a
  BY <1>1, Zenon DEF Items
<1>3. \A i \in 1 .. 3 : [id |-> RecordIds[i], kind |-> "record"] \in HeaderItem
  BY DEF HeaderItem, ItemIds, Kinds
<1>4. a \in Lists /\ Len(a) = 3 /\ \A i \in 1 .. 3 : a[i].kind = "record"
  BY <1>3 DEF Lists
<1> QED
  BY <1>2, <1>4, Zenon

LEMMA MinMaxItems ==
  /\ Items("minMax", MinMaxIds) \in Lists /\ Len(Items("minMax", MinMaxIds)) = 19
  /\ \A i \in 1 .. 19 : Items("minMax", MinMaxIds)[i].kind = "minMax"
  /\ Items("minMax", MinMaxIds)[15].id = "liquidLineTemp"
<1> DEFINE a == [i \in 1 .. 19 |-> [id |-> MinMaxIds[i], kind |-> "minMax"]]
<1>1. DOMAIN MinMaxIds = 1 .. 19 /\ MinMaxIds[15] = "liquidLineTemp"
  BY DEF MinMaxIds
<1>2. Items("minMax", MinMaxIds) = a
  BY <1>1, Zenon DEF Items
<1>3. \A i \in 1 .. 19 : [id |-> MinMaxIds[i], kind |-> "minMax"] \in HeaderItem
  BY DEF HeaderItem, ItemIds, Kinds
<1>4. a \in Lists /\ Len(a) = 19 /\ \A i \in 1 .. 19 : a[i].kind = "minMax"
  BY <1>3 DEF Lists
<1>5. a[15].id = "liquidLineTemp"
  BY <1>1
<1> QED
  BY <1>2, <1>4, <1>5, Zenon

LEMMA SingleItems ==
  /\ Items("single", SingleIds) \in Lists /\ Len(Items("single", SingleIds)) = 32
  /\ \A i \in 1 .. 32 : Items("single", SingleIds)[i].kind = "single"
<1> DEFINE a == [i \in 1 .. 32 |-> [id |-> SingleIds[i], kind |-> "single"]]
<1>1. DOMAIN SingleIds = 1 .. 32
  BY DEF SingleIds
<1>2. Items("single", SingleIds) = a
  BY <1>1, Zenon DEF Items
<1>3. \A i \in 1 .. 32 : [id |-> SingleIds[i], kind |-> "single"] \in HeaderItem
  BY DEF HeaderItem, ItemIds, Kinds
<1>4. a \in Lists /\ Len(a) = 32 /\ \A i \in 1 .. 32 : a[i].kind = "single"
  BY <1>3 DEF Lists
<1> QED
  BY <1>2, <1>4, Zenon

LEMMA HeaderShape ==
  /\ Len(Header) = 54 /\ DOMAIN Header = 1 .. 54
  /\ \A i \in 1 .. 3 : Header[i].kind = "record"
  /\ \A i \in 4 .. 22 : Header[i].kind = "minMax"
  /\ \A i \in 23 .. 54 : Header[i].kind = "single"
  /\ Header[18].id = "liquidLineTemp"
<1> DEFINE a == Items("record", RecordIds)
           b == Items("minMax", MinMaxIds)
           c == Items("single", SingleIds)
           d == ListThen(a, b)
           h == ListThen(d, c)
<1>h. Header = h
  BY Zenon DEF Header, ListThen
<1>a. a \in Lists /\ Len(a) = 3 /\ \A i \in 1 .. 3 : a[i].kind = "record"
  BY RecordItems, Zenon
<1>b. b \in Lists /\ Len(b) = 19 /\ (\A i \in 1 .. 19 : b[i].kind = "minMax")
      /\ b[15].id = "liquidLineTemp"
  BY MinMaxItems, Zenon
<1>c. c \in Lists /\ Len(c) = 32 /\ \A i \in 1 .. 32 : c[i].kind = "single"
  BY SingleItems, Zenon
<1> HIDE DEF a, b, c
<1>1. d \in Lists /\ Len(d) = 22
  <2>1. d \in Lists /\ Len(d) = Len(a) + Len(b)
    BY <1>a, <1>b, ListThenType, Zenon
  <2> HIDE DEF d
  <2> QED
    BY <1>a, <1>b, <2>1
<1>2. (\A i \in 1 .. 3 : d[i] = a[i]) /\ \A i \in 1 .. 19 : d[3 + i] = b[i]
  <2>1. \A i \in 1 .. Len(a) : d[i] = a[i]
    BY <1>a, <1>b, ListThenLeft, Zenon
  <2>2. \A i \in 1 .. Len(b) : d[Len(a) + i] = b[i]
    BY <1>a, <1>b, ListThenRight, Zenon
  <2>3. Len(a) = 3 /\ Len(b) = 19
    BY <1>a, <1>b, Zenon
  <2> HIDE DEF d
  <2> QED
    BY <2>1, <2>2, <2>3
<1> HIDE DEF d
<1>3. h \in Lists /\ Len(h) = 54
  <2>1. h \in Lists /\ Len(h) = Len(d) + Len(c)
    BY <1>c, <1>1, ListThenType, Zenon
  <2> HIDE DEF h
  <2> QED
    BY <1>c, <1>1, <2>1
<1>4. (\A i \in 1 .. 22 : h[i] = d[i]) /\ \A i \in 1 .. 32 : h[22 + i] = c[i]
  <2>1. \A i \in 1 .. Len(d) : h[i] = d[i]
    BY <1>c, <1>1, ListThenLeft, Zenon
  <2>2. \A i \in 1 .. Len(c) : h[Len(d) + i] = c[i]
    BY <1>c, <1>1, ListThenRight, Zenon
  <2>3. Len(d) = 22 /\ Len(c) = 32
    BY <1>c, <1>1, Zenon
  <2> HIDE DEF h
  <2> QED
    BY <2>1, <2>2, <2>3
<1> HIDE DEF h
<1>5. DOMAIN h = 1 .. 54
  BY <1>3 DEF Lists
<1>6. \A i \in 1 .. 3 : h[i].kind = "record"
  BY <1>a, <1>2, <1>4
<1>7. \A i \in 4 .. 22 : h[i].kind = "minMax"
  <2>1. \A i \in 4 .. 22 : i \in 1 .. 22 /\ i - 3 \in 1 .. 19 /\ 3 + (i - 3) = i
    OBVIOUS
  <2> QED
    BY <1>b, <1>2, <1>4, <2>1
<1>8. \A i \in 23 .. 54 : h[i].kind = "single"
  <2>1. \A i \in 23 .. 54 : i - 22 \in 1 .. 32 /\ 22 + (i - 22) = i
    OBVIOUS
  <2> QED
    BY <1>c, <1>4, <2>1
<1>9. h[18].id = "liquidLineTemp"
  <2>1. 18 \in 1 .. 22 /\ 15 \in 1 .. 19 /\ 3 + 15 = 18
    OBVIOUS
  <2> QED
    BY <1>b, <1>2, <1>4, <2>1
<1> QED
  BY <1>h, <1>3, <1>5, <1>6, <1>7, <1>8, <1>9, Zenon

LEMMA HeaderKinds ==
  \A i \in 1 .. 54 :
    /\ Header[i].kind = "record" <=> i \in 1 .. 3
    /\ Header[i].kind = "minMax" <=> i \in 4 .. 22
    /\ Header[i].kind = "single" <=> i \in 23 .. 54
<1> SUFFICES ASSUME NEW i \in 1 .. 54
             PROVE  /\ Header[i].kind = "record" <=> i \in 1 .. 3
                    /\ Header[i].kind = "minMax" <=> i \in 4 .. 22
                    /\ Header[i].kind = "single" <=> i \in 23 .. 54
  OBVIOUS
<1> DEFINE kind == Header[i].kind
<1>1. /\ i \in 1 .. 3 => kind = "record"
      /\ i \in 4 .. 22 => kind = "minMax"
      /\ i \in 23 .. 54 => kind = "single"
  BY HeaderShape, Zenon
<1> HIDE DEF kind
<1>2. i \in 1 .. 3 \/ i \in 4 .. 22 \/ i \in 23 .. 54
  OBVIOUS
<1>3. /\ kind = "record" <=> i \in 1 .. 3
      /\ kind = "minMax" <=> i \in 4 .. 22
      /\ kind = "single" <=> i \in 23 .. 54
  BY <1>1, <1>2
<1> QED
  BY <1>3 DEF kind

LEMMA RangeSize == \A a, b \in Int : a <= b => Cardinality(a .. b) = b - a + 1
BY FS_Interval

LEMMA BeforeItem ==
  /\ \A i \in 4 .. 54 : Before(i, "record") = 3
  /\ \A i \in 4 .. 22 : Before(i, "single") = 0
<1>1. Cardinality(1 .. 3) = 3 /\ Cardinality({}) = 0
  <2>0. 1 \in Int /\ 3 \in Int /\ 1 <= 3 /\ 3 - 1 + 1 = 3
    OBVIOUS
  <2>1. Cardinality(1 .. 3) = 3 - 1 + 1
    BY <2>0, RangeSize, Zenon
  <2>2. Cardinality({}) = 0
    BY FS_EmptySet, Zenon
  <2> QED
    BY <2>0, <2>1, <2>2, Zenon
<1>2. ASSUME NEW i \in 4 .. 54 PROVE Before(i, "record") = 3
  <2>1. { j \in 1 .. i - 1 : Header[j].kind = "record" } = 1 .. 3
    <3>1. \A j \in 1 .. i - 1 : j \in 1 .. 54
      OBVIOUS
    <3>2. \A j \in 1 .. i - 1 : Header[j].kind = "record" <=> j \in 1 .. 3
      BY <3>1, HeaderKinds, Zenon
    <3>3. \A j \in 1 .. 3 : j \in 1 .. i - 1
      OBVIOUS
    <3> QED
      BY <3>2, <3>3, Zenon
  <2> QED
    BY <1>1, <2>1, Zenon DEF Before
<1>3. ASSUME NEW i \in 4 .. 22 PROVE Before(i, "single") = 0
  <2>1. { j \in 1 .. i - 1 : Header[j].kind = "single" } = {}
    <3>1. \A j \in 1 .. i - 1 : j \in 1 .. 54 /\ j \notin 23 .. 54
      OBVIOUS
    <3> QED
      BY <3>1, HeaderKinds, Zenon
  <2> QED
    BY <1>1, <2>1, Zenon DEF Before
<1> QED
  BY <1>2, <1>3, Zenon

\* The list of a new record: the items from the fourth on, in their order.
LEMMA NewRecordShape ==
  NewRecord = [count |-> 0, minMax |-> [k \in 1 .. 51 |-> NoSummary(Header[k + 3].id)]]
<1> DEFINE items == { i \in DOMAIN Header : Header[i].kind # "record" }
           item(k) == CHOOSE i \in items : i - Before(i, "record") = k
<1>1. items = 4 .. 54
  <2>1. items = { i \in 1 .. 54 : Header[i].kind # "record" }
    BY HeaderShape, Zenon
  <2>2. \A i \in 1 .. 54 : i \in 4 .. 54 <=> i \notin 1 .. 3
    OBVIOUS
  <2>3. \A i \in 4 .. 54 : i \in 1 .. 54
    OBVIOUS
  <2> HIDE DEF items
  <2> QED
    BY <2>1, <2>2, <2>3, HeaderKinds, Zenon
<1>2. Cardinality(items) = 51
  <2>0. 4 \in Int /\ 54 \in Int /\ 4 <= 54 /\ 54 - 4 + 1 = 51
    OBVIOUS
  <2>1. Cardinality(4 .. 54) = 54 - 4 + 1
    BY <2>0, RangeSize, Zenon
  <2> QED
    BY <1>1, <2>0, <2>1, Zenon
<1>3. ASSUME NEW k \in 1 .. 51 PROVE item(k) = k + 3
  <2>1. k + 3 \in 4 .. 54 /\ \A i \in 4 .. 54 : i - 3 = k => i = k + 3
    OBVIOUS
  <2>2. (k + 3) - 3 = k
    OBVIOUS
  <2> HIDE DEF items
  <2>3. \A i \in items : i - Before(i, "record") = i - 3
    BY <1>1, BeforeItem, Zenon
  <2> QED
    BY <1>1, <2>1, <2>2, <2>3, Zenon
<1>4. NewRecord = [count |-> 0,
                   minMax |-> [k \in 1 .. Cardinality(items) |-> NoSummary(Header[item(k)].id)]]
  BY DEF NewRecord
<1> HIDE DEF items, item
<1> QED
  BY <1>2, <1>3, <1>4
-----------------------------------------------------------------------------
(* Sums *)

TotalTrace(it, s) ==
  \A u \in SUBSET DOMAIN s :
    it[u] = IF u = {} THEN 0 ELSE it[u \ {Max(u)}] + s[Max(u)]

LEMMA TotalHasTrace ==
  ASSUME NEW s \in Seq(Int)
  PROVE  \E it : TotalTrace(it, s) /\ SumOf(s) = it[DOMAIN s]
<1> DEFINE Eq(it) == it = [u \in SUBSET DOMAIN s |->
                            IF u = {} THEN 0 ELSE it[u \ {Max(u)}] + s[Max(u)]]
<1>1. SumOf(s) = (CHOOSE it : Eq(it))[DOMAIN s]
  BY DEF SumOf, FoldLeft, MapThenFoldSet
<1>2. \E it : Eq(it)
  <2> DEFINE T == Int
             g == [p \in T \X T |-> p[1] + p[2]]
  <2>1. g \in [T \X T -> T]
    OBVIOUS
  <2>2. 0 \in T /\ s \in Seq(T)
    OBVIOUS
  <2>3. \A a, b \in T : g[<< a, b >>] = a + b
    OBVIOUS
  <2> HIDE DEF T, g
  <2>4. PICK n \in Nat : s \in [1 .. n -> T] /\ DOMAIN s = 1 .. n
    BY <2>2
  <2>5. PICK h : TraceOf(h, T, g, 0, n, s)
    BY <2>1, <2>2, <2>4, TraceExists
  <2>6. ASSUME NEW u \in SUBSET (1 .. n)
        PROVE  h[u] = IF u = {} THEN 0 ELSE h[u \ {Max(u)}] + s[Max(u)]
    <3>1. CASE u = {}
      BY <2>5, <3>1 DEF TraceOf
    <3>2. CASE u # {}
      <4>1. u \ {Max(u)} \in SUBSET (1 .. n) /\ Max(u) \in 1 .. n
        BY <2>5, <3>2 DEF TraceOf
      <4>2. h[u \ {Max(u)}] \in T /\ s[Max(u)] \in T
        BY <2>4, <2>5, <4>1 DEF TraceOf
      <4>3. h[u] = g[<< h[u \ {Max(u)}], s[Max(u)] >>]
        BY <2>5, <3>2 DEF TraceOf
      <4>4. QED
        BY <2>3, <3>2, <4>2, <4>3
    <3>3. QED
      BY <3>1, <3>2
  <2>7. Eq(h)
    BY <2>4, <2>5, <2>6 DEF TraceOf
  <2>8. QED
    BY <2>7
<1> DEFINE result == CHOOSE it : Eq(it)
<1>3. Eq(result)
  <2> HIDE DEF Eq
  <2>1. QED
    BY <1>2
<1> HIDE DEF result
<1>4. TotalTrace(result, s)
  BY <1>3 DEF TotalTrace
<1>5. QED
  BY <1>1, <1>4 DEF result

LEMMA TotalOfNone == SumOf(<<>>) = 0
<1>1. <<>> \in Seq(Int) /\ DOMAIN <<>> = {}
  OBVIOUS
<1>2. PICK it : TotalTrace(it, <<>>) /\ SumOf(<<>>) = it[DOMAIN <<>>]
  BY <1>1, TotalHasTrace
<1>3. QED
  BY <1>1, <1>2 DEF TotalTrace

LEMMA TotalTraceStep ==
  ASSUME NEW it, NEW s, TotalTrace(it, s), NEW m \in Nat, 1 .. m + 1 \in SUBSET DOMAIN s
  PROVE  it[1 .. m + 1] = it[1 .. m] + s[m + 1]
<1>1. /\ Max(1 .. m + 1) = m + 1 /\ (1 .. m + 1) \ {m + 1} = 1 .. m
      /\ (1 .. m + 1 = {}) = FALSE
  BY Segment, Zenon
<1>2. it[1 .. m + 1] = IF 1 .. m + 1 = {} THEN 0
        ELSE it[(1 .. m + 1) \ {Max(1 .. m + 1)}] + s[Max(1 .. m + 1)]
  BY Zenon DEF TotalTrace
<1> QED
  BY <1>1, <1>2, Zenon

\* The last append is added last.
LEMMA TotalOfAppend ==
  ASSUME NEW s \in Seq(Int), NEW a \in Int
  PROVE  SumOf(Append(s, a)) = SumOf(s) + a
<1> DEFINE t == Append(s, a)
<1>1. PICK n \in Nat : n = Len(s) /\ DOMAIN s = 1 .. n /\ DOMAIN t = 1 .. n + 1
  OBVIOUS
<1>2. /\ t \in Seq(Int) /\ t[n + 1] = a
      /\ \A m \in 1 .. n : t[m] = s[m]
  BY <1>1
<1> HIDE DEF t
<1>3. PICK g : TotalTrace(g, s) /\ SumOf(s) = g[1 .. n]
  BY <1>1, TotalHasTrace
<1>4. PICK h : TotalTrace(h, t) /\ SumOf(t) = h[1 .. n + 1]
  BY <1>1, <1>2, TotalHasTrace
<1>5. ASSUME NEW m \in Nat, m + 1 <= n
      PROVE  g[1 .. m + 1] = g[1 .. m] + s[m + 1]
  <2>1. 1 .. m + 1 \in SUBSET DOMAIN s
    BY <1>1, <1>5
  <2>2. QED
    BY <1>3, <2>1, TotalTraceStep, Zenon
<1>6. ASSUME NEW m \in Nat, m <= n
      PROVE  h[1 .. m + 1] = h[1 .. m] + t[m + 1]
  <2>1. 1 .. m + 1 \in SUBSET DOMAIN t
    BY <1>1, <1>6
  <2>2. QED
    BY <1>4, <2>1, TotalTraceStep, Zenon
<1> DEFINE S == { m \in Nat : m <= n => g[1 .. m] = h[1 .. m] }
<1>7. 0 \in S
  <2>1. 1 .. 0 = {} /\ {} \in SUBSET DOMAIN s /\ {} \in SUBSET DOMAIN t
    OBVIOUS
  <2>2. QED
    BY <1>3, <1>4, <2>1 DEF TotalTrace
<1>8. ASSUME NEW m \in S PROVE m + 1 \in S
  <2>1. ASSUME m + 1 <= n PROVE g[1 .. m + 1] = h[1 .. m + 1]
    <3>1. m <= n /\ g[1 .. m] = h[1 .. m] /\ m + 1 \in 1 .. n
      BY <2>1
    <3>2. t[m + 1] = s[m + 1]
      BY <1>2, <3>1
    <3>3. QED
      BY <1>5, <1>6, <2>1, <3>1, <3>2, Zenon
  <2>2. QED
    BY <2>1
<1>9. n \in S
  <2>1. S \subseteq Nat
    OBVIOUS
  <2> HIDE DEF S
  <2>2. QED
    BY <1>7, <1>8, <2>1, Natural
<1>10. g[1 .. n] = h[1 .. n]
  BY <1>9
<1> HIDE DEF S
<1>11. SumOf(t) = SumOf(s) + a
  <2>1. n <= n
    OBVIOUS
  <2>2. QED
    BY <1>2, <1>3, <1>4, <1>6, <1>10, <2>1, Zenon
<1>12. QED
  BY <1>11 DEF t

-----------------------------------------------------------------------------
(* What a summary says of the values it was made of *)

Value == Int \cup { NaN }

NumbersIn(s) == { s[i] : i \in DOMAIN s } \ { NaN }

Least(m, xs) == m \in xs /\ \A x \in xs : m <= x
Greatest(m, xs) == m \in xs /\ \A x \in xs : x <= m

\* A fraction between the extremes, and the mean when every value is a number.
MeanOf(v, s) ==
  /\ v.avg \in Int \X Int /\ v.avg[2] > 0
  /\ v.min * v.avg[2] <= v.avg[1] /\ v.avg[1] <= v.max * v.avg[2]
  /\ (\A i \in DOMAIN s : s[i] # NaN) => v.avg[1] * Len(s) = v.avg[2] * SumOf(s)

Summarises(v, s) ==
  IF NumbersIn(s) = {} THEN v.min = NaN /\ v.avg = NaN /\ v.max = NaN
  ELSE Least(v.min, NumbersIn(s)) /\ Greatest(v.max, NumbersIn(s)) /\ MeanOf(v, s)

LEMMA ProductOrder ==
  \A a, b \in Int : \A c \in Nat : a <= b => a * c <= b * c
<1> SUFFICES ASSUME NEW a \in Int, NEW b \in Int, NEW c \in Nat, a <= b
             PROVE  a * c <= b * c
  OBVIOUS
<1> PICK e \in Nat : b = a + e
  <2>1. b - a \in Nat /\ b = a + (b - a)
    OBVIOUS
  <2> QED
    BY <2>1
<1>1. b * c = a * c + e * c
  OBVIOUS
<1>2. e * c \in Nat /\ a * c \in Int /\ b * c \in Int
  OBVIOUS
<1> DEFINE p == a * c
           q == b * c
           r == e * c
<1> HIDE DEF p, q, r
<1>3. q = p + r /\ r \in Nat /\ p \in Int /\ q \in Int
  BY <1>1, <1>2 DEF p, q, r
<1>4. p <= q
  BY <1>3
<1> QED
  BY <1>4 DEF p, q

\* The mean of c values and one more is not below a bound of both ...
LEMMA MeanAbove ==
  ASSUME NEW m \in Int, NEW l \in Int, NEW x \in Int, NEW n \in Int,
         NEW d \in Nat \ { 0 }, NEW c \in Nat,
         m <= l, m <= x, l * d <= n
  PROVE  m * (d * (c + 1)) <= n * c + x * d
<1>1. m * d <= l * d /\ m * d <= x * d
  BY ProductOrder
<1> DEFINE e == m * d
           k == l * d
           y == x * d
<1>2. e \in Int /\ k \in Int /\ y \in Int
  OBVIOUS
<1>3. m * (d * (c + 1)) = (m * d) * c + m * d
  OBVIOUS
<1> HIDE DEF e, k, y
<1>4. e <= n /\ e <= y
  BY <1>1, <1>2 DEF e, k, y
<1>5. e * c <= n * c
  BY <1>2, <1>4, ProductOrder
<1>6. e * c \in Int /\ n * c \in Int
  BY <1>2
<1>7. e * c + e <= n * c + y
  BY <1>2, <1>4, <1>5, <1>6
<1> QED
  BY <1>3, <1>7 DEF e, y

\* ... nor above one.
LEMMA MeanBelow ==
  ASSUME NEW m \in Int, NEW l \in Int, NEW x \in Int, NEW n \in Int,
         NEW d \in Nat \ { 0 }, NEW c \in Nat,
         l <= m, x <= m, n <= l * d
  PROVE  n * c + x * d <= m * (d * (c + 1))
<1>1. l * d <= m * d /\ x * d <= m * d
  BY ProductOrder
<1> DEFINE e == m * d
           k == l * d
           y == x * d
<1>2. e \in Int /\ k \in Int /\ y \in Int
  OBVIOUS
<1>3. m * (d * (c + 1)) = (m * d) * c + m * d
  OBVIOUS
<1> HIDE DEF e, k, y
<1>4. n <= e /\ y <= e
  BY <1>1, <1>2 DEF e, k, y
<1>5. n * c <= e * c
  BY <1>2, <1>4, ProductOrder
<1>6. e * c \in Int /\ n * c \in Int
  BY <1>2
<1>7. n * c + y <= e * c + e
  BY <1>2, <1>4, <1>5, <1>6
<1> QED
  BY <1>3, <1>7 DEF e, y

LEMMA MeanExact ==
  ASSUME NEW x \in Int, NEW n \in Int, NEW d \in Int, NEW c \in Int, NEW t \in Int,
         n * c = d * t
  PROVE  (n * c + x * d) * (c + 1) = (d * (c + 1)) * (t + x)
<1>1. n * c + x * d = d * (t + x)
  OBVIOUS
<1> DEFINE e == t + x
           k == c + 1
<1>2. e \in Int /\ k \in Int
  OBVIOUS
<1> HIDE DEF e, k
<1>3. (d * e) * k = (d * k) * e
  BY <1>2
<1> QED
  BY <1>1, <1>3 DEF e, k

LEMMA NumbersInAppend ==
  ASSUME NEW s \in Seq(Value), NEW x \in Value
  PROVE  NumbersIn(Append(s, x)) =
           IF x = NaN THEN NumbersIn(s) ELSE NumbersIn(s) \cup { x }
<1> DEFINE t == Append(s, x)
<1>1. PICK n \in Nat : DOMAIN s = 1 .. n /\ DOMAIN t = 1 .. n + 1
  OBVIOUS
<1>2. t[n + 1] = x /\ \A i \in 1 .. n : t[i] = s[i]
  BY <1>1
<1> HIDE DEF t
<1>3. /\ n + 1 \in 1 .. n + 1 /\ \A i \in 1 .. n : i \in 1 .. n + 1
      /\ \A i \in 1 .. n + 1 : i \in 1 .. n \/ i = n + 1
  OBVIOUS
<1>4. \A y : (\E i \in 1 .. n + 1 : t[i] = y) <=> (\E i \in 1 .. n : s[i] = y) \/ y = x
  BY <1>2, <1>3, Zenon
<1>5. \A y : y \in NumbersIn(t) <=> y # NaN /\ \E i \in 1 .. n + 1 : t[i] = y
  BY <1>1, Zenon DEF NumbersIn
<1>6. \A y : y \in NumbersIn(s) <=> y # NaN /\ \E i \in 1 .. n : s[i] = y
  BY <1>1, Zenon DEF NumbersIn
<1>7. \A y : y \in NumbersIn(t) <=> (y \in NumbersIn(s) \/ (y # NaN /\ y = x))
  BY <1>4, <1>5, <1>6, Zenon
<1>8. CASE x = NaN
  <2>1. NumbersIn(t) = NumbersIn(s)
    BY <1>7, <1>8, Zenon
  <2> QED
    BY <1>8, <2>1, Zenon DEF t
<1>9. CASE x # NaN
  <2>1. \A y : y \in NumbersIn(t) <=> (y \in NumbersIn(s) \/ y = x)
    BY <1>7, <1>9, Zenon
  <2>2. NumbersIn(t) = NumbersIn(s) \cup { x }
    BY <2>1
  <2> QED
    BY <1>9, <2>2, Zenon DEF t
<1> QED
  BY <1>8, <1>9

LEMMA NumbersInType == \A s \in Seq(Value) : NumbersIn(s) \subseteq Int
BY DEF NumbersIn, Value

LEMMA HandleValueType ==
  ASSUME NEW v \in Summary, NEW count \in Nat, NEW x \in Value
  PROVE  /\ HandleValue(v, count, x) \in Summary
         /\ HandleValue(v, count, x).id = v.id
         /\ HandleValue(v, count, x).min = CalcMinimum(v.min, x)
         /\ HandleValue(v, count, x).max = CalcMaximum(v.max, x)
         /\ HandleValue(v, count, x).avg = CalcAverage(v.avg, count, x)
<1>1. CalcMinimum(v.min, x) \in Value /\ CalcMaximum(v.max, x) \in Value
  BY DEF CalcMinimum, CalcMaximum, Value, Summary
<1>2. CalcAverage(v.avg, count, x) \in (Int \X Int) \cup { NaN }
  <2>1. CASE x = NaN
    BY <2>1 DEF CalcAverage
  <2>2. CASE x # NaN /\ v.avg = NaN
    BY <2>2 DEF CalcAverage, Value
  <2>3. CASE x # NaN /\ v.avg # NaN
    <3>1. v.avg[1] \in Int /\ v.avg[2] \in Int /\ x \in Int
      BY <2>3 DEF Summary, Value
    <3>2. /\ v.avg[1] * count + x * v.avg[2] \in Int /\ v.avg[2] * (count + 1) \in Int
      BY <3>1
    <3>3. CalcAverage(v.avg, count, x)
            = << v.avg[1] * count + x * v.avg[2], v.avg[2] * (count + 1) >>
      BY <2>3, Zenon DEF CalcAverage
    <3> QED
      BY <3>2, <3>3
  <2> QED
    BY <2>1, <2>2, <2>3
<1> QED
  BY <1>1, <1>2 DEF HandleValue, Summary, Value

LEMMA TotalType == \A s \in Seq(Int) : SumOf(s) \in Int
<1> DEFINE P == { s \in Seq(Int) : SumOf(s) \in Int }
<1>1. <<>> \in P
  BY TotalOfNone
<1>2. ASSUME NEW s \in P, NEW a \in Int PROVE Append(s, a) \in P
  <2>1. SumOf(Append(s, a)) = SumOf(s) + a
    BY TotalOfAppend
  <2>2. SumOf(s) \in Int /\ Append(s, a) \in Seq(Int)
    OBVIOUS
  <2> QED
    BY <2>1, <2>2
<1>3. P \subseteq Seq(Int)
  OBVIOUS
<1>4. Seq(Int) \subseteq P
  <2> HIDE DEF P
  <2> QED
    BY <1>1, <1>2, <1>3, Sequences
<1> QED
  BY <1>4

\* A record whose value is none comes before those that have one.
LEMMA SummaryStep ==
  ASSUME NEW s \in Seq(Value), NEW v \in Summary, Summarises(v, s), NEW x \in Value,
         x = NaN => \A i \in DOMAIN s : s[i] = NaN
  PROVE  Summarises(HandleValue(v, Len(s), x), Append(s, x))
<1> DEFINE w == HandleValue(v, Len(s), x)
           t == Append(s, x)
           xs == NumbersIn(s)
           ys == NumbersIn(t)
<1>1. PICK c \in Nat : c = Len(s) /\ DOMAIN s = 1 .. c /\ DOMAIN t = 1 .. c + 1 /\ Len(t) = c + 1
  OBVIOUS
<1>2. (\A i \in 1 .. c : t[i] = s[i]) /\ t[c + 1] = x
  BY <1>1
<1>3. /\ w.min = CalcMinimum(v.min, x) /\ w.max = CalcMaximum(v.max, x)
      /\ w.avg = CalcAverage(v.avg, c, x)
  BY <1>1, HandleValueType
<1>4. ys = IF x = NaN THEN xs ELSE xs \cup { x }
  BY NumbersInAppend
<1>5. xs \subseteq Int
  BY NumbersInType
<1>6. \A i \in 1 .. c : s[i] = NaN \/ s[i] \in xs
  BY <1>1, Zenon DEF NumbersIn
<1>7. /\ xs = {} => v.min = NaN /\ v.avg = NaN /\ v.max = NaN
      /\ xs # {} => Least(v.min, xs) /\ Greatest(v.max, xs) /\ MeanOf(v, s)
  BY Zenon DEF Summarises
<1>8. NaN \notin Int /\ NaN \notin Int \X Int
  BY HeaderAssumption
<1> HIDE DEF w, t, xs, ys
<1>9. CASE x = NaN
  <2>1. xs = {}
    BY <1>1, <1>9 DEF xs, NumbersIn
  <2>2. ys = {}
    BY <1>4, <1>9, <2>1
  <2>3. w.min = NaN /\ w.max = NaN /\ w.avg = NaN
    BY <1>3, <1>7, <1>9, <2>1 DEF CalcMinimum, CalcMaximum, CalcAverage
  <2> QED
    BY <2>2, <2>3, Zenon DEF Summarises, w, ys, t
<1>10. CASE x # NaN /\ xs = {}
  <2>1. x \in Int
    BY <1>10 DEF Value
  <2>2. ys = { x }
    BY <1>4, <1>10
  <2>3. w.min = x /\ w.max = x /\ w.avg = << x, 1 >>
    BY <1>3, <1>7, <1>10 DEF CalcMinimum, CalcMaximum, CalcAverage
  <2>4. Least(w.min, ys) /\ Greatest(w.max, ys)
    BY <2>1, <2>2, <2>3 DEF Least, Greatest
  <2>5. ASSUME \A i \in 1 .. c + 1 : t[i] # NaN PROVE x * (c + 1) = 1 * SumOf(t)
    <3>1. \A i \in 1 .. c : i \in 1 .. c + 1
      OBVIOUS
    <3>2. 1 .. c = {}
      BY <1>2, <1>6, <1>10, <2>5, <3>1, Zenon
    <3>3. c = 0
      BY <3>2
    <3>4. s = <<>>
      BY <1>1, <3>3
    <3>5. SumOf(t) = 0 + x
      <4>1. <<>> \in Seq(Int)
        OBVIOUS
      <4>2. SumOf(t) = SumOf(<<>>) + x
        BY <2>1, <3>4, <4>1, TotalOfAppend, Zenon DEF t
      <4> QED
        BY <4>2, TotalOfNone, Zenon
    <3> QED
      BY <2>1, <3>3, <3>5
  <2>6. MeanOf(w, t)
    <3>1. << x, 1 >> \in Int \X Int /\ << x, 1 >>[1] = x /\ << x, 1 >>[2] = 1
      BY <2>1
    <3>2. 1 > 0 /\ x * 1 <= x /\ x <= x * 1
      BY <2>1
    <3> QED
      BY <1>1, <2>3, <2>5, <3>1, <3>2, Zenon DEF MeanOf
  <2> QED
    BY <2>2, <2>4, <2>6, Zenon DEF Summarises, w, ys, t
<1>11. CASE x # NaN /\ xs # {}
  <2>1. x \in Int /\ Least(v.min, xs) /\ Greatest(v.max, xs) /\ MeanOf(v, s)
    BY <1>7, <1>11 DEF Value
  <2>2. v.min \in Int /\ v.max \in Int /\ v.min # NaN /\ v.max # NaN
    BY <1>5, <1>8, <2>1 DEF Least, Greatest
  <2>3. PICK n \in Int, d \in Nat \ { 0 } :
          /\ v.avg = << n, d >> /\ v.avg # NaN
          /\ v.min * d <= n /\ n <= v.max * d
          /\ (\A i \in 1 .. c : s[i] # NaN) => n * c = d * SumOf(s)
    <3>1. v.avg[1] \in Int /\ v.avg[2] \in Nat \ { 0 } /\ v.avg = << v.avg[1], v.avg[2] >>
      BY <2>1 DEF MeanOf
    <3>2. v.avg # NaN
      BY <1>8, <2>1 DEF MeanOf
    <3> QED
      BY <1>1, <2>1, <3>1, <3>2, Zenon DEF MeanOf
  <2>4. /\ w.min = (IF x < v.min THEN x ELSE v.min) /\ w.max = (IF x > v.max THEN x ELSE v.max)
        /\ w.avg = << n * c + x * d, d * (c + 1) >>
    <3>1. /\ w.min = (IF x < v.min THEN x ELSE v.min)
          /\ w.max = (IF x > v.max THEN x ELSE v.max)
      BY <1>3, <1>11, <2>2 DEF CalcMinimum, CalcMaximum
    <3>2. w.avg = << v.avg[1] * c + x * v.avg[2], v.avg[2] * (c + 1) >>
      BY <1>3, <1>11, <2>3, Zenon DEF CalcAverage
    <3>3. v.avg[1] = n /\ v.avg[2] = d
      BY <2>3
    <3> QED
      BY <3>1, <3>2, <3>3, Zenon
  <2>5. /\ w.min \in Int /\ w.min <= x /\ w.min <= v.min
        /\ w.max \in Int /\ x <= w.max /\ v.max <= w.max
    BY <2>1, <2>2, <2>4
  <2>6. ys = xs \cup { x }
    BY <1>4, <1>11
  <2>7. Least(w.min, ys)
    BY <1>5, <2>1, <2>2, <2>4, <2>6 DEF Least
  <2>8. Greatest(w.max, ys)
    BY <1>5, <2>1, <2>2, <2>4, <2>6 DEF Greatest
  <2>9. w.min * (d * (c + 1)) <= n * c + x * d
    BY <2>1, <2>2, <2>3, <2>5, MeanAbove
  <2>10. n * c + x * d <= w.max * (d * (c + 1))
    BY <2>1, <2>2, <2>3, <2>5, MeanBelow
  <2>11. ASSUME \A i \in 1 .. c + 1 : t[i] # NaN
         PROVE  (n * c + x * d) * (c + 1) = (d * (c + 1)) * SumOf(t)
    <3>1. \A i \in 1 .. c : i \in 1 .. c + 1
      OBVIOUS
    <3>2. \A i \in 1 .. c : s[i] # NaN
      BY <1>2, <2>11, <3>1, Zenon
    <3>3. s \in Seq(Int)
      BY <1>1, <3>2 DEF Value
    <3>4. SumOf(t) = SumOf(s) + x /\ SumOf(s) \in Int
      BY <2>1, <3>3, TotalOfAppend, TotalType DEF t
    <3>5. n * c = d * SumOf(s)
      BY <2>3, <3>2, Zenon
    <3>6. (n * c + x * d) * (c + 1) = (d * (c + 1)) * (SumOf(s) + x)
      <4> DEFINE u == SumOf(s)
      <4>1. u \in Int /\ n * c = d * u
        BY <3>4, <3>5, Zenon
      <4> HIDE DEF u
      <4>2. (n * c + x * d) * (c + 1) = (d * (c + 1)) * (u + x)
        BY <2>1, <4>1, MeanExact
      <4> QED
        BY <4>2, Zenon DEF u
    <3> QED
      BY <3>4, <3>6, Zenon
  <2>12. MeanOf(w, t)
    <3>1. n * c + x * d \in Int /\ d * (c + 1) \in Int /\ d * (c + 1) > 0
      <4>1. d >= 1 /\ c + 1 \in Nat /\ c + 1 >= 1
        OBVIOUS
      <4>2. 1 * (c + 1) <= d * (c + 1)
        BY <4>1, ProductOrder
      <4> QED
        BY <2>1, <4>1, <4>2
    <3> DEFINE p == n * c + x * d
               q == d * (c + 1)
    <3>2. /\ w.avg = << p, q >> /\ p \in Int /\ q \in Int /\ q > 0
          /\ w.min * q <= p /\ p <= w.max * q
          /\ (\A i \in 1 .. c + 1 : t[i] # NaN) => p * (c + 1) = q * SumOf(t)
      BY <2>4, <2>9, <2>10, <2>11, <3>1, Zenon
    <3> HIDE DEF p, q
    <3>3. w.avg[1] = p /\ w.avg[2] = q /\ w.avg \in Int \X Int
      BY <3>2
    <3> QED
      BY <1>1, <3>2, <3>3, Zenon DEF MeanOf
  <2> QED
    BY <2>6, <2>7, <2>8, <2>12, Zenon DEF Summarises, w, ys, t
<1> QED
  BY <1>9, <1>10, <1>11

-----------------------------------------------------------------------------
(* The invariant of the lines *)

\* The items whose columns show what they say, and the values of a register in rs.
Shown == Ids["minMax"] \ { "suctionTemp" }
PollRecord == [Ids["minMax"] -> Value]
Column(rs, id) == [i \in DOMAIN rs |-> rs[i][id]]

\* The record r is what has been made of the poll records rs, in this order.
MadeOf(r, rs) ==
  /\ r \in [count : Nat, minMax : Seq(Summary)]
  /\ r.count = Len(rs) /\ Len(r.minMax) = 51
  /\ \A k \in 1 .. 51 :
       /\ r.minMax[k].id = Header[k + 3].id
       /\ r.minMax[k].id \in Shown =>
            Summarises(r.minMax[k], Column(rs, r.minMax[k].id))

LinesInv ==
  /\ inputs \in Seq(PollRecord) /\ recordCount = Len(inputs)
  /\ current = Null => inputs = <<>>
  /\ current # Null => MadeOf(current, inputs)

LEMMA ItemIdsAre ==
  /\ "liquidLineTemp" \in Ids["minMax"]
  /\ \A i \in 4 .. 22 : Header[i].id \in Ids["minMax"]
  /\ \A k \in 1 .. 51 : Header[k + 3].id \in { Header[i].id : i \in DOMAIN Header }
<1>1. Ids["minMax"] = { Header[i].id : i \in { j \in 1 .. 54 : Header[j].kind = "minMax" } }
  BY HeaderShape DEF Ids, Kinds
<1>2. \A i \in 4 .. 22 : i \in 1 .. 54
  OBVIOUS
<1>3. \A i \in 4 .. 22 : Header[i].id \in Ids["minMax"]
  BY <1>1, <1>2, HeaderShape, Zenon
<1>4. 18 \in 4 .. 22
  OBVIOUS
<1>5. "liquidLineTemp" \in Ids["minMax"]
  <2>1. Header[18].id \in Ids["minMax"]
    BY <1>3, <1>4, Zenon
  <2>2. Header[18].id = "liquidLineTemp"
    BY HeaderShape, Zenon
  <2> QED
    BY <2>1, <2>2, Zenon
<1>6. \A k \in 1 .. 51 : k + 3 \in 1 .. 54
  OBVIOUS
<1>7. \A k \in 1 .. 51 : Header[k + 3].id \in { Header[i].id : i \in DOMAIN Header }
  BY <1>6, HeaderShape, Zenon
<1> QED
  BY <1>3, <1>5, <1>7, Zenon

LEMMA ColumnOf ==
  ASSUME NEW rs \in Seq(PollRecord), NEW id \in Ids["minMax"]
  PROVE  /\ Column(rs, id) \in Seq(Value) /\ Len(Column(rs, id)) = Len(rs)
         /\ \A record \in PollRecord :
              Column(Append(rs, record), id) = Append(Column(rs, id), record[id])
<1>1. PICK n \in Nat : rs \in [1 .. n -> PollRecord] /\ DOMAIN rs = 1 .. n /\ Len(rs) = n
  OBVIOUS
<1>2. \A i \in 1 .. n : rs[i][id] \in Value
  BY <1>1 DEF PollRecord
<1>3. Column(rs, id) = [i \in 1 .. n |-> rs[i][id]]
  BY <1>1, Zenon DEF Column
<1>4. Column(rs, id) \in Seq(Value) /\ Len(Column(rs, id)) = n
  BY <1>2, <1>3
<1>5. ASSUME NEW record \in PollRecord
      PROVE  Column(Append(rs, record), id) = Append(Column(rs, id), record[id])
  <2> DEFINE us == Append(rs, record)
             c == Column(rs, id)
             e == Column(us, id)
             f == Append(c, record[id])
  <2>1. /\ DOMAIN us = 1 .. n + 1 /\ us[n + 1] = record
        /\ \A i \in 1 .. n : us[i] = rs[i]
    BY <1>1
  <2>2. /\ DOMAIN c = 1 .. n /\ \A i \in 1 .. n : c[i] = rs[i][id]
    BY <1>3
  <2>3. c \in Seq(Value) /\ Len(c) = n
    BY <1>4
  <2> HIDE DEF us, c
  <2>4. e = [i \in 1 .. n + 1 |-> us[i][id]]
    BY <2>1, Zenon DEF Column
  <2>5. /\ f = [i \in 1 .. n + 1 |-> f[i]] /\ f[n + 1] = record[id]
        /\ \A i \in 1 .. n : f[i] = c[i]
    BY <2>3
  <2>6. ASSUME NEW i \in 1 .. n + 1 PROVE us[i][id] = f[i]
    BY <2>1, <2>2, <2>5
  <2> HIDE DEF e, f
  <2>7. e = f
    BY <2>4, <2>5, <2>6, Zenon
  <2> QED
    BY <2>7 DEF e, f, us, c
<1> QED
  BY <1>1, <1>4, <1>5

LEMMA NewRecordMade == MadeOf(NewRecord, <<>>)
<1> DEFINE f == [k \in 1 .. 51 |-> NoSummary(Header[k + 3].id)]
           r == [count |-> 0, minMax |-> f]
<1>1. \A k \in 1 .. 51 :
        /\ NoSummary(Header[k + 3].id) \in Summary
        /\ NoSummary(Header[k + 3].id).id = Header[k + 3].id
        /\ NoSummary(Header[k + 3].id).min = NaN
        /\ NoSummary(Header[k + 3].id).avg = NaN
        /\ NoSummary(Header[k + 3].id).max = NaN
  BY ItemIdsAre DEF NoSummary, Summary
<1>2. f \in Seq(Summary) /\ Len(f) = 51
  BY <1>1
<1>3. \A k \in 1 .. 51 : f[k].id = Header[k + 3].id
                         /\ f[k].min = NaN /\ f[k].avg = NaN /\ f[k].max = NaN
  BY <1>1
<1> HIDE DEF f
<1>4. \A id : NumbersIn(Column(<<>>, id)) = {}
  BY DEF Column, NumbersIn
<1>5. \A k \in 1 .. 51 : Summarises(f[k], Column(<<>>, f[k].id))
  BY <1>3, <1>4, Zenon DEF Summarises
<1>6. r \in [count : Nat, minMax : Seq(Summary)] /\ r.count = Len(<<>>) /\ r.minMax = f
  BY <1>2
<1>7. MadeOf(r, <<>>)
  <2> HIDE DEF r
  <2> QED
    BY <1>2, <1>3, <1>5, <1>6, Zenon DEF MadeOf
<1>8. NewRecord = r
  BY NewRecordShape, Zenon DEF f
<1> QED
  BY <1>7, <1>8, Zenon

LEMMA SummariesOf ==
  \A f \in Seq(Summary) : Len(f) = 51 =>
    DOMAIN f = 1 .. 51 /\ \A k \in 1 .. 51 : f[k] \in Summary
<1> SUFFICES ASSUME NEW f \in Seq(Summary), Len(f) = 51
             PROVE  DOMAIN f = 1 .. 51 /\ \A k \in 1 .. 51 : f[k] \in Summary
  OBVIOUS
<1>1. DOMAIN f = 1 .. Len(f)
  OBVIOUS
<1>2. \A k \in 1 .. Len(f) : f[k] \in Summary
  BY ElementOfSeq
<1> QED
  BY <1>1, <1>2, Zenon

LEMMA RecordAdded ==
  ASSUME NEW rs \in Seq(PollRecord), NEW r, MadeOf(r, rs), NEW record \in PollRecord,
         \A id \in DOMAIN record : record[id] = NaN => \A i \in DOMAIN rs : rs[i][id] = NaN
  PROVE  MadeOf(AddMonitorRecord(r, record), Append(rs, record))
<1> DEFINE M == Ids["minMax"]
           f == r.minMax
           v(k) == HandleValue(f[k], r.count, ValueFor(f[k].id, record))
           g == [k \in 1 .. 51 |-> IF f[k].id \in M THEN v(k) ELSE f[k]]
           q == [count |-> r.count + 1, minMax |-> g]
           us == Append(rs, record)
<1>1. /\ r.count \in Nat /\ r.count = Len(rs) /\ f \in Seq(Summary) /\ DOMAIN f = 1 .. 51
      /\ \A k \in 1 .. 51 : f[k] \in Summary
  <2>1. /\ r \in [count : Nat, minMax : Seq(Summary)]
        /\ r.count = Len(rs) /\ Len(r.minMax) = 51
    BY Zenon DEF MadeOf
  <2>2. r.count \in Nat /\ f \in Seq(Summary) /\ Len(f) = 51
    BY <2>1
  <2> HIDE DEF f
  <2>3. DOMAIN f = 1 .. 51 /\ \A k \in 1 .. 51 : f[k] \in Summary
    BY <2>2, SummariesOf, Zenon
  <2> QED
    BY <2>1, <2>2, <2>3, Zenon
<1>2. \A k \in 1 .. 51 : /\ f[k].id = Header[k + 3].id
                         /\ f[k].id \in Shown => Summarises(f[k], Column(rs, f[k].id))
  BY Zenon DEF MadeOf
<1>3. AddMonitorRecord(r, record) = q
  BY <1>1, Zenon DEF AddMonitorRecord
<1> HIDE DEF M, f
<1>4. \A id \in M : ValueFor(id, record) \in Value
  BY ItemIdsAre DEF ValueFor, PollRecord, M
<1>5. ASSUME NEW k \in 1 .. 51 PROVE g[k] \in Summary /\ g[k].id = f[k].id
  <2>1. CASE f[k].id \in M
    <3>1. v(k) \in Summary /\ v(k).id = f[k].id
      BY <1>1, <1>4, <2>1, HandleValueType
    <3> QED
      BY <2>1, <3>1
  <2>2. CASE f[k].id \notin M
    BY <1>1, <2>2
  <2> QED
    BY <2>1, <2>2
<1>6. ASSUME NEW k \in 1 .. 51, f[k].id \in Shown
      PROVE  Summarises(g[k], Column(us, f[k].id))
  <2> DEFINE id == f[k].id
             c == Column(rs, id)
  <2>1. id \in M /\ id # "suctionTemp"
    BY <1>6 DEF Shown, M
  <2>2. g[k] = HandleValue(f[k], Len(rs), record[id])
    BY <1>1, <2>1 DEF ValueFor
  <2>3. c \in Seq(Value) /\ Len(c) = Len(rs) /\ Column(us, id) = Append(c, record[id])
    BY <2>1, ColumnOf DEF M
  <2>4. record[id] \in Value
    BY <2>1 DEF PollRecord, M
  <2>5. record[id] = NaN => \A i \in DOMAIN c : c[i] = NaN
    BY <2>1 DEF PollRecord, Column, M
  <2>6. f[k] \in Summary /\ Summarises(f[k], c)
    BY <1>1, <1>2, <1>6
  <2> HIDE DEF id, c, g, us
  <2>7. Summarises(HandleValue(f[k], Len(c), record[id]), Append(c, record[id]))
    BY <2>3, <2>4, <2>5, <2>6, SummaryStep
  <2>8. Summarises(g[k], Column(us, id))
    BY <2>2, <2>3, <2>7, Zenon
  <2> QED
    BY <2>8 DEF id
<1>7. g \in Seq(Summary) /\ Len(g) = 51
  <2> DEFINE w(k) == IF f[k].id \in M THEN v(k) ELSE f[k]
  <2>1. g = [k \in 1 .. 51 |-> w(k)] /\ \A k \in 1 .. 51 : g[k] = w(k)
    OBVIOUS
  <2> HIDE DEF w, v, g
  <2>2. \A k \in 1 .. 51 : w(k) \in Summary
    BY <1>5, <2>1, Zenon
  <2>3. [k \in 1 .. 51 |-> w(k)] \in Seq(Summary) /\ Len([k \in 1 .. 51 |-> w(k)]) = 51
    BY <2>2
  <2> QED
    BY <2>1, <2>3, Zenon
<1> HIDE DEF g
<1>8. /\ q \in [count : Nat, minMax : Seq(Summary)]
      /\ q.count = Len(us) /\ q.minMax = g
  BY <1>1, <1>7
<1> HIDE DEF q, us
<1>9. MadeOf(q, us)
  BY <1>2, <1>5, <1>6, <1>7, <1>8, Zenon DEF MadeOf
<1> QED
  BY <1>3, <1>9, Zenon DEF us

LEMMA LinesInit == StatisticsInit => LinesInv
<1> SUFFICES ASSUME StatisticsInit PROVE LinesInv
  OBVIOUS
<1>1. current = Null /\ recordCount = 0 /\ inputs = <<>>
  BY Zenon DEF StatisticsInit
<1>2. <<>> \in Seq(PollRecord) /\ Len(<<>>) = 0
  OBVIOUS
<1> QED
  BY <1>1, <1>2, Zenon DEF LinesInv

LEMMA RecordLines ==
  ASSUME LinesInv, NEW record \in PollRecord, Readable(record), HandleMonitorRecord(record)
  PROVE  LinesInv'
<1>1. /\ current' = AddMonitorRecord(Current, record) /\ recordCount' = recordCount + 1
      /\ inputs' = Append(inputs, record)
  BY Zenon DEF HandleMonitorRecord
<1>2. inputs \in Seq(PollRecord) /\ recordCount = Len(inputs)
  BY Zenon DEF LinesInv
<1>3. MadeOf(Current, inputs)
  BY NewRecordMade, Zenon DEF LinesInv, Current
<1>4. \A id \in DOMAIN record :
        record[id] = NaN => \A i \in DOMAIN inputs : inputs[i][id] = NaN
  BY Zenon DEF Readable
<1>5. MadeOf(current', inputs')
  BY <1>1, <1>2, <1>3, <1>4, RecordAdded, Zenon
<1>6. current' # Null
  BY <1>5, RecordAssumption, Zenon DEF MadeOf
<1>7. inputs' \in Seq(PollRecord) /\ recordCount' = Len(inputs')
  BY <1>1, <1>2
<1> QED
  BY <1>5, <1>6, <1>7, Zenon DEF LinesInv

LEMMA SameLines == LinesInv /\ UNCHANGED << current, recordCount, inputs >> => LinesInv'
BY Zenon DEF LinesInv

LEMMA TimerLines == LinesInv /\ HandleTimer => LinesInv'
<1> SUFFICES ASSUME LinesInv, HandleTimer PROVE LinesInv'
  OBVIOUS
<1>1. CASE recordCount = 0
  <2>1. UNCHANGED << current, recordCount, inputs >>
    BY <1>1, Zenon DEF HandleTimer
  <2> QED
    BY <2>1, SameLines
<1>2. CASE recordCount # 0
  <2>1. current' = NewRecord /\ recordCount' = 0 /\ inputs' = <<>>
    BY <1>2, Zenon DEF HandleTimer
  <2>2. <<>> \in Seq(PollRecord) /\ Len(<<>>) = 0
    OBVIOUS
  <2> QED
    BY <2>1, <2>2, NewRecordMade, Zenon DEF LinesInv
<1> QED
  BY <1>1, <1>2

LEMMA NextLines == LinesInv /\ [Next]_vars => LinesInv'
<1> SUFFICES ASSUME LinesInv, [Next]_vars PROVE LinesInv'
  OBVIOUS
<1>1. MonitorRecords \subseteq PollRecord
  BY ServerAssumption, HeaderAssumption DEF PollRecord, Value
<1>2. CASE Record
  <2>1. CASE UNCHANGED << current, recordCount, inputs >>
    BY <2>1, SameLines
  <2>2. CASE \E record \in MonitorRecords : Readable(record) /\ HandleMonitorRecord(record)
    BY <1>1, <2>2, RecordLines
  <2> QED
    BY <1>2, <2>1, <2>2, Zenon DEF Record
<1>3. CASE PollServes \/ PollReads
  BY <1>2, <1>3, Zenon DEF PollServes, PollReads
<1>4. CASE Timer
  BY <1>4, TimerLines DEF Timer
<1>5. CASE Appended \/ Executed \/ UNCHANGED vars
  <2>1. UNCHANGED << current, recordCount, inputs >>
    BY <1>5, Zenon DEF Appended, AppendEnds, Executed, vars, statistics
  <2> QED
    BY <2>1, SameLines
<1> QED
  BY <1>3, <1>4, <1>5, Zenon DEF Next

-----------------------------------------------------------------------------
(* What the cells show *)

LEMMA SummaryShows ==
  ASSUME NEW id \in Ids["minMax"], NEW v, inputs \in Seq(PollRecord),
         Summarises(v, Column(inputs, id))
  PROVE  /\ Shows(v.min, << id, "min" >>) /\ Shows(v.avg, << id, "avg" >>)
         /\ Shows(v.max, << id, "max" >>)
<1> DEFINE c == Column(inputs, id)
           xs == NumbersIn(c)
           lo == << id, "min" >>
           av == << id, "avg" >>
           hi == << id, "max" >>
<1>1. ValuesOf(id) = c /\ DOMAIN c = DOMAIN inputs /\ Len(c) = Len(inputs)
  BY ColumnOf DEF ValuesOf, Column
<1>2. NumbersOf(id) = xs
  BY <1>1, Zenon DEF NumbersOf, NumbersIn
<1>3. /\ lo[1] = id /\ av[1] = id /\ hi[1] = id
      /\ lo[2] = "min" /\ av[2] = "avg" /\ hi[2] = "max"
  OBVIOUS
<1> HIDE DEF c, xs, lo, av, hi
<1>4. IF xs = {} THEN v.min = NaN /\ v.avg = NaN /\ v.max = NaN
      ELSE Least(v.min, xs) /\ Greatest(v.max, xs) /\ MeanOf(v, c)
  BY Zenon DEF Summarises, xs, c
<1>5. Shows(v.min, lo)
  BY <1>2, <1>3, <1>4 DEF Shows, Least
<1>6. Shows(v.max, hi)
  BY <1>2, <1>3, <1>4 DEF Shows, Greatest
<1>7. Shows(v.avg, av)
  <2>1. CASE xs = {}
    BY <1>2, <1>3, <1>4, <2>1 DEF Shows
  <2>2. CASE xs # {}
    <3>1. \E x, y \in xs : x * v.avg[2] <= v.avg[1] /\ v.avg[1] <= y * v.avg[2]
      BY <1>4, <2>2, Zenon DEF Least, Greatest, MeanOf
    <3>2. (\A i \in DOMAIN inputs : ValuesOf(id)[i] # NaN) =>
            v.avg[1] * Len(inputs) = v.avg[2] * SumOf(ValuesOf(id))
      BY <1>1, <1>4, <2>2, Zenon DEF MeanOf
    <3> QED
      BY <1>2, <1>3, <2>2, <3>1, <3>2 DEF Shows
  <2> QED
    BY <2>1, <2>2
<1> QED
  BY <1>5, <1>6, <1>7, Zenon DEF lo, av, hi

LEMMA HeaderIs ==
  /\ DOMAIN ToHeader = 1 .. 54
  /\ \A i \in 1 .. 54 : ToHeader[i] = HeaderCells(Header[i])
  /\ \A r : \A i \in 1 .. 54 : ToLine(r)[i] = LineCells(r, i)
  /\ \A i \in 4 .. 22 : IndexOf[i] = i - 3
<1>1. ToHeader = [i \in 1 .. 54 |-> HeaderCells(Header[i])]
  BY HeaderShape, Zenon DEF ToHeader
<1>2. \A r : ToLine(r) = [i \in 1 .. 54 |-> LineCells(r, i)]
  BY HeaderShape, Zenon DEF ToLine
<1>3. ASSUME NEW i \in 4 .. 22 PROVE IndexOf[i] = i - 3
  <2>1. i \in 1 .. 54 /\ i \in 4 .. 54 /\ i - 3 - 2 * 0 = i - 3
    OBVIOUS
  <2>2. IndexOf[i] = i - Before(i, "record") - 2 * Before(i, "single")
    BY <2>1, HeaderShape, Zenon DEF IndexOf
  <2>3. Before(i, "record") = 3 /\ Before(i, "single") = 0
    BY <2>1, BeforeItem, Zenon
  <2> QED
    BY <2>1, <2>2, <2>3, Zenon
<1> QED
  BY <1>1, <1>2, <1>3, Zenon

\* The cells of an item show what its columns say.
CellsRight(i) ==
  /\ Len(ToLine(current)[i]) = Len(ToHeader[i])
  /\ \A k \in DOMAIN ToHeader[i] :
       ToHeader[i][k][1] = "suctionTemp" \/ Shows(ToLine(current)[i][k], ToHeader[i][k])

LEMMA RecordCells ==
  ASSUME current.count = Len(inputs), NEW i \in 1 .. 3
  PROVE  CellsRight(i)
<1> DEFINE h == Header[i]
           column == << h.id, "record" >>
           cell == IF h.id = "cnt" THEN current.count ELSE Null
<1>1. h.kind = "record" /\ i \in 1 .. 54
  <2>1. i \in 1 .. 54
    OBVIOUS
  <2> QED
    BY <2>1, HeaderShape, Zenon
<1> HIDE DEF h
<1>2. ToHeader[i] = << column >> /\ ToLine(current)[i] = << cell >>
  <2>1. HeaderCells(h) = << column >>
    BY <1>1, Zenon DEF HeaderCells
  <2>2. LineCells(current, i) = << cell >>
    BY <1>1, Zenon DEF LineCells, h
  <2> QED
    BY <1>1, <2>1, <2>2, HeaderIs, Zenon DEF h
<1>3. column[1] = h.id /\ column[2] = "record"
  OBVIOUS
<1> HIDE DEF column
<1>4. Shows(cell, column)
  BY <1>3, Zenon DEF Shows
<1> DEFINE line == << cell >>
           header == << column >>
<1> HIDE DEF cell
<1>5. /\ Len(line) = Len(header) /\ DOMAIN header = { 1 }
      /\ line[1] = cell /\ header[1] = column
  OBVIOUS
<1> HIDE DEF line, header
<1>6. \A k \in { 1 } : Shows(line[k], header[k])
  BY <1>4, <1>5, Zenon
<1>7. ToLine(current)[i] = line /\ ToHeader[i] = header
  BY <1>2, Zenon DEF line, header
<1> QED
  BY <1>5, <1>6, <1>7, Zenon DEF CellsRight

LEMMA SingleCells == \A i \in 23 .. 54 : CellsRight(i)
<1> SUFFICES ASSUME NEW i \in 23 .. 54 PROVE CellsRight(i)
  OBVIOUS
<1> DEFINE h == Header[i]
           value == << h.id, "value" >>
           date == << h.id, "date" >>
           cell == IF singles[h.id] = Null THEN 0 ELSE singles[h.id]
<1>1. h.kind = "single" /\ i \in 1 .. 54
  <2>1. i \in 1 .. 54
    OBVIOUS
  <2> QED
    BY <2>1, HeaderShape, Zenon
<1> HIDE DEF h
<1>2. ToHeader[i] = << value, date >> /\ ToLine(current)[i] = << cell, Null >>
  <2>1. HeaderCells(h) = << value, date >>
    BY <1>1, Zenon DEF HeaderCells
  <2>2. LineCells(current, i) = << cell, Null >>
    BY <1>1, Zenon DEF LineCells, h
  <2> QED
    BY <1>1, <2>1, <2>2, HeaderIs, Zenon DEF h
<1>3. value[1] = h.id /\ value[2] = "value" /\ date[2] = "date"
  OBVIOUS
<1> HIDE DEF value, date
<1>4. Shows(cell, value) /\ Shows(Null, date)
  BY <1>3, Zenon DEF Shows
<1> DEFINE line == << cell, Null >>
           header == << value, date >>
<1> HIDE DEF cell
<1>5. /\ Len(line) = Len(header) /\ DOMAIN header = { 1, 2 }
      /\ line[1] = cell /\ line[2] = Null /\ header[1] = value /\ header[2] = date
  OBVIOUS
<1> HIDE DEF line, header
<1>6. \A k \in { 1, 2 } : Shows(line[k], header[k])
  BY <1>4, <1>5, Zenon
<1>7. ToLine(current)[i] = line /\ ToHeader[i] = header
  BY <1>2, Zenon DEF line, header
<1> QED
  BY <1>5, <1>6, <1>7, Zenon DEF CellsRight

LEMMA MinMaxCells ==
  ASSUME inputs \in Seq(PollRecord), MadeOf(current, inputs), NEW i \in 4 .. 22
  PROVE  CellsRight(i)
<1> DEFINE id == Header[i].id
           v == current.minMax[i - 3]
           lo == << id, "min" >>
           av == << id, "avg" >>
           hi == << id, "max" >>
<1>1. Header[i].kind = "minMax" /\ i \in 1 .. 54 /\ i - 3 \in 1 .. 51 /\ i - 3 + 3 = i
  <2>1. i \in 1 .. 54 /\ i - 3 \in 1 .. 51 /\ i - 3 + 3 = i
    OBVIOUS
  <2> QED
    BY <2>1, HeaderShape, Zenon
<1>2. v.id = id /\ (v.id \in Shown => Summarises(v, Column(inputs, v.id)))
  BY <1>1, Zenon DEF MadeOf
<1>3. id \in Ids["minMax"]
  BY ItemIdsAre, Zenon
<1>4. IndexOf[i] = i - 3
  BY HeaderIs, Zenon
<1>5. ToHeader[i] = << lo, av, hi >>
  <2>1. HeaderCells(Header[i]) = << lo, av, hi >>
    BY <1>1, Zenon DEF HeaderCells
  <2> QED
    BY <1>1, <2>1, HeaderIs, Zenon
<1>6. ToLine(current)[i] = << v.min, v.avg, v.max >>
  <2>1. LineCells(current, i) = << v.min, v.avg, v.max >>
    BY <1>1, <1>2, <1>4, Zenon DEF LineCells
  <2> QED
    BY <1>1, <2>1, HeaderIs, Zenon
<1>7. lo[1] = id /\ av[1] = id /\ hi[1] = id
  OBVIOUS
<1>8. id # "suctionTemp" => Shows(v.min, lo) /\ Shows(v.avg, av) /\ Shows(v.max, hi)
  BY <1>2, <1>3, SummaryShows, Zenon DEF Shown
<1> DEFINE line == << v.min, v.avg, v.max >>
           header == << lo, av, hi >>
<1> HIDE DEF id, v, lo, av, hi
<1>9. /\ Len(line) = Len(header) /\ DOMAIN header = { 1, 2, 3 }
      /\ line[1] = v.min /\ line[2] = v.avg /\ line[3] = v.max
      /\ header[1] = lo /\ header[2] = av /\ header[3] = hi
  OBVIOUS
<1> HIDE DEF line, header
<1>10. \A k \in { 1, 2, 3 } : header[k][1] = "suctionTemp" \/ Shows(line[k], header[k])
  BY <1>7, <1>8, <1>9, Zenon
<1>11. ToLine(current)[i] = line /\ ToHeader[i] = header
  BY <1>5, <1>6, Zenon DEF line, header, id, v, lo, av, hi
<1> QED
  BY <1>9, <1>10, <1>11, Zenon DEF CellsRight

LEMMA LinesInvUse == LinesInv => LineIsRight
<1> SUFFICES ASSUME LinesInv, recordCount > 0 PROVE LineIsRight
  BY Zenon DEF LineIsRight
<1>1. current # Null
  <2>1. CASE current = Null
    <3>1. recordCount = Len(<<>>)
      BY <2>1, Zenon DEF LinesInv
    <3> QED
      BY <3>1
  <2> QED
    BY <2>1
<1>2. inputs \in Seq(PollRecord) /\ recordCount = Len(inputs) /\ MadeOf(current, inputs)
  BY <1>1, Zenon DEF LinesInv
<1>3. current.count = Len(inputs)
  BY <1>2, Zenon DEF MadeOf
<1>4. \A i \in 1 .. 54 : i \in 1 .. 3 \/ i \in 4 .. 22 \/ i \in 23 .. 54
  OBVIOUS
<1>5. \A i \in 1 .. 3 : CellsRight(i)
  BY <1>3, RecordCells, Zenon
<1>6. \A i \in 4 .. 22 : CellsRight(i)
  BY <1>2, MinMaxCells, Zenon
<1>7. \A i \in DOMAIN ToHeader : CellsRight(i)
  BY <1>4, <1>5, <1>6, SingleCells, HeaderIs, Zenon
<1> QED
  BY <1>1, <1>2, <1>3, <1>7, Zenon DEF LineIsRight, CellsRight

\* Whatever records the polls hand over, and however many, the line the timer makes of
\* them has in every column what the header says: the extremes of the records of this
\* slot, their mean (between the extremes, and exact when every record has a value), the
\* last single value; suctionTemp excepted (handleMonitorRecord(), handleTimer(), toLine()).
THEOREM LinesAreRight == Spec => []LineIsRight
<1>1. Init => LinesInv
  BY LinesInit DEF Init
<1>2. QED
  BY <1>1, LinesInvUse, NextLines, PTL DEF Spec
=============================================================================
