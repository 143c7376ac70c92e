-------------------------- MODULE Messaging_proofs --------------------------
(***************************************************************************)
(* Proofs about MessageRegistry, for every set of programs and of types    *)
(* and every order of the calls, and, in the last part, about LocalServer, *)
(* whose messages need no network, for every set of connection numbers.    *)
(*                                                                         *)
(* What a receiver makes of a number is known from the two registries, and *)
(* these from the calls: a type's number is its Position among the calls   *)
(* of its program (Numbered). A program that runs registers nothing more,  *)
(* so what was dispatched once is still what the registries say (Recorded).*)
(***************************************************************************)
EXTENDS MessageRegistry, LocalServer, FiniteSetTheorems, SequenceTheorems, TLAPS

\* A registry numbers the types of its program by the order of their first calls.
Numbered ==
    \A r \in Sides :
        /\ IsFiniteSet(Registered(r[1])) /\ Len(byId[r]) = Cardinality(Registered(r[1]))
        /\ \A k \in DOMAIN byId[r] :
             byId[r][k] \in Registered(r[1]) /\ byType[r][byId[r][k]] = k
        /\ \A t \in Types :
             IF t \in Registered(r[1])
             THEN /\ byType[r][t] = Position(r[1], t)
                  /\ byType[r][t] \in DOMAIN byId[r] /\ byId[r][byType[r][t]] = t
             ELSE byType[r][t] = 0

\* Every dispatch and every failure was of two programs that ran, and could be
\* repeated with the registries they have.
Recorded ==
    /\ \A d \in dispatched :
         \E r, s \in Sides :
           /\ r[1] = d.from /\ s[1] = d.to /\ {d.from, d.to} \subseteq running
           /\ byType[r][d.type] # 0 /\ d.got = Dispatches(s, byType[r][d.type])
    /\ \A p \in panicked :
         \E r, s \in Sides, t \in Types :
           /\ s[1] = p /\ {r[1], p} \subseteq running
           /\ byType[r][t] # 0 /\ Dispatches(s, byType[r][t]) \notin {t, Unknown}

IInv == TypeOK /\ RegistriesInStep /\ Numbered /\ Recorded

-----------------------------------------------------------------------------
(* Programs and the order of their calls.                                  *)

\* The program a registry belongs to.
LEMMA SideProgram == \A r \in Sides : r[1] \in Programs
BY DEF Sides

\* The types registered up to the first call for one.
UpTo(q, t) == {q[i] : i \in {k \in DOMAIN q : \A j \in 1..(k - 1) : q[j] # t}}

LEMMA PositionUpTo == \A p, t : Position(p, t) = Cardinality(UpTo(calls[p], t))
BY DEF Position, UpTo

\* One more call adds its type.
LEMMA RangeAppend ==
    ASSUME NEW S, NEW q \in Seq(S), NEW t \in S
    PROVE  Range(Append(q, t)) = Range(q) \cup {t}
<1>1. Len(q) \in Nat /\ DOMAIN q = 1..Len(q) /\ DOMAIN Append(q, t) = 1..(Len(q) + 1)
      /\ Append(q, t)[Len(q) + 1] = t /\ \A i \in 1..Len(q) : Append(q, t)[i] = q[i]
  BY LenProperties, AppendProperties
<1> QED BY <1>1 DEF Range

\* A later call does not change what came before the first call for a type.
LEMMA UpToOld ==
    ASSUME NEW S, NEW q \in Seq(S), NEW t \in S, NEW u \in Range(q)
    PROVE  UpTo(Append(q, t), u) = UpTo(q, u)
<1> DEFINE a == Append(q, t)
<1>1. Len(q) \in Nat /\ DOMAIN q = 1..Len(q) /\ DOMAIN a = 1..(Len(q) + 1)
      /\ \A i \in 1..Len(q) : a[i] = q[i]
  BY LenProperties, AppendProperties
<1>2. PICK m \in 1..Len(q) : q[m] = u
  BY <1>1 DEF Range
<1> HIDE DEF a
<1>3. ~ \A j \in 1..((Len(q) + 1) - 1) : a[j] # u
  BY <1>1, <1>2
<1>4. \A k \in 1..Len(q) : (\A j \in 1..(k - 1) : a[j] # u) <=> (\A j \in 1..(k - 1) : q[j] # u)
  BY <1>1
<1>5. {k \in DOMAIN a : \A j \in 1..(k - 1) : a[j] # u}
      = {k \in DOMAIN q : \A j \in 1..(k - 1) : q[j] # u}
  BY <1>1, <1>3, <1>4
<1>6. UpTo(a, u) = UpTo(q, u)
  BY <1>1, <1>5 DEF UpTo
<1> QED BY <1>6 DEF a

\* The first call for a type comes after all the others.
LEMMA UpToNew ==
    ASSUME NEW S, NEW q \in Seq(S), NEW t \in S, t \notin Range(q)
    PROVE  UpTo(Append(q, t), t) = Range(q) \cup {t}
<1> DEFINE a == Append(q, t)
<1>1. Len(q) \in Nat /\ DOMAIN q = 1..Len(q) /\ DOMAIN a = 1..(Len(q) + 1)
      /\ \A i \in 1..Len(q) : a[i] = q[i] /\ a[i] # t
  BY LenProperties, AppendProperties DEF Range
<1>2. Range(a) = Range(q) \cup {t}
  BY RangeAppend
<1> HIDE DEF a
<1>3. {k \in DOMAIN a : \A j \in 1..(k - 1) : a[j] # t} = DOMAIN a
  BY <1>1
<1>4. UpTo(a, t) = Range(a)
  BY <1>3 DEF UpTo, Range
<1> QED BY <1>2, <1>4 DEF a

-----------------------------------------------------------------------------
(* The inductive invariant.                                                *)

LEMMA InitIInv == Init => IInv
<1> SUFFICES ASSUME Init PROVE IInv
  OBVIOUS
<1>1. \A r \in Sides : /\ calls[r[1]] = <<>> /\ byId[r] = <<>>
                       /\ \A t \in Types : byType[r][t] = 0
  BY SideProgram DEF Init
<1>2. \A r \in Sides : Registered(r[1]) = {}
  BY <1>1 DEF Registered, Range
<1>c. \A r \in Sides : IsFiniteSet(Registered(r[1])) /\ Cardinality(Registered(r[1])) = 0
  BY <1>2, FS_EmptySet, Zenon
<1>3. TypeOK
  <2>1. calls \in [Programs -> Seq(Types)] /\ byId \in [Sides -> Seq(Types)]
        /\ byType \in [Sides -> [Types -> Nat]]
    <3>1. <<>> \in Seq(Types) /\ 0 \in Nat
      BY EmptySeq
    <3> QED BY <3>1 DEF Init
  <2>2. \A r \in Sides, t \in Types : byType[r][t] <= Cardinality(Range(calls[r[1]]))
    BY <1>1, <1>c DEF Registered
  <2>3. side \in Settings /\ running = {} /\ panicked = {} /\ dispatched = {}
    BY DEF Init
  <2> QED BY <2>1, <2>2, <2>3 DEF TypeOK
<1>4. Numbered
  BY <1>1, <1>2, <1>c DEF Numbered
<1>5. RegistriesInStep /\ Recorded
  BY DEF Init, RegistriesInStep, Recorded
<1> QED BY <1>3, <1>4, <1>5 DEF IInv

\* What register_message does to one registry: nothing, unless it is of the
\* program that calls; then the type is entered unless it is there.
LEMMA RegisterFacts ==
    ASSUME IInv, NEW p \in Programs, NEW t \in Types, RegisterMessage(p, t), NEW r \in Sides
    PROVE  /\ r[1] # p => /\ calls'[r[1]] = calls[r[1]]
                          /\ byId'[r] = byId[r] /\ byType'[r] = byType[r]
           /\ r[1] = p =>
                /\ calls'[p] = Append(calls[p], t)
                /\ Registered(p)' = Registered(p) \cup {t}
                /\ t \in Registered(p) => byId'[r] = byId[r] /\ byType'[r] = byType[r]
                /\ t \notin Registered(p) =>
                     /\ byId'[r] = Append(byId[r], t)
                     /\ byType'[r] = [byType[r] EXCEPT ![t] = Len(byId[r]) + 1]
<1>1. r[1] \in Programs
  BY SideProgram
<1>2. calls \in [Programs -> Seq(Types)] /\ calls' = [calls EXCEPT ![p] = Append(@, t)]
  BY DEF IInv, TypeOK, RegisterMessage
<1>3. Registered(p)' = Registered(p) \cup {t}
  BY <1>2, RangeAppend DEF Registered
<1>4. r[1] = p => (IsNew(r, t) <=> t \notin Registered(p))
  <2>1. Len(byId[r]) \in Nat /\ DOMAIN byId[r] = 1..Len(byId[r])
    BY LenProperties DEF IInv, TypeOK
  <2> QED BY <2>1 DEF IInv, Numbered, IsNew
<1> QED BY <1>1, <1>2, <1>3, <1>4 DEF RegisterMessage, NewId

\* Registering keeps the numbers in the order of the first calls.
LEMMA NumberedRegister ==
    ASSUME IInv, NEW p \in Programs, NEW t \in Types, RegisterMessage(p, t)
    PROVE  Numbered'
<1> DEFINE NumberedAt(r) ==
        /\ IsFiniteSet(Registered(r[1])) /\ Len(byId[r]) = Cardinality(Registered(r[1]))
        /\ \A k \in DOMAIN byId[r] :
             byId[r][k] \in Registered(r[1]) /\ byType[r][byId[r][k]] = k
        /\ \A u \in Types :
             IF u \in Registered(r[1])
             THEN /\ byType[r][u] = Position(r[1], u)
                  /\ byType[r][u] \in DOMAIN byId[r] /\ byId[r][byType[r][u]] = u
             ELSE byType[r][u] = 0
<1>0. Sides' = Sides
  BY DEF RegisterMessage, Sides, Programs
<1> SUFFICES ASSUME NEW r \in Sides PROVE NumberedAt(r)'
  BY <1>0 DEF Numbered
<1>1. NumberedAt(r)
  BY DEF IInv, Numbered
<1>2. calls[p] \in Seq(Types) /\ byId[r] \in Seq(Types) /\ byType[r] \in [Types -> Nat]
  BY DEF IInv, TypeOK
<1>3. CASE r[1] # p
  <2>1. calls'[r[1]] = calls[r[1]] /\ byId'[r] = byId[r] /\ byType'[r] = byType[r]
    BY <1>3, RegisterFacts
  <2>2. Registered(r[1])' = Registered(r[1]) /\ \A u : Position(r[1], u)' = Position(r[1], u)
    BY <2>1, PositionUpTo DEF Registered, Position
  <2> QED BY <1>1, <2>1, <2>2
<1>4. CASE r[1] = p
  <2>1. /\ calls'[p] = Append(calls[p], t)
        /\ Registered(p)' = Registered(p) \cup {t}
        /\ t \in Registered(p) => byId'[r] = byId[r] /\ byType'[r] = byType[r]
        /\ t \notin Registered(p) =>
             /\ byId'[r] = Append(byId[r], t)
             /\ byType'[r] = [byType[r] EXCEPT ![t] = Len(byId[r]) + 1]
    BY <1>4, RegisterFacts
  <2>2. \A u \in Registered(p) : Position(p, u)' = Position(p, u)
    <3> TAKE u \in Registered(p)
    <3>1. UpTo(calls'[p], u) = UpTo(calls[p], u)
      BY <1>2, <2>1, UpToOld DEF Registered
    <3>2. Position(p, u)' = Cardinality(UpTo(calls'[p], u))
      BY DEF Position, UpTo
    <3> QED BY <3>1, <3>2, PositionUpTo
  <2>3. CASE t \in Registered(p)
    <3>1. Registered(p)' = Registered(p) /\ byId'[r] = byId[r] /\ byType'[r] = byType[r]
      BY <2>1, <2>3
    <3> QED BY <1>1, <1>4, <2>2, <3>1
  <2>4. CASE t \notin Registered(p)
    <3> DEFINE n == Len(byId[r])
    <3>1. n \in Nat /\ n = Cardinality(Registered(p)) /\ IsFiniteSet(Registered(p))
      BY <1>1, <1>2, <1>4, LenProperties
    <3>2. IsFiniteSet(Registered(p)') /\ Cardinality(Registered(p)') = n + 1
      BY <2>1, <2>4, <3>1, FS_AddElement
    <3>3. Position(p, t)' = n + 1
      <4>1. UpTo(calls'[p], t) = Registered(p)'
        BY <1>2, <2>1, <2>4, UpToNew DEF Registered
      <4>2. Position(p, t)' = Cardinality(UpTo(calls'[p], t))
        BY DEF Position, UpTo
      <4> QED BY <3>2, <4>1, <4>2
    <3>4. /\ DOMAIN byId[r] = 1..n /\ DOMAIN byId'[r] = 1..(n + 1) /\ Len(byId'[r]) = n + 1
          /\ byId'[r][n + 1] = t /\ \A k \in 1..n : byId'[r][k] = byId[r][k]
      BY <1>2, <2>1, <2>4, LenProperties, AppendProperties
    <3>5. byType'[r][t] = n + 1 /\ \A u \in Types : u # t => byType'[r][u] = byType[r][u]
      BY <1>2, <2>1, <2>4
    <3>6. \A k \in 1..(n + 1) : byId'[r][k] \in Registered(p)' /\ byType'[r][byId'[r][k]] = k
      <4>1. ASSUME NEW k \in 1..n
            PROVE  byId'[r][k] \in Registered(p)' /\ byType'[r][byId'[r][k]] = k
        <5>1. byId[r][k] \in Registered(p) /\ byType[r][byId[r][k]] = k /\ byId[r][k] \in Types
          BY <1>1, <1>2, <1>4, <3>4, ElementOfSeq
        <5> QED BY <2>1, <2>4, <3>4, <3>5, <5>1
      <4> QED BY <2>1, <3>1, <3>4, <3>5, <4>1
    <3>7. \A u \in Types :
            IF u \in Registered(p)'
            THEN /\ byType'[r][u] = Position(p, u)'
                 /\ byType'[r][u] \in 1..(n + 1) /\ byId'[r][byType'[r][u]] = u
            ELSE byType'[r][u] = 0
      <4> TAKE u \in Types
      <4>1. CASE u = t
        BY <2>1, <3>1, <3>3, <3>4, <3>5, <4>1
      <4>2. CASE u # t
        BY <1>1, <1>4, <2>1, <2>2, <3>1, <3>4, <3>5, <4>2
      <4> QED BY <4>1, <4>2
    <3> QED BY <1>4, <3>2, <3>4, <3>6, <3>7
  <2> QED BY <2>3, <2>4
<1> QED BY <1>3, <1>4

\* The conjuncts of TypeOK that do not follow from the numbering.
Typed ==
    /\ side \in Settings
    /\ running \subseteq Programs /\ panicked \subseteq running
    /\ calls \in [Programs -> Seq(Types)]
    /\ byId \in [Sides -> Seq(Types)]
    /\ byType \in [Sides -> [Types -> Nat]]
    /\ dispatched \subseteq [from : Programs, to : Programs, type : Types, got : Types \cup {Unknown}]

\* No number is larger than the types are many.
LEMMA TypeFromNumbers == Typed /\ Numbered => TypeOK
<1> SUFFICES ASSUME Typed, Numbered, NEW r \in Sides, NEW t \in Types
             PROVE  byType[r][t] <= Cardinality(Range(calls[r[1]]))
  BY DEF Typed, TypeOK
<1>1. Len(byId[r]) \in Nat /\ DOMAIN byId[r] = 1..Len(byId[r])
  BY LenProperties DEF Typed
<1> QED BY <1>1 DEF Numbered, Registered

\* A step that registers nothing leaves the registries as they are.
LEMMA RegistriesFrame ==
    ASSUME IInv, UNCHANGED <<side, calls, byId, byType>>
    PROVE  /\ Sides' = Sides /\ Programs' = Programs
           /\ RegistriesInStep' /\ Numbered'
           /\ \A s, n : Dispatches(s, n)' = Dispatches(s, n)
<1>1. Sides' = Sides /\ Programs' = Programs
  BY DEF Sides, Programs
<1>2. \A p, t : Registered(p)' = Registered(p) /\ Position(p, t)' = Position(p, t)
  BY DEF Registered, Position
<1>3. RegistriesInStep'
  BY <1>1 DEF IInv, RegistriesInStep
<1>4. Numbered'
  BY <1>1, <1>2 DEF IInv, Numbered
<1>5. \A s, n : Dispatches(s, n)' = Dispatches(s, n)
  BY DEF Dispatches
<1> QED BY <1>1, <1>3, <1>4, <1>5

\* Registering writes to both registries of a program alike.
LEMMA RegisterStep ==
    ASSUME IInv, NEW p \in Programs, NEW t \in Types, RegisterMessage(p, t)
    PROVE  IInv'
<1>0. Sides' = Sides /\ Programs' = Programs
      /\ UNCHANGED <<side, running, dispatched, panicked>>
      /\ p \notin running
  BY DEF RegisterMessage, Sides, Programs
<1>1. Typed'
  <2>1. calls' \in [Programs -> Seq(Types)]
    BY AppendProperties DEF IInv, TypeOK, RegisterMessage
  <2>2. \A r \in Sides : byId'[r] \in Seq(Types) /\ byType'[r] \in [Types -> Nat]
    <3> TAKE r \in Sides
    <3>1. byId[r] \in Seq(Types) /\ byType[r] \in [Types -> Nat] /\ Len(byId[r]) \in Nat
      BY LenProperties DEF IInv, TypeOK
    <3>2. Append(byId[r], t) \in Seq(Types)
      BY <3>1, AppendProperties
    <3>3. [byType[r] EXCEPT ![t] = Len(byId[r]) + 1] \in [Types -> Nat]
      BY <3>1
    <3> QED BY <3>1, <3>2, <3>3 DEF RegisterMessage, NewId
  <2>3. byId' \in [Sides -> Seq(Types)] /\ byType' \in [Sides -> [Types -> Nat]]
    BY <2>2 DEF RegisterMessage
  <2> QED BY <1>0, <2>1, <2>3 DEF IInv, TypeOK, Typed
<1>2. Numbered'
  BY NumberedRegister
<1>3. TypeOK'
  BY <1>1, <1>2, TypeFromNumbers, PTL
<1>4. RegistriesInStep'
  <2> SUFFICES ASSUME NEW r \in Sides, NEW s \in Sides, r[1] = s[1]
               PROVE  byId'[r] = byId'[s] /\ byType'[r] = byType'[s]
    BY <1>0 DEF RegistriesInStep
  <2>1. byId[r] = byId[s] /\ byType[r] = byType[s]
    BY DEF IInv, RegistriesInStep
  <2>2. CASE r[1] # p
    BY <2>1, <2>2, RegisterFacts
  <2>3. CASE r[1] = p /\ t \in Registered(p)
    BY <2>1, <2>3, RegisterFacts
  <2>4. CASE r[1] = p /\ t \notin Registered(p)
    <3>1. byId'[r] = Append(byId[r], t)
          /\ byType'[r] = [byType[r] EXCEPT ![t] = Len(byId[r]) + 1]
      BY <2>4, RegisterFacts
    <3>2. byId'[s] = Append(byId[s], t)
          /\ byType'[s] = [byType[s] EXCEPT ![t] = Len(byId[s]) + 1]
      <4>1. s[1] = p
        BY <2>4
      <4> QED BY <2>4, <4>1, RegisterFacts
    <3> QED BY <2>1, <3>1, <3>2, Zenon
  <2> QED BY <2>2, <2>3, <2>4
<1>5. Recorded'
  <2>1. ASSUME NEW r \in Sides, r[1] \in running
        PROVE  byId'[r] = byId[r] /\ byType'[r] = byType[r]
    BY <1>0, <2>1, RegisterFacts
  <2>2. \A r, s \in Sides, u \in Types : {r[1], s[1]} \subseteq running =>
          /\ byType'[r][u] = byType[r][u]
          /\ Dispatches(s, byType[r][u])' = Dispatches(s, byType[r][u])
    BY <2>1 DEF Dispatches
  <2>3. \A d \in dispatched : d.type \in Types
    BY DEF IInv, TypeOK
  <2> QED BY <1>0, <2>2, <2>3 DEF IInv, Recorded
<1> QED BY <1>2, <1>3, <1>4, <1>5 DEF IInv

\* A message is dispatched as the two registries say.
LEMMA SendStep ==
    ASSUME IInv, NEW from \in Sides, NEW to \in Sides, NEW t \in Types, Send(from, to, t)
    PROVE  IInv'
<1>0. UNCHANGED <<side, running, calls, byId, byType>> /\ Sides' = Sides /\ Programs' = Programs
      /\ \A s, n : Dispatches(s, n)' = Dispatches(s, n)
  BY RegistriesFrame DEF Send
<1>1. RegistriesInStep' /\ Numbered'
  BY RegistriesFrame DEF Send
<1> DEFINE got == Dispatches(to, byType[from][t])
           d == [from |-> from[1], to |-> to[1], type |-> t, got |-> got]
<1>2. got \in Types \cup {Unknown}
  <2>1. byId[to] \in Seq(Types)
    BY DEF IInv, TypeOK
  <2> QED BY <2>1, LenProperties, ElementOfSeq DEF Dispatches
<1>3. from[1] \in Programs /\ to[1] \in Programs /\ {from[1], to[1]} \subseteq running
      /\ byType[from][t] # 0
  BY SideProgram DEF Send
<1>4. CASE dispatched' = dispatched \cup {d} /\ UNCHANGED panicked
  <2>1. TypeOK'
    BY <1>0, <1>2, <1>3, <1>4 DEF IInv, TypeOK
  <2>2. Recorded'
    BY <1>0, <1>3, <1>4 DEF IInv, Recorded
  <2> QED BY <1>1, <2>1, <2>2 DEF IInv
<1>5. CASE got \notin {t, Unknown} /\ panicked' = panicked \cup {to[1]} /\ UNCHANGED dispatched
  <2>1. TypeOK'
    BY <1>0, <1>3, <1>5 DEF IInv, TypeOK
  <2>2. Recorded'
    BY <1>0, <1>3, <1>5 DEF IInv, Recorded
  <2> QED BY <1>1, <2>1, <2>2 DEF IInv
<1> QED BY <1>4, <1>5 DEF Send

LEMMA IInvStep == IInv /\ [Next]_vars => IInv'
<1> SUFFICES ASSUME IInv, [Next]_vars PROVE IInv'
  OBVIOUS
<1>1. ASSUME UNCHANGED <<side, calls, byId, byType, dispatched, panicked>>,
             running' = running \/ \E p \in Programs : running' = running \cup {p}
      PROVE  IInv'
  <2>0. /\ Sides' = Sides /\ Programs' = Programs
        /\ RegistriesInStep' /\ Numbered'
        /\ \A s, n : Dispatches(s, n)' = Dispatches(s, n)
    BY <1>1, RegistriesFrame
  <2>1. TypeOK'
    BY <1>1, <2>0 DEF IInv, TypeOK
  <2>2. Recorded'
    BY <1>1, <2>0 DEF IInv, Recorded
  <2> QED BY <2>0, <2>1, <2>2 DEF IInv
<1>2. ASSUME NEW p \in Programs, Run(p) PROVE IInv'
  BY <1>1, <1>2 DEF Run
<1>3. CASE UNCHANGED vars
  BY <1>1, <1>3 DEF vars
<1> QED BY <1>2, <1>3, RegisterStep, SendStep DEF Next

\* The inductive invariant of the registries of two programs.
THEOREM Invariance == Spec => []IInv
BY InitIInv, IInvStep, PTL DEF Spec

\* Every registry's maps are inverse to each other, and both registries of a
\* local server number the types alike.
THEOREM RegistriesAgree == Spec => []RegistryInv
<1>1. IInv => RegistryInv
  BY DEF IInv, RegistryInv, MapsAgree, Numbered
<1> QED BY <1>1, Invariance, PTL

-----------------------------------------------------------------------------
(* What becomes of a message.                                              *)

\* The receiver knows a number from its own registry, the sender's is known
\* from the order of its calls.
LEMMA DispatchFacts ==
    ASSUME IInv, NEW r \in Sides, NEW s \in Sides, NEW t \in Types, byType[r][t] # 0
    PROVE  LET got == Dispatches(s, byType[r][t]) IN
           /\ t \in Registered(r[1]) /\ byType[r][t] = Position(r[1], t)
           /\ IF got = Unknown
              THEN Cardinality(Registered(s[1])) < Position(r[1], t)
              ELSE got \in Registered(s[1]) /\ Position(s[1], got) = Position(r[1], t)
           /\ Agree(r[1], s[1], t) => got = t
<1> DEFINE n == byType[r][t]
           got == Dispatches(s, n)
<1>1. byId[s] \in Seq(Types) /\ n \in Nat
  BY DEF IInv, TypeOK
<1>2. Len(byId[s]) \in Nat /\ DOMAIN byId[s] = 1..Len(byId[s])
  BY <1>1, LenProperties
<1>3. t \in Registered(r[1]) /\ n = Position(r[1], t)
  BY DEF IInv, Numbered
<1>4. CASE n \in DOMAIN byId[s]
  <2>1. got = byId[s][n] /\ got \in Types /\ got # Unknown
    BY <1>1, <1>2, <1>4, ElementOfSeq, BoundAssumption DEF Dispatches
  <2>2. got \in Registered(s[1]) /\ byType[s][got] = n
    BY <1>4, <2>1 DEF IInv, Numbered
  <2>3. Position(s[1], got) = n
    BY <2>1, <2>2 DEF IInv, Numbered
  <2>4. Agree(r[1], s[1], t) => got = t
    <3> SUFFICES ASSUME Agree(r[1], s[1], t) PROVE got = t
      OBVIOUS
    <3>1. t \in Registered(s[1]) /\ Position(r[1], t) = Position(s[1], t)
      BY <1>1, <1>3 DEF Agree
    <3>2. byType[s][t] = n /\ byId[s][n] = t
      BY <1>3, <3>1 DEF IInv, Numbered
    <3> QED BY <2>1, <3>2
  <2> QED BY <1>3, <2>1, <2>2, <2>3, <2>4
<1>5. CASE n \notin DOMAIN byId[s]
  <2>1. got = Unknown
    BY <1>5 DEF Dispatches
  <2>2. Cardinality(Registered(s[1])) < n
    BY <1>1, <1>2, <1>5 DEF IInv, Numbered
  <2>3. ~Agree(r[1], s[1], t)
    <3> SUFFICES ASSUME Agree(r[1], s[1], t) PROVE FALSE
      OBVIOUS
    <3>1. t \in Registered(s[1]) /\ Position(r[1], t) = Position(s[1], t)
      BY <1>1, <1>3 DEF Agree
    <3>2. n \in DOMAIN byId[s]
      BY <1>3, <3>1 DEF IInv, Numbered
    <3> QED BY <1>5, <3>2
  <2> QED BY <1>3, <2>1, <2>2, <2>3
<1> QED BY <1>4, <1>5

\* Programs that agree on a type dispatch it as what was sent, however many types
\* there are and whatever else they register.
THEOREM DispatchedAsSentAlways == Spec => []DispatchedAsSent
<1>1. IInv => DispatchedAsSent
  <2> SUFFICES ASSUME IInv PROVE DispatchedAsSent
    OBVIOUS
  <2>1. ASSUME NEW d \in dispatched, Agree(d.from, d.to, d.type) PROVE d.got = d.type
    <3>1. PICK r \in Sides, s \in Sides :
            /\ r[1] = d.from /\ s[1] = d.to
            /\ byType[r][d.type] # 0 /\ d.got = Dispatches(s, byType[r][d.type])
      BY DEF IInv, Recorded
    <3>2. d.type \in Types
      BY DEF IInv, TypeOK
    <3> QED BY <2>1, <3>1, <3>2, DispatchFacts
  <2>2. ASSUME NEW p \in panicked PROVE \E q \in Programs : \E t \in Registered(q) : ~Agree(q, p, t)
    <3>1. PICK r \in Sides, s \in Sides, t \in Types :
            s[1] = p /\ byType[r][t] # 0 /\ Dispatches(s, byType[r][t]) \notin {t, Unknown}
      BY DEF IInv, Recorded
    <3>2. t \in Registered(r[1]) /\ ~Agree(r[1], p, t) /\ r[1] \in Programs
      BY <3>1, DispatchFacts, SideProgram
    <3> QED BY <3>2
  <2> QED BY <2>1, <2>2 DEF DispatchedAsSent
<1> QED BY <1>1, Invariance, PTL

\* A message taken for another type, or dropped, is explained by the order of
\* the two programs' calls alone.
THEOREM WrongByOrderOnlyAlways == Spec => []WrongByOrderOnly
<1>1. IInv => WrongByOrderOnly
  <2> SUFFICES ASSUME IInv, NEW d \in dispatched
               PROVE  IF d.got = Unknown THEN Cardinality(Registered(d.to)) < Position(d.from, d.type)
                      ELSE d.got \in Registered(d.to)
                      /\ Position(d.to, d.got) = Position(d.from, d.type)
    BY DEF WrongByOrderOnly
  <2>1. PICK r \in Sides, s \in Sides :
          /\ r[1] = d.from /\ s[1] = d.to
          /\ byType[r][d.type] # 0 /\ d.got = Dispatches(s, byType[r][d.type])
    BY DEF IInv, Recorded
  <2>2. d.type \in Types
    BY DEF IInv, TypeOK
  <2> QED BY <2>1, <2>2, DispatchFacts
<1> QED BY <1>1, Invariance, PTL

-----------------------------------------------------------------------------
(***************************************************************************)
(* A program that is server and client at once: its invariant, and that it *)
(* never asks another program's server for a session. Both rest on the     *)
(* order of the frame's schedules: what Update opens, the next First       *)
(* authenticates, before an answer can come (PreUpdate) or a message be    *)
(* sent (Update).                                                          *)
(***************************************************************************)

\* From the run of authenticate_local_peer to the end of PreUpdate every open
\* port is authenticated: only Update opens ports.
AuthenticatedOnTime ==
    stage = "pre_update" \/ (stage = "first" /\ "authenticate_local_peer" \in ran)
        => Opened \subseteq flagged

\* So no port has a stream in Update without being authenticated.
StreamsAuthenticated == stage = "update" => connected \subseteq flagged

\* An answer that waits for an open secondary port finds it authenticated,
\* unless another port took its place meanwhile.
AnswersForAuthenticated ==
    \A c \in Connections :
        <<c, 1>> \in toClient \cap Opened => <<c, 1>> \in flagged \cup reopened

LocalServerInv ==
    /\ LocalTypeOK /\ AnnouncedOnce /\ SecondaryNamedByChanceOnly /\ NeverAsksAnotherServer
    /\ AuthenticatedOnTime /\ StreamsAuthenticated /\ AnswersForAuthenticated

-----------------------------------------------------------------------------
(* The initial states. *)

LEMMA LocalInitInvariant == LocalInit => LocalServerInv
<1> SUFFICES ASSUME LocalInit PROVE LocalServerInv OBVIOUS
<1> USE DEF LocalInit
<1>1. LocalTypeOK
  BY DEF LocalTypeOK, SystemsOf, Opened, ClientPorts, Ports
<1>2. AnnouncedOnce
  BY DEF AnnouncedOnce
<1>3. SecondaryNamedByChanceOnly /\ NeverAsksAnotherServer
  BY DEF SecondaryNamedByChanceOnly, NeverAsksAnotherServer
<1>4. AuthenticatedOnTime /\ StreamsAuthenticated /\ AnswersForAuthenticated
  BY DEF AuthenticatedOnTime, StreamsAuthenticated, AnswersForAuthenticated
<1> QED BY <1>1, <1>2, <1>3, <1>4 DEF LocalServerInv

-----------------------------------------------------------------------------
(* The systems. *)

LEMMA AuthenticateLocalPeerStep == LocalServerInv /\ AuthenticateLocalPeer => LocalServerInv'
<1> SUFFICES ASSUME LocalServerInv, AuthenticateLocalPeer PROVE LocalServerInv' OBVIOUS
<1> USE DEF AuthenticateLocalPeer, Runs, ports, mail, LocalServerInv
<1>0. Opened' = Opened
  BY DEF Opened
<1>1. LocalTypeOK'
  <2>1. stage' \in {"first", "pre_update", "update"} /\ ran' \subseteq SystemsOf(stage)'
    BY DEF LocalTypeOK, SystemsOf
  <2>2. announced' \in [ClientPorts -> 0..1]
    BY DEF LocalTypeOK, AnnouncedOnce, ToAuthenticate
  <2>3. flagged' \subseteq Opened' /\ named' \subseteq ClientPorts
    BY <1>0 DEF LocalTypeOK, ToAuthenticate, Opened
  <2> QED BY <1>0, <2>1, <2>2, <2>3 DEF LocalTypeOK
<1>2. AnnouncedOnce'
  BY DEF AnnouncedOnce, ToAuthenticate, LocalTypeOK
<1>3. SecondaryNamedByChanceOnly' /\ NeverAsksAnotherServer'
  BY DEF SecondaryNamedByChanceOnly, NeverAsksAnotherServer
<1>4. AuthenticatedOnTime' /\ StreamsAuthenticated'
  BY <1>0 DEF AuthenticatedOnTime, StreamsAuthenticated, ToAuthenticate
<1>5. AnswersForAuthenticated'
  BY <1>0 DEF AnswersForAuthenticated
<1> QED BY <1>1, <1>2, <1>3, <1>4, <1>5

LEMMA StartPortsStep == LocalServerInv /\ StartPorts => LocalServerInv'
<1> SUFFICES ASSUME LocalServerInv, StartPorts PROVE LocalServerInv' OBVIOUS
<1> USE DEF StartPorts, Runs, authentication, mail, LocalServerInv
<1>0. Opened' = Opened
  BY DEF Opened
<1>1. LocalTypeOK'
  <2>1. stage' \in {"first", "pre_update", "update"} /\ ran' \subseteq SystemsOf(stage)'
    BY DEF LocalTypeOK, SystemsOf
  <2>2. isLocal' \subseteq {c \in Connections : clientPorts'[c] # {}}
    BY DEF LocalTypeOK, BecomesLocal
  <2>3. connected' \subseteq dialling' /\ dialling' \cup flagged' \subseteq Opened'
    BY <1>0 DEF LocalTypeOK
  <2> QED BY <1>0, <2>1, <2>2, <2>3 DEF LocalTypeOK
<1>2. AnnouncedOnce' /\ SecondaryNamedByChanceOnly' /\ NeverAsksAnotherServer'
  BY DEF AnnouncedOnce, SecondaryNamedByChanceOnly, NeverAsksAnotherServer
<1>3. AuthenticatedOnTime' /\ StreamsAuthenticated' /\ AnswersForAuthenticated'
  BY <1>0 DEF AuthenticatedOnTime, StreamsAuthenticated, AnswersForAuthenticated
<1> QED BY <1>1, <1>2, <1>3

LEMMA TakeStreamStep ==
    ASSUME NEW cp \in ClientPorts, LocalServerInv, TakeStream(cp) PROVE LocalServerInv'
<1> USE DEF TakeStream, ports, authentication, mail, LocalServerInv
<1>0. Opened' = Opened
  BY DEF Opened
<1>1. LocalTypeOK'
  BY <1>0 DEF LocalTypeOK, SystemsOf
<1>2. AnnouncedOnce' /\ SecondaryNamedByChanceOnly' /\ NeverAsksAnotherServer'
  BY DEF AnnouncedOnce, SecondaryNamedByChanceOnly, NeverAsksAnotherServer
<1>3. AuthenticatedOnTime' /\ StreamsAuthenticated' /\ AnswersForAuthenticated'
  BY <1>0 DEF AuthenticatedOnTime, StreamsAuthenticated, AnswersForAuthenticated
<1> QED BY <1>1, <1>2, <1>3

LEMMA CheckPeerAuthenticatedStep == LocalServerInv /\ CheckPeerAuthenticated => LocalServerInv'
<1> SUFFICES ASSUME LocalServerInv, CheckPeerAuthenticated PROVE LocalServerInv' OBVIOUS
<1> USE DEF CheckPeerAuthenticated, Runs, ports, authentication, LocalServerInv
<1>0. Opened' = Opened
  BY DEF Opened
<1>1. LocalTypeOK'
  BY <1>0 DEF LocalTypeOK, SystemsOf
<1>2. AnnouncedOnce' /\ SecondaryNamedByChanceOnly' /\ NeverAsksAnotherServer'
  BY DEF AnnouncedOnce, SecondaryNamedByChanceOnly, NeverAsksAnotherServer
<1>3. AuthenticatedOnTime' /\ StreamsAuthenticated'
  BY <1>0 DEF AuthenticatedOnTime, StreamsAuthenticated
<1>4. AnswersForAuthenticated'
  BY <1>0 DEF AnswersForAuthenticated, AuthenticatedOnTime
<1> QED BY <1>1, <1>2, <1>3, <1>4

LEMMA AuthenticatePortStep == LocalServerInv /\ AuthenticatePort => LocalServerInv'
<1> SUFFICES ASSUME LocalServerInv, AuthenticatePort PROVE LocalServerInv' OBVIOUS
<1> USE DEF AuthenticatePort, Runs, ports, authentication, LocalServerInv
<1>0. Opened' = Opened
  BY DEF Opened
<1>1. NeverAsksAnotherServer'
  BY DEF NeverAsksAnotherServer, StreamsAuthenticated
<1>2. LocalTypeOK'
  <2>1. ran' \subseteq SystemsOf(stage)'
    BY DEF LocalTypeOK, SystemsOf
  <2>2. toServer' \cup toClient' \cup remote' \subseteq ClientPorts
    BY DEF LocalTypeOK, Opened
  <2> QED BY <1>0, <2>1, <2>2 DEF LocalTypeOK
<1>3. AnnouncedOnce' /\ SecondaryNamedByChanceOnly'
  BY DEF AnnouncedOnce, SecondaryNamedByChanceOnly
<1>4. AuthenticatedOnTime' /\ StreamsAuthenticated' /\ AnswersForAuthenticated'
  BY <1>0 DEF AuthenticatedOnTime, StreamsAuthenticated, AnswersForAuthenticated
<1> QED BY <1>1, <1>2, <1>3, <1>4

LEMMA CheckPortAuthenticatedStep == LocalServerInv /\ CheckPortAuthenticated => LocalServerInv'
<1> SUFFICES ASSUME LocalServerInv, CheckPortAuthenticated PROVE LocalServerInv' OBVIOUS
<1> USE DEF CheckPortAuthenticated, Runs, ports, LocalServerInv
<1>0. Opened' = Opened
  BY DEF Opened
<1>1. LocalTypeOK'
  <2>1. ran' \subseteq SystemsOf(stage)'
    BY DEF LocalTypeOK, SystemsOf
  <2>2. announced' \in [ClientPorts -> 0..1]
    BY DEF LocalTypeOK, AnnouncedOnce, Answered
  <2>3. flagged' \subseteq Opened' /\ named' \subseteq ClientPorts
    BY <1>0 DEF LocalTypeOK, Answered, Opened
  <2> QED BY <1>0, <2>1, <2>2, <2>3 DEF LocalTypeOK
<1>2. AnnouncedOnce'
  BY DEF AnnouncedOnce, Answered, LocalTypeOK
<1>3. SecondaryNamedByChanceOnly'
  BY DEF SecondaryNamedByChanceOnly, Answered, AnswersForAuthenticated
<1>4. NeverAsksAnotherServer' /\ AuthenticatedOnTime' /\ StreamsAuthenticated'
  BY <1>0 DEF NeverAsksAnotherServer, AuthenticatedOnTime, StreamsAuthenticated
<1>5. AnswersForAuthenticated'
  BY DEF AnswersForAuthenticated
<1> QED BY <1>1, <1>2, <1>3, <1>4, <1>5

LEMMA NextScheduleStep == LocalServerInv /\ NextSchedule => LocalServerInv'
<1> SUFFICES ASSUME LocalServerInv, NextSchedule PROVE LocalServerInv' OBVIOUS
<1> USE DEF NextSchedule, ports, authentication, mail, LocalServerInv
<1>0. Opened' = Opened
  BY DEF Opened
<1>1. LocalTypeOK'
  <2>1. stage' \in {"first", "pre_update", "update"} /\ ran' \subseteq SystemsOf(stage)'
    BY DEF LocalTypeOK
  <2> QED BY <1>0, <2>1 DEF LocalTypeOK
<1>2. AnnouncedOnce' /\ SecondaryNamedByChanceOnly' /\ NeverAsksAnotherServer'
  BY DEF AnnouncedOnce, SecondaryNamedByChanceOnly, NeverAsksAnotherServer
<1>3. stage = "first" => "authenticate_local_peer" \in ran
  BY DEF SystemsOf
<1>4. stage' = "pre_update" => Opened' \subseteq flagged'
  BY <1>0, <1>3 DEF AuthenticatedOnTime, LocalTypeOK
<1>5. stage' = "update" => connected' \subseteq flagged'
  BY DEF AuthenticatedOnTime, LocalTypeOK
<1>6. AuthenticatedOnTime' /\ StreamsAuthenticated' /\ AnswersForAuthenticated'
  BY <1>0, <1>4, <1>5
     DEF AuthenticatedOnTime, StreamsAuthenticated, AnswersForAuthenticated
<1> QED BY <1>1, <1>2, <1>6

-----------------------------------------------------------------------------
(* The application. *)

LEMMA SetServerPortsStep ==
    ASSUME NEW c \in Connections, NEW to \in {{}, {0}, {0, 1}}, LocalServerInv,
           SetServerPorts(c, to)
    PROVE  LocalServerInv'
<1> USE DEF SetServerPorts, Application, authentication, mail, LocalServerInv
<1>0. Opened' = Opened
  BY DEF Opened
<1>1. LocalTypeOK'
  BY <1>0 DEF LocalTypeOK, SystemsOf
<1>2. AnnouncedOnce' /\ SecondaryNamedByChanceOnly' /\ NeverAsksAnotherServer'
  BY DEF AnnouncedOnce, SecondaryNamedByChanceOnly, NeverAsksAnotherServer
<1>3. AuthenticatedOnTime' /\ StreamsAuthenticated' /\ AnswersForAuthenticated'
  BY <1>0 DEF AuthenticatedOnTime, StreamsAuthenticated, AnswersForAuthenticated
<1> QED BY <1>1, <1>2, <1>3

LEMMA StartClientStep ==
    ASSUME NEW c \in Connections, LocalServerInv, StartClient(c) PROVE LocalServerInv'
<1> USE DEF StartClient, Application, authentication, mail, LocalServerInv
<1>0. clientPorts' \in [Connections -> {{}, {0}, {0, 1}}]
  BY DEF LocalTypeOK
<1>1. Opened \subseteq Opened'
  BY DEF Opened, ClientPorts, Ports, LocalTypeOK
<1>2. \A d \in Connections : <<d, 1>> \in Opened' => <<d, 1>> \in Opened
  BY DEF Opened, ClientPorts, Ports, LocalTypeOK
<1>3. isLocal' \subseteq {d \in Connections : clientPorts'[d] # {}}
  BY DEF LocalTypeOK
<1>4. LocalTypeOK'
  BY <1>0, <1>1, <1>3 DEF LocalTypeOK, SystemsOf
<1>5. AnnouncedOnce' /\ SecondaryNamedByChanceOnly' /\ NeverAsksAnotherServer'
  BY DEF AnnouncedOnce, SecondaryNamedByChanceOnly, NeverAsksAnotherServer
<1>6. AuthenticatedOnTime' /\ StreamsAuthenticated'
  BY DEF AuthenticatedOnTime, StreamsAuthenticated
<1>7. AnswersForAuthenticated'
  BY <1>2 DEF AnswersForAuthenticated
<1> QED BY <1>4, <1>5, <1>6, <1>7

LEMMA OpenClientPortStep ==
    ASSUME NEW c \in Connections, LocalServerInv, OpenClientPort(c) PROVE LocalServerInv'
<1> USE DEF OpenClientPort, Application, authentication, mail, LocalServerInv
<1>0. clientPorts' \in [Connections -> {{}, {0}, {0, 1}}]
  BY DEF LocalTypeOK
<1>1. Opened \subseteq Opened'
  BY DEF Opened, ClientPorts, Ports, LocalTypeOK
<1>2. \A d \in Connections : <<d, 1>> \in Opened' => <<d, 1>> \in Opened \/ d = c
  BY DEF Opened, ClientPorts, Ports, LocalTypeOK
<1>3. isLocal' \subseteq {d \in Connections : clientPorts'[d] # {}}
  BY DEF LocalTypeOK
<1>4. reopened \subseteq reopened' /\ reopened' \subseteq ClientPorts
  BY DEF LocalTypeOK
<1>5. LocalTypeOK'
  BY <1>0, <1>1, <1>3, <1>4 DEF LocalTypeOK, SystemsOf
<1>6. AnnouncedOnce' /\ SecondaryNamedByChanceOnly' /\ NeverAsksAnotherServer'
  BY <1>4 DEF AnnouncedOnce, SecondaryNamedByChanceOnly, NeverAsksAnotherServer
<1>7. AuthenticatedOnTime' /\ StreamsAuthenticated'
  BY DEF AuthenticatedOnTime, StreamsAuthenticated
<1>8. AnswersForAuthenticated'
  BY <1>2, <1>4 DEF AnswersForAuthenticated
<1> QED BY <1>5, <1>6, <1>7, <1>8

LEMMA CloseClientStep ==
    ASSUME NEW c \in Connections, NEW kept \in {{}, {0}}, LocalServerInv, CloseClient(c, kept)
    PROVE  LocalServerInv'
<1> DEFINE gone == {c} \X (Ports \ kept)
<1> USE DEF CloseClient, Application, Forget, mail, LocalServerInv
<1>0. clientPorts' \in [Connections -> {{}, {0}, {0, 1}}]
  BY DEF LocalTypeOK
<1>1. Opened' = Opened \ gone
  BY DEF Opened, ClientPorts, Ports, LocalTypeOK
<1>2. isLocal' \subseteq {d \in Connections : clientPorts'[d] # {}}
  BY DEF LocalTypeOK
<1>3. LocalTypeOK'
  <2>1. stage' \in {"first", "pre_update", "update"} /\ ran' \subseteq SystemsOf(stage)'
    BY DEF LocalTypeOK, SystemsOf
  <2>2. announced' \in [ClientPorts -> 0..1]
    BY DEF LocalTypeOK
  <2>3. connected' \subseteq dialling' /\ dialling' \cup flagged' \subseteq Opened'
    BY <1>1 DEF LocalTypeOK
  <2> QED BY <1>0, <1>2, <2>1, <2>2, <2>3 DEF LocalTypeOK
<1>4. AnnouncedOnce'
  BY DEF AnnouncedOnce
<1>5. SecondaryNamedByChanceOnly' /\ NeverAsksAnotherServer'
  BY DEF SecondaryNamedByChanceOnly, NeverAsksAnotherServer
<1>6. AuthenticatedOnTime' /\ StreamsAuthenticated'
  BY <1>1 DEF AuthenticatedOnTime, StreamsAuthenticated
<1>7. AnswersForAuthenticated'
  BY <1>1 DEF AnswersForAuthenticated
<1> QED BY <1>3, <1>4, <1>5, <1>6, <1>7

-----------------------------------------------------------------------------
(* The theorems. *)

LEMMA LocalStutterStep == LocalServerInv /\ UNCHANGED localVars => LocalServerInv'
<1> SUFFICES ASSUME LocalServerInv, UNCHANGED localVars PROVE LocalServerInv' OBVIOUS
<1> USE DEF localVars, ports, authentication, mail, LocalServerInv
<1>0. Opened' = Opened
  BY DEF Opened
<1>1. LocalTypeOK'
  BY <1>0 DEF LocalTypeOK, SystemsOf
<1>2. AnnouncedOnce' /\ SecondaryNamedByChanceOnly' /\ NeverAsksAnotherServer'
  BY DEF AnnouncedOnce, SecondaryNamedByChanceOnly, NeverAsksAnotherServer
<1>3. AuthenticatedOnTime' /\ StreamsAuthenticated' /\ AnswersForAuthenticated'
  BY <1>0 DEF AuthenticatedOnTime, StreamsAuthenticated, AnswersForAuthenticated
<1> QED BY <1>1, <1>2, <1>3

LEMMA LocalNextInvariant == LocalServerInv /\ [LocalNext]_localVars => LocalServerInv'
<1> SUFFICES ASSUME LocalServerInv, [LocalNext]_localVars PROVE LocalServerInv' OBVIOUS
<1>1. CASE Systems
  BY <1>1, AuthenticateLocalPeerStep, StartPortsStep, CheckPeerAuthenticatedStep,
     AuthenticatePortStep, CheckPortAuthenticatedStep, NextScheduleStep DEF Systems
<1>2. CASE \E cp \in ClientPorts : TakeStream(cp)
  BY <1>2, TakeStreamStep
<1>3. ASSUME NEW c \in Connections, StartServer(c) \/ OpenServerPort(c) \/ CloseServer(c)
      PROVE  LocalServerInv'
  BY <1>3, SetServerPortsStep DEF StartServer, OpenServerPort, CloseServer
<1>4. ASSUME NEW c \in Connections,
             StartClient(c) \/ OpenClientPort(c) \/ \E kept \in {{}, {0}} : CloseClient(c, kept)
      PROVE  LocalServerInv'
  BY <1>4, StartClientStep, OpenClientPortStep, CloseClientStep
<1>5. CASE UNCHANGED localVars
  BY <1>5, LocalStutterStep
<1> QED BY <1>1, <1>2, <1>3, <1>4, <1>5 DEF LocalNext

\* The inductive invariant of a program that is server and client at once.
THEOREM LocalInvariance == LocalSpec => []LocalServerInv
<1>1. LocalInit => LocalServerInv BY LocalInitInvariant
<1>2. LocalServerInv /\ [LocalNext]_localVars => LocalServerInv' BY LocalNextInvariant
<1> QED BY <1>1, <1>2, PTL DEF LocalSpec

\* Every authenticated client port was announced exactly once, whichever of the
\* two systems came first (authenticate_local_peer, check_port_authenticated),
\* and a secondary port is announced under its own number by chance only.
THEOREM LocalInvAlways == LocalSpec => []LocalInv
<1>1. LocalServerInv => LocalInv BY DEF LocalServerInv, LocalInv
<1> QED BY <1>1, LocalInvariance, PTL

\* A program that is a server too writes no AuthenticationMessage to a stream:
\* another program's server never hears of its client ports.
THEOREM NeverAsksAnotherServerAlways == LocalSpec => []NeverAsksAnotherServer
<1>1. LocalServerInv => NeverAsksAnotherServer BY DEF LocalServerInv
<1> QED BY <1>1, LocalInvariance, PTL
=============================================================================
