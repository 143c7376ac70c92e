-------------------------- MODULE MessageRegistry --------------------------
(***************************************************************************)
(* The numbers that message types travel under. Each program draws them in *)
(* the order of its own register_message calls, in a registry per side,    *)
(* and a receiver takes a number for whatever type it gave it to itself.   *)
(*                                                                         *)
(* A program is a client, a dedicated server or a local server, which has  *)
(* both registries. It registers while it is built and runs afterwards.    *)
(***************************************************************************)
EXTENDS Naturals, Sequences, FiniteSets, Functions

CONSTANTS Types,
          Settings,  \* pairs of programs to choose from: to each of them, the
                     \* registries it has, client or server or both
          MaxCalls,  \* bound: register_message calls of a program
          Unknown    \* no type

ASSUME SidesAssumption == \A st \in Settings : \A p \in DOMAIN st : st[p] \subseteq {"client", "server"}
ASSUME BoundAssumption == MaxCalls \in Nat /\ Unknown \notin Types

VARIABLES
    side,       \* the programs there are, and the registries they have
    running,    \* programs that are built
    calls,      \* history: the calls each program made, in order
    byId,       \* per program and side: the type a number dispatches,
    byType,     \* and the number a type is sent under, 0 for none
    dispatched, \* [from, to, type, got] of what arrived
    panicked    \* programs that failed to deserialize a message

vars == <<side, running, calls, byId, byType, dispatched, panicked>>

Programs == DOMAIN side
Sides == UNION {{p} \X side[p] : p \in Programs}

Init ==
    /\ side \in Settings
    /\ running = {} /\ calls = [p \in Programs |-> <<>>]
    /\ byId = [r \in Sides |-> <<>>]
    /\ byType = [r \in Sides |-> [t \in Types |-> 0]]
    /\ dispatched = {} /\ panicked = {}

\* Variants with a bug: a type is given a number at every call; only the client's
\* registry is looked at.
IsNewAlways(r, t) == TRUE
IsNewToClient(r, t) ==
    byType[IF <<r[1], "client">> \in Sides THEN <<r[1], "client">> ELSE r][t] = 0 \/ r[2] = "server"
\* The events of the type are not there yet.
IsNew(r, t) == byType[r][t] = 0

\* Variant with a bug: numbers start at 0.
NewIdFromZero(r) == Len(byId[r])
\* The counter counts the entries.
NewId(r) == Len(byId[r]) + 1

RegisterMessage(p, t) ==
    /\ p \notin running /\ Len(calls[p]) < MaxCalls
    /\ calls' = [calls EXCEPT ![p] = Append(@, t)]
    /\ byId' = [r \in Sides |->
                  IF r[1] = p /\ IsNew(r, t) THEN Append(byId[r], t) ELSE byId[r]]
    /\ byType' = [r \in Sides |->
                    IF r[1] = p /\ IsNew(r, t) THEN [byType[r] EXCEPT ![t] = NewId(r)]
                    ELSE byType[r]]
    /\ UNCHANGED <<side, running, dispatched, panicked>>

Run(p) ==
    /\ p \notin running /\ running' = running \cup {p}
    /\ UNCHANGED <<side, calls, byId, byType, dispatched, panicked>>

\* Variant with a bug: a number that is not known is taken for the last type.
DispatchesLast(r, id) ==
    IF byId[r] = <<>> THEN Unknown
    ELSE byId[r][IF id \in DOMAIN byId[r] THEN id ELSE Len(byId[r])]
\* What the receiver takes a number for; a number it does not have is dropped.
Dispatches(r, id) == IF id \in DOMAIN byId[r] THEN byId[r][id] ELSE Unknown

\* send_message from one side to the other side of another program, and the
\* dispatch of what arrives. The bytes of another type may deserialize or not.
Send(from, to, t) ==
    /\ {from[1], to[1]} \subseteq running \ panicked
    /\ from[1] # to[1] /\ from[2] # to[2]
    /\ byType[from][t] # 0
    /\ LET got == Dispatches(to, byType[from][t])
       IN \/ /\ dispatched' = dispatched \cup {[from |-> from[1], to |-> to[1], type |-> t, got |-> got]}
             /\ UNCHANGED panicked
          \/ /\ got \notin {t, Unknown} /\ panicked' = panicked \cup {to[1]}
             /\ UNCHANGED dispatched
    /\ UNCHANGED <<side, running, calls, byId, byType>>

Next ==
    \/ \E p \in Programs : Run(p) \/ \E t \in Types : RegisterMessage(p, t)
    \/ \E from, to \in Sides, t \in Types : Send(from, to, t)

Spec == Init /\ [][Next]_vars

-----------------------------------------------------------------------------
(* Properties. *)

\* The type of every variable; numbers are no larger than the types are many.
TypeOK ==
    /\ side \in Settings
    /\ running \subseteq Programs /\ panicked \subseteq running
    /\ calls \in [Programs -> Seq(Types)]
    /\ byId \in [Sides -> Seq(Types)]
    /\ byType \in [Sides -> [Types -> Nat]]
    /\ \A r \in Sides, t \in Types : byType[r][t] <= Cardinality(Range(calls[r[1]]))
    /\ dispatched \subseteq [from : Programs, to : Programs, type : Types, got : Types \cup {Unknown}]

\* How many different types a program registered up to the first call for one.
Position(p, t) ==
    LET before(i) == \A j \in 1..(i - 1) : calls[p][j] # t
    IN Cardinality({calls[p][i] : i \in {k \in DOMAIN calls[p] : before(k)}})

Registered(p) == Range(calls[p])

\* Two programs agree on a type if what they registered up to it is the same, in
\* the same order, whatever they repeat, and whatever they register afterwards.
Agree(p, q, t) ==
    /\ t \in Registered(p) \cap Registered(q)
    /\ \A u \in Registered(p) \cup Registered(q) :
         Position(p, u) <= Position(p, t) \/ Position(q, u) <= Position(q, t) =>
           /\ u \in Registered(p) \cap Registered(q)
           /\ Position(p, u) = Position(q, u)

\* Programs that agree on a type dispatch each other's messages of it as that
\* type, and never fail to deserialize one if they agree on all they have.
DispatchedAsSent ==
    /\ \A d \in dispatched : Agree(d.from, d.to, d.type) => d.got = d.type
    /\ \A p \in panicked : \E q \in Programs : \E t \in Registered(q) : ~Agree(q, p, t)

\* What is taken for another type, or dropped, was sent under a number that the
\* receiver gave to that type, or has not given.
WrongByOrderOnly ==
    \A d \in dispatched :
      IF d.got = Unknown THEN Cardinality(Registered(d.to)) < Position(d.from, d.type)
      ELSE d.got \in Registered(d.to) /\ Position(d.to, d.got) = Position(d.from, d.type)

\* Both registries of a local server give every type the same number, so that a
\* client that agrees with one of them agrees with the other.
RegistriesInStep ==
    \A r, s \in Sides : r[1] = s[1] => byId[r] = byId[s] /\ byType[r] = byType[s]

\* A registry's two maps are inverse to each other.
MapsAgree == \A r \in Sides, t \in Types :
    byType[r][t] # 0 => byType[r][t] \in DOMAIN byId[r] /\ byId[r][byType[r][t]] = t

\* The invariant of the registries: types, inverse maps, one numbering.
RegistryInv == TypeOK /\ MapsAgree /\ RegistriesInStep
=============================================================================
