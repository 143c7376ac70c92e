--------------------------- MODULE Framing_proofs ---------------------------
(***************************************************************************)
(* Proofs about the framing of a TCP port, for every width, byte order and *)
(* base of the header, every size of the read buffer, all messages and any *)
(* number of streams.                                                      *)
(*                                                                         *)
(* The header's value, its bytes and the extraction loop are recursive     *)
(* functions. What they compute is shown by induction over sets of numbers *)
(* (a non-empty set of them has a least one), and that they are defined at *)
(* all by building them (Recursion, BoundedRecursion): a function chosen   *)
(* by an equation is known to satisfy it only when some function does.     *)
(*                                                                         *)
(* Then the stream: no step changes what the receiver will make of the     *)
(* bytes under way but the one that adds a message, the one that takes     *)
(* messages out, and a reset, which leaves the first of them.              *)
(***************************************************************************)
EXTENDS Framing, SequenceTheorems, WellFoundedInduction, TLAPS

\* A set of numbers that has 0 and, with a number, its successor, has them all.
LEMMA Induction ==
    ASSUME NEW S, 0 \in S, \A n \in Nat : n \in S => n + 1 \in S
    PROVE  \A n \in Nat : n \in S
<1> DEFINE T == Nat \ S
<1>1. SUFFICES ASSUME T # {} PROVE FALSE
  OBVIOUS
<1>2. PICK m \in T : \A k \in T : ~(<<k, m>> \in OpToRel(<, Nat))
  BY <1>1, NatLessThanWellFounded, WFMin, Zenon
<1>3. \A k \in T : ~(k < m)
  <2> SUFFICES ASSUME NEW k \in T, k < m PROVE FALSE
    OBVIOUS
  <2>1. <<k, m>> \in Nat \X Nat /\ <<k, m>>[1] = k /\ <<k, m>>[2] = m
    BY <1>2
  <2>2. <<k, m>> \in OpToRel(<, Nat)
    BY <2>1, Zenon DEF OpToRel
  <2> QED BY <1>2, <2>2, Zenon
<1>4. m - 1 \in Nat /\ m - 1 < m /\ (m - 1) + 1 = m
  <2>1. m \in Nat /\ m \notin S
    BY Zenon
  <2>2. m # 0
    BY <2>1
  <2> QED BY <2>1, <2>2
<1>5. m - 1 \in T
  BY <1>4
<1> QED BY <1>3, <1>4, <1>5

\* g iterates h from a on, over all the numbers and over the first N.
Iterates(g, V, a, h) ==
    g \in [Nat -> V] /\ g[0] = a /\ \A n \in Nat : g[n + 1] = h[<<n, g[n]>>]
IteratesUpTo(N, g, V, a, h) ==
    g \in [0..N -> V] /\ g[0] = a /\ \A k \in 1..N : g[k] = h[<<k, g[k - 1]>>]

\* A function on the numbers may be defined by its first value and by what
\* follows from a value.
LEMMA Recursion ==
    ASSUME NEW V, NEW a \in V, NEW h \in [Nat \X V -> V]
    PROVE  \E g : Iterates(g, V, a, h)
<1> DEFINE Upto(g, n) == g \in [0..n -> V] /\ g[0] = a
                         /\ \A k \in 0..n : k < n => g[k + 1] = h[<<k, g[k]>>]
           S == {n \in Nat : \E g : Upto(g, n)}
<1>1. 0 \in S
  <2>1. Upto([k \in 0..0 |-> a], 0)
    OBVIOUS
  <2> QED BY <2>1
<1>2. ASSUME NEW n \in Nat, n \in S PROVE n + 1 \in S
  <2>1. PICK g : Upto(g, n)
    BY <1>2
  <2> DEFINE f == [k \in 0..(n + 1) |-> IF k <= n THEN g[k] ELSE h[<<n, g[n]>>]]
  <2>2. Upto(f, n + 1)
    <3>1. g[n] \in V /\ h[<<n, g[n]>>] \in V
      BY <2>1
    <3>2. f \in [0..(n + 1) -> V] /\ f[0] = a
      BY <2>1, <3>1
    <3>3. ASSUME NEW k \in 0..(n + 1), k < n + 1 PROVE f[k + 1] = h[<<k, f[k]>>]
      <4>1. CASE k < n
        BY <2>1, <3>3, <4>1
      <4>2. CASE k = n
        BY <2>1, <3>3, <4>2
      <4> QED BY <3>3, <4>1, <4>2
    <3> QED BY <3>2, <3>3
  <2> HIDE DEF Upto, f
  <2> QED BY <2>2
<1>3. \A n \in Nat : \E g : Upto(g, n)
  <2> HIDE DEF Upto, S
  <2>1. \A n \in Nat : n \in S
    BY <1>1, <1>2, Induction
  <2> QED BY <2>1 DEF S
\* Two such functions agree where both are defined.
<1>4. \A n \in Nat : \A k \in Nat : k <= n => \A f, g : Upto(f, n) /\ Upto(g, k) => f[k] = g[k]
  <2> DEFINE A == {k \in Nat : \A n \in Nat : k <= n =>
                               \A f, g : Upto(f, n) /\ Upto(g, k) => f[k] = g[k]}
  <2>1. 0 \in A
    OBVIOUS
  <2>2. ASSUME NEW k \in Nat, k \in A PROVE k + 1 \in A
    <3> SUFFICES ASSUME NEW n \in Nat, k + 1 <= n, NEW f, NEW g, Upto(f, n), Upto(g, k + 1)
                 PROVE  f[k + 1] = g[k + 1]
      OBVIOUS
    <3> DEFINE e == [i \in 0..k |-> g[i]]
    <3>1. Upto(e, k) /\ e[k] = g[k]
      OBVIOUS
    <3>2. f[k] = e[k]
      <4> HIDE DEF Upto, e
      <4> QED BY <2>2, <3>1
    <3>3. /\ f[k + 1] = h[<<k, f[k]>>] /\ g[k + 1] = h[<<k, g[k]>>]
      <4>1. k \in 0..n /\ k < n /\ k \in 0..(k + 1) /\ k < k + 1
        OBVIOUS
      <4> QED BY <4>1
    <3> QED BY <3>1, <3>2, <3>3
  <2> HIDE DEF A
  <2>3. \A k \in Nat : k \in A
    BY <2>1, <2>2, Induction
  <2> QED BY <2>3 DEF A
<1> DEFINE U(n) == CHOOSE g : Upto(g, n)
           G == [n \in Nat |-> U(n)[n]]
<1>5. \A n \in Nat : Upto(U(n), n)
  <2> HIDE DEF Upto
  <2> QED BY <1>3, Zenon
<1> HIDE DEF U
<1>6. G \in [Nat -> V] /\ G[0] = a
  BY <1>5
<1>7. ASSUME NEW n \in Nat PROVE G[n + 1] = h[<<n, G[n]>>]
  <2>1. U(n + 1)[n + 1] = h[<<n, U(n + 1)[n]>>]
    BY <1>5
  <2>2. U(n + 1)[n] = U(n)[n]
    <3> HIDE DEF Upto
    <3> QED BY <1>4, <1>5
  <2> QED BY <2>1, <2>2
<1> QED BY <1>6, <1>7 DEF Iterates

\* The same for a function on the numbers up to N.
LEMMA BoundedRecursion ==
    ASSUME NEW N \in Nat, NEW V, NEW a \in V, NEW h \in [(1..N) \X V -> V]
    PROVE  \E g : IteratesUpTo(N, g, V, a, h)
<1> DEFINE H == [p \in Nat \X V |-> IF p[1] < N THEN h[<<p[1] + 1, p[2]>>] ELSE p[2]]
<1>1. H \in [Nat \X V -> V]
  <2> SUFFICES ASSUME NEW n \in Nat, NEW v \in V PROVE H[<<n, v>>] \in V
    OBVIOUS
  <2> QED OBVIOUS
<1>2. PICK G \in [Nat -> V] : G[0] = a /\ \A n \in Nat : G[n + 1] = H[<<n, G[n]>>]
  <2> HIDE DEF H
  <2>1. \E G : Iterates(G, V, a, H)
    BY <1>1, Recursion
  <2> QED BY <2>1 DEF Iterates
<1>3. ASSUME NEW k \in 1..N PROVE G[k] = h[<<k, G[k - 1]>>]
  <2>1. k - 1 \in Nat /\ (k - 1) + 1 = k /\ k - 1 < N
    OBVIOUS
  <2>2. G[k] = H[<<k - 1, G[k - 1]>>]
    <3> HIDE DEF H
    <3> QED BY <1>2, <2>1
  <2>3. <<k - 1, G[k - 1]>> \in Nat \X V
    BY <1>2, <2>1
  <2> QED BY <2>1, <2>2, <2>3
<1> DEFINE g == [k \in 0..N |-> G[k]]
<1>4. g \in [0..N -> V] /\ g[0] = a
  BY <1>2
<1>5. \A k \in 1..N : g[k] = h[<<k, g[k - 1]>>]
  BY <1>3
<1> QED BY <1>4, <1>5 DEF IteratesUpTo

\* A header of at least one byte, in a base and an order.
Parsable(st) ==
    st.base \in Nat \ {0, 1} /\ st.headerBytes \in Nat \ {0} /\ st.order \in {"little", "big"}

\* The recursion the header is read by.
LEMMA ReadByBytes ==
    ASSUME NEW st, Parsable(st), NEW bytes, InOrder(st, bytes) \in [1..st.headerBytes -> Nat]
    PROVE  \E value \in [0..st.headerBytes -> Nat] :
              /\ value[0] = 0
              /\ \A k \in 1..st.headerBytes :
                   value[k] = value[k - 1] * st.base + InOrder(st, bytes)[k]
              /\ HeaderValue(st, bytes) = value[st.headerBytes]
<1> DEFINE N == st.headerBytes
           d == InOrder(st, bytes)
           P(f) == f = [i \in 0..N |-> IF i = 0 THEN 0 ELSE f[i - 1] * st.base + d[i]]
           h == [p \in (1..N) \X Nat |-> p[2] * st.base + d[p[1]]]
<1>1. N \in Nat /\ h \in [(1..N) \X Nat -> Nat]
  BY DEF Parsable
<1>2. PICK g \in [0..N -> Nat] : g[0] = 0 /\ \A k \in 1..N : g[k] = h[<<k, g[k - 1]>>]
  <2> HIDE DEF h, N
  <2>1. 0 \in Nat
    OBVIOUS
  <2>2. \E g : IteratesUpTo(N, g, Nat, 0, h)
    BY <1>1, <2>1, BoundedRecursion
  <2> QED BY <2>2 DEF IteratesUpTo
<1>3. \A k \in 1..N : g[k] = g[k - 1] * st.base + d[k]
  <2> TAKE k \in 1..N
  <2>1. g[k] = h[<<k, g[k - 1]>>]
    BY <1>2
  <2>2. k - 1 \in 0..N
    BY <1>1
  <2>3. <<k, g[k - 1]>> \in (1..N) \X Nat
    BY <1>2, <2>2
  <2> HIDE DEF d
  <2> QED BY <2>1, <2>3
<1>4. P(g)
  <2> HIDE DEF d
  <2> QED BY <1>1, <1>2, <1>3
<1> DEFINE f == CHOOSE v : P(v)
<1>5. P(f)
  <2> HIDE DEF P
  <2> QED BY <1>4
<1>6. HeaderValue(st, bytes) = f[N]
  BY DEF HeaderValue
<1> HIDE DEF f
<1>7. \A k \in Nat : k \in {n \in Nat : n <= N => f[n] = g[n]}
  <2> DEFINE S == {n \in Nat : n <= N => f[n] = g[n]}
  <2>1. 0 \in S
    BY <1>1, <1>2, <1>5
  <2>2. ASSUME NEW n \in Nat, n \in S PROVE n + 1 \in S
    <3> SUFFICES ASSUME n + 1 <= N PROVE f[n + 1] = g[n + 1]
      OBVIOUS
    <3> HIDE DEF d
    <3>1. n + 1 \in 1..N /\ n + 1 # 0 /\ (n + 1) - 1 = n /\ n <= N
      BY <1>1
    <3>2. f[n + 1] = f[n] * st.base + d[n + 1]
      BY <1>5, <3>1
    <3>3. g[n + 1] = g[n] * st.base + d[n + 1]
      BY <1>3, <3>1
    <3> QED BY <2>2, <3>1, <3>2, <3>3
  <2> HIDE DEF S
  <2>3. \A k \in Nat : k \in S
    BY <2>1, <2>2, Induction
  <2> QED BY <2>3 DEF S
<1>8. f[N] = g[N]
  BY <1>1, <1>7
<1> QED BY <1>2, <1>3, <1>6, <1>8

\* The recursion the header is written by.
LEMMA ShiftByBytes ==
    ASSUME NEW st, Parsable(st), NEW number \in Nat
    PROVE  LET q == Shifted(st, number) IN
           /\ q \in [0..st.headerBytes -> Nat] /\ q[0] = number
           /\ \A k \in 1..st.headerBytes : q[k] = q[k - 1] \div st.base
<1> DEFINE N == st.headerBytes
           P(f) == f = [i \in 0..N |-> IF i = 0 THEN number ELSE f[i - 1] \div st.base]
           h == [p \in (1..N) \X Nat |-> p[2] \div st.base]
<1>1. N \in Nat /\ h \in [(1..N) \X Nat -> Nat]
  BY DEF Parsable
<1>2. PICK g \in [0..N -> Nat] : g[0] = number /\ \A k \in 1..N : g[k] = h[<<k, g[k - 1]>>]
  <2> HIDE DEF h, N
  <2>1. \E g : IteratesUpTo(N, g, Nat, number, h)
    BY <1>1, BoundedRecursion
  <2> QED BY <2>1 DEF IteratesUpTo
<1>3. \A k \in 1..N : g[k] = g[k - 1] \div st.base
  <2> TAKE k \in 1..N
  <2>1. k - 1 \in 0..N
    BY <1>1
  <2>2. <<k, g[k - 1]>> \in (1..N) \X Nat
    BY <1>2, <2>1
  <2> QED BY <1>2, <2>2
<1>4. P(g)
  BY <1>1, <1>2, <1>3
<1> DEFINE f == CHOOSE v : P(v)
<1>5. P(f)
  <2> HIDE DEF P
  <2> QED BY <1>4
<1>6. Shifted(st, number) = f
  BY DEF Shifted
<1> HIDE DEF f
<1>7. \A k \in Nat : k \in {n \in Nat : n <= N => f[n] = g[n]}
  <2> DEFINE S == {n \in Nat : n <= N => f[n] = g[n]}
  <2>1. 0 \in S
    BY <1>1, <1>2, <1>5
  <2>2. ASSUME NEW n \in Nat, n \in S PROVE n + 1 \in S
    <3> SUFFICES ASSUME n + 1 <= N PROVE f[n + 1] = g[n + 1]
      OBVIOUS
    <3>1. n + 1 \in 1..N /\ n + 1 # 0 /\ (n + 1) - 1 = n /\ n <= N
      BY <1>1
    <3>2. f[n + 1] = f[n] \div st.base /\ g[n + 1] = g[n] \div st.base
      BY <1>3, <1>5, <3>1
    <3> QED BY <2>2, <3>1, <3>2
  <2> HIDE DEF S
  <2>3. \A k \in Nat : k \in S
    BY <2>1, <2>2, Induction
  <2> QED BY <2>3 DEF S
<1>8. f = g
  BY <1>1, <1>2, <1>5, <1>7
<1> QED BY <1>2, <1>3, <1>6, <1>8

\* A number is its quotient and its remainder.
LEMMA Division ==
    ASSUME NEW n \in Nat, NEW b \in Nat \ {0}
    PROVE  /\ n \div b \in Nat /\ n % b \in 0..(b - 1)
           /\ n = (n \div b) * b + (n % b)
           /\ \A a \in Nat : n <= a * b + (b - 1) => n \div b <= a
<1>1. n \div b \in Nat /\ n % b \in 0..(b - 1) /\ n = (n \div b) * b + (n % b)
  OBVIOUS
<1>2. ASSUME NEW a \in Nat, n <= a * b + (b - 1) PROVE n \div b <= a
  <2> DEFINE q == n \div b
  <2>1. q \in Nat /\ q * b <= n
    BY <1>1
  <2> HIDE DEF q
  <2>2. SUFFICES ASSUME q > a PROVE FALSE
    BY <2>1 DEF q
  <2>3. PICK t \in Nat : q = (a + 1) + t
    <3> q - (a + 1) \in Nat /\ q = (a + 1) + (q - (a + 1))
      BY <2>1, <2>2
    <3> QED OBVIOUS
  <2>4. q * b = a * b + b + t * b /\ t * b \in Nat
    BY <2>3
  <2> QED BY <1>2, <2>1, <2>4
<1> QED BY <1>1, <1>2

\* Counting bytes from the end: the next one after k of N.
LEMMA FromTheEnd ==
    ASSUME NEW N \in Nat, NEW k \in Nat, k + 1 <= N
    PROVE  /\ k \in 0..N /\ k + 1 \in 1..N /\ N - k \in 1..N /\ N - (k + 1) \in 0..N
           /\ (N - k) - 1 = N - (k + 1) /\ (k + 1) - 1 = k
OBVIOUS

\* Reading in an order undoes writing in it.
LEMMA InOrderTwice ==
    ASSUME NEW st, Parsable(st), NEW bytes, bytes = [i \in 1..st.headerBytes |-> bytes[i]]
    PROVE  InOrder(st, InOrder(st, bytes)) = bytes
BY DEF InOrder, Parsable

\* The longest length a header can hold is a header of highest bytes.
LEMMA LongestByBytes ==
    ASSUME NEW st, Parsable(st)
    PROVE  \E m \in [0..st.headerBytes -> Nat] :
              /\ m[0] = 0
              /\ \A k \in 1..st.headerBytes : m[k] = m[k - 1] * st.base + (st.base - 1)
              /\ MaxLength(st) = m[st.headerBytes]
<1> DEFINE N == st.headerBytes
           most == [i \in 1..N |-> st.base - 1]
<1>1. N \in Nat \ {0} /\ st.base \in Nat \ {0}
  BY DEF Parsable
<1>2. InOrder(st, most) = most /\ most \in [1..N -> Nat]
      /\ \A k \in 1..N : most[k] = st.base - 1
  BY <1>1 DEF InOrder
<1>3. MaxLength(st) = HeaderValue(st, most)
  BY DEF MaxLength
<1> HIDE DEF most
<1>4. PICK m \in [0..N -> Nat] : /\ m[0] = 0
                                 /\ \A k \in 1..N :
                                     m[k] = m[k - 1] * st.base + InOrder(st, most)[k]
                                 /\ HeaderValue(st, most) = m[N]
  BY <1>2, ReadByBytes
<1>5. \A k \in 1..N : m[k] = m[k - 1] * st.base + (st.base - 1)
  BY <1>2, <1>4
<1>6. MaxLength(st) = m[N]
  BY <1>1, <1>3, <1>4
<1> WITNESS m \in [0..N -> Nat]
<1> QED BY <1>4, <1>5, <1>6

\* A length that fits the header is read back as it was written, in both byte
\* orders: parse_value_from_bytes undoes write_from_settings.
THEOREM HeaderRoundTrip ==
    ASSUME NEW st, Parsable(st), NEW length \in Nat, length <= MaxLength(st)
    PROVE  /\ Header(st, length) \in Seq(Byte(st)) /\ Len(Header(st, length)) = st.headerBytes
           /\ HeaderValue(st, Header(st, length)) = length
<1> DEFINE N == st.headerBytes
           q == Shifted(st, length)
           digits == [i \in 1..N |-> q[N - i] % st.base]
<1>1. N \in Nat \ {0} /\ st.base \in Nat \ {0}
  BY DEF Parsable
<1>2. q \in [0..N -> Nat] /\ q[0] = length /\ \A k \in 1..N : q[k] = q[k - 1] \div st.base
  BY ShiftByBytes
<1> HIDE DEF q
<1>3. digits \in [1..N -> Byte(st)] /\ digits \in [1..N -> Nat]
  <2> SUFFICES ASSUME NEW i \in 1..N
               PROVE q[N - i] % st.base \in Byte(st) /\ q[N - i] % st.base \in Nat
    OBVIOUS
  <2> DEFINE r == q[N - i]
  <2>1. r \in Nat
    BY <1>1, <1>2
  <2> HIDE DEF r
  <2>2. r % st.base \in 0..(st.base - 1)
    BY <1>1, <2>1, Division
  <2> QED BY <1>1, <2>2 DEF Byte, r
<1>8. PICK m \in [0..N -> Nat] : /\ m[0] = 0
                                 /\ \A k \in 1..N : m[k] = m[k - 1] * st.base + (st.base - 1)
                                 /\ MaxLength(st) = m[N]
  BY LongestByBytes
<1>4. Header(st, length) = InOrder(st, digits)
  <2>1. HeaderNumber(st, length) = length
    BY <1>1, <1>8 DEF HeaderNumber
  <2> QED BY <2>1 DEF Header, q
<1>5. InOrder(st, Header(st, length)) = digits
  <2>1. digits = [i \in 1..N |-> digits[i]]
    BY <1>3
  <2> HIDE DEF digits
  <2> QED BY <1>4, <2>1, InOrderTwice
<1>6. Header(st, length) \in [1..N -> Byte(st)]
  <2> HIDE DEF digits
  <2> QED BY <1>1, <1>3, <1>4 DEF InOrder
<1>7. PICK v \in [0..N -> Nat] : /\ v[0] = 0
                                 /\ \A k \in 1..N : v[k] = v[k - 1] * st.base + digits[k]
                                 /\ HeaderValue(st, Header(st, length)) = v[N]
  <2>1. InOrder(st, Header(st, length)) \in [1..N -> Nat]
    BY <1>3, <1>5
  <2> HIDE DEF digits
  <2> QED BY <1>5, <2>1, ReadByBytes
\* What is left of the number fits the bytes that are left.
<1>9. \A k \in Nat : k <= N => q[k] <= m[N - k]
  <2> DEFINE S == {k \in Nat : k <= N => q[k] <= m[N - k]}
  <2>1. 0 \in S
    BY <1>1, <1>2, <1>8
  <2>2. ASSUME NEW k \in Nat, k \in S PROVE k + 1 \in S
    <3> SUFFICES ASSUME k + 1 <= N PROVE q[k + 1] <= m[N - (k + 1)]
      OBVIOUS
    <3> DEFINE a == m[N - (k + 1)]
    <3>1. k \in 0..N /\ k + 1 \in 1..N /\ N - k \in 1..N /\ N - (k + 1) \in 0..N
          /\ (N - k) - 1 = N - (k + 1) /\ (k + 1) - 1 = k
      BY <1>1, FromTheEnd
    <3>2. a \in Nat /\ q[k] \in Nat /\ q[k] <= a * st.base + (st.base - 1)
      <4>1. m[N - k] = m[(N - k) - 1] * st.base + (st.base - 1)
        BY <1>8, <3>1
      <4>2. q[k] <= m[N - k]
        BY <2>2, <3>1
      <4>3. a \in Nat /\ q[k] \in Nat /\ m[(N - k) - 1] = a
        BY <1>2, <3>1
      <4> QED BY <4>1, <4>2, <4>3, Zenon
    <3>3. q[k + 1] = q[k] \div st.base
      BY <1>2, <3>1
    <3> HIDE DEF a
    <3>4. q[k] \div st.base <= a
      BY <1>1, <3>2, Division
    <3> QED BY <3>3, <3>4 DEF a
  <2> HIDE DEF S
  <2>3. \A k \in Nat : k \in S
    BY <2>1, <2>2, Induction
  <2> QED BY <2>3 DEF S
\* What was read so far is the number without the bytes still to come.
<1>10. \A k \in Nat : k <= N => v[k] = q[N - k]
  <2> DEFINE S == {k \in Nat : k <= N => v[k] = q[N - k]}
  <2>1. 0 \in S
    <3>1. q[N] <= 0 /\ q[N] \in Nat
      <4>1. N \in Nat /\ N <= N /\ N - N = 0 /\ N \in 0..N
        BY <1>1
      <4>2. q[N] <= m[0]
        BY <1>9, <4>1
      <4> QED BY <1>2, <1>8, <4>1, <4>2
    <3> QED BY <1>1, <1>7, <3>1
  <2>2. ASSUME NEW k \in Nat, k \in S PROVE k + 1 \in S
    <3> SUFFICES ASSUME k + 1 <= N PROVE v[k + 1] = q[N - (k + 1)]
      OBVIOUS
    <3> DEFINE r == q[N - (k + 1)]
    <3>1. k + 1 \in 1..N /\ N - k \in 1..N /\ N - (k + 1) \in 0..N /\ (N - k) - 1 = N - (k + 1)
          /\ (k + 1) - 1 = k
      BY <1>1, FromTheEnd
    <3>2. r \in Nat /\ v[k] = r \div st.base /\ digits[k + 1] = r % st.base
      <4>1. v[k] = q[N - k]
        BY <1>1, <2>2, <3>1
      <4>3. q[N - k] = q[(N - k) - 1] \div st.base
        BY <1>2, <3>1
      <4>2. N - (k + 1) \in 0..N /\ digits[k + 1] = r % st.base
        BY <3>1
      <4> QED BY <1>2, <3>1, <4>1, <4>2, <4>3
    <3>3. v[k + 1] = v[k] * st.base + digits[k + 1]
      BY <1>7, <3>1
    <3> HIDE DEF r, digits
    <3>4. v[k + 1] = (r \div st.base) * st.base + (r % st.base)
      BY <3>2, <3>3
    <3> QED BY <1>1, <3>2, <3>4, Division DEF r
  <2> HIDE DEF S
  <2>3. \A k \in Nat : k \in S
    BY <2>1, <2>2, Induction
  <2> QED BY <2>3 DEF S
<1>11. v[N] = length
  <2>1. N \in Nat /\ N <= N /\ N - N = 0
    BY <1>1
  <2>2. v[N] = q[N - N]
    BY <1>10, <2>1, Zenon
  <2> QED BY <1>2, <2>1, <2>2, Zenon
<1>12. Header(st, length) \in Seq(Byte(st)) /\ Len(Header(st, length)) = N
  <2> DEFINE header == Header(st, length)
             S == Byte(st)
  <2>1. N \in Nat /\ header \in [1..N -> S]
    BY <1>1, <1>6
  <2> HIDE DEF N, header, S
  <2>2. header \in Seq(S) /\ Len(header) = N
    BY <2>1
  <2> QED BY <2>2, Zenon DEF header, S
<1>13. HeaderValue(st, Header(st, length)) = length
  <2> HIDE DEF N, digits
  <2> QED BY <1>7, <1>11
<1> QED BY <1>12, <1>13

-----------------------------------------------------------------------------
\* A length read from bytes is a length.
LEMMA BodyLengthType ==
    ASSUME NEW st, Parsable(st), NEW b \in Seq(Byte(st)), st.headerBytes <= Len(b)
    PROVE  BodyLength(st, b) \in Nat /\ FrameLength(st, b) \in Nat
           /\ FrameLength(st, b) >= st.headerBytes
<1> DEFINE N == st.headerBytes
           header == SubSeq(b, 1, N)
<1>1. N \in Nat \ {0} /\ Byte(st) \subseteq Nat
  BY DEF Parsable, Byte
<1>2. \A i \in 1..N : header[i] \in Nat
  BY <1>1
<1>3. InOrder(st, header) \in [1..N -> Nat]
  <2> HIDE DEF header
  <2> QED BY <1>1, <1>2 DEF InOrder
<1>4. HeaderValue(st, header) \in Nat
  <2> HIDE DEF header
  <2>1. PICK v \in [0..N -> Nat] : HeaderValue(st, header) = v[N]
    BY <1>3, ReadByBytes
  <2> QED BY <1>1, <2>1
<1> QED BY <1>1, <1>4 DEF BodyLength, FrameLength

\* A round of the extraction loop returns a message of bytes and leaves fewer bytes.
LEMMA FirstAndRest ==
    ASSUME NEW st, Parsable(st), NEW b \in Seq(Byte(st)), Whole(st, b)
    PROVE  /\ First(st, b) \in Seq(Byte(st)) /\ Rest(st, b) \in Seq(Byte(st))
           /\ Len(Rest(st, b)) < Len(b) /\ Len(b) > 0
<1>1. /\ st.headerBytes \in Nat \ {0} /\ st.headerBytes <= Len(b)
      /\ FrameLength(st, b) \in Nat /\ FrameLength(st, b) >= st.headerBytes
         /\ FrameLength(st, b) <= Len(b)
  BY BodyLengthType DEF Parsable, Whole
<1> DEFINE n == FrameLength(st, b)
<1> HIDE DEF n
<1>2. /\ SubSeq(b, st.headerBytes + 1, n) \in Seq(Byte(st))
      /\ SubSeq(b, n + 1, Len(b)) \in Seq(Byte(st))
         /\ Len(SubSeq(b, n + 1, Len(b))) = Len(b) - n
  BY <1>1 DEF n
<1> QED BY <1>1, <1>2 DEF First, Rest, n

\* What the extraction returns.
Extraction(st) == [messages : Seq(Seq(Byte(st))), rest : Seq(Byte(st))]

\* The extraction loop: a round for every whole message.
LEMMA ExtractByRounds ==
    ASSUME NEW st, Parsable(st), NEW b \in Seq(Byte(st))
    PROVE  /\ Extract(st, b) \in Extraction(st)
           /\ ~Whole(st, b) => Extract(st, b) = [messages |-> <<>>, rest |-> b]
           /\ Whole(st, b) =>
                 LET e == Extract(st, Rest(st, b)) IN
                 Extract(st, b) = [messages |-> <<First(st, b)>> \o e.messages, rest |-> e.rest]
<1> DEFINE B == Seq(Byte(st))
           R == Extraction(st)
           V == [B -> R]
           Done(c) == [messages |-> <<>>, rest |-> c]
           Round(c, r) == [messages |-> <<First(st, c)>> \o r.messages, rest |-> r.rest]
           Step(v) == [c \in B |-> IF Whole(st, c) THEN Round(c, v[Rest(st, c)]) ELSE Done(c)]
           h == [p \in Nat \X V |-> Step(p[2])]
           a == [c \in B |-> Done(c)]
<1>1. \A c \in B : Done(c) \in R
  BY DEF Extraction
<1>2. \A c \in B : Whole(st, c) => Rest(st, c) \in B /\ Len(Rest(st, c)) < Len(c) /\ Len(c) > 0
  BY FirstAndRest
<1>3. ASSUME NEW c \in B, Whole(st, c), NEW r \in R
      PROVE  Round(c, r) \in R
  <2>1. <<First(st, c)>> \in Seq(B)
    BY <1>3, FirstAndRest
  <2>2. r.messages \in Seq(B) /\ r.rest \in B
    BY DEF Extraction
  <2>3. <<First(st, c)>> \o r.messages \in Seq(B)
    BY <2>1, <2>2
  <2> QED BY <2>2, <2>3 DEF Extraction
<1> HIDE DEF R, Done, Round
<1>4. \A v \in V : Step(v) \in V
  <2> HIDE DEF B
  <2> QED BY <1>1, <1>2, <1>3
<1>5. PICK g : Iterates(g, V, a, h)
  <2>1. a \in V
    BY <1>1
  <2>2. h \in [Nat \X V -> V]
    <3> HIDE DEF V, Step
    <3> QED BY <1>4
  <2> HIDE DEF h, a, V
  <2> QED BY <2>1, <2>2, Recursion
<1>6. g \in [Nat -> V] /\ g[0] = a /\ \A n \in Nat : g[n + 1] = Step(g[n])
  <2>1. g \in [Nat -> V] /\ g[0] = a /\ \A n \in Nat : g[n + 1] = h[<<n, g[n]>>]
    <3> HIDE DEF h, a, V
    <3> QED BY <1>5 DEF Iterates
  <2> HIDE DEF Step, V
  <2> QED BY <2>1
<1>7. /\ \A v, c : c \in B
         => Step(v)[c] = IF Whole(st, c) THEN Round(c, v[Rest(st, c)]) ELSE Done(c)
      /\ \A c \in B : g[0][c] = Done(c) /\ Len(c) \in Nat
  BY <1>6
<1> HIDE DEF B, V, Step, h, a
\* A round more than there are bytes changes nothing.
<1>8. \A n \in Nat : \A c \in B : Len(c) <= n => g[n + 1][c] = g[n][c]
  <2> DEFINE S == {n \in Nat : \A c \in B : Len(c) <= n => g[n + 1][c] = g[n][c]}
  <2>1. 0 \in S
    <3> SUFFICES ASSUME NEW c \in B, Len(c) <= 0 PROVE g[0 + 1][c] = g[0][c]
      OBVIOUS
    <3>1. ~Whole(st, c)
      BY <1>2, <1>7
    <3>2. g[0 + 1] = Step(g[0])
      BY <1>6
    <3> QED BY <1>7, <3>1, <3>2
  <2>2. ASSUME NEW n \in Nat, n \in S PROVE n + 1 \in S
    <3> SUFFICES ASSUME NEW c \in B, Len(c) <= n + 1 PROVE g[(n + 1) + 1][c] = g[n + 1][c]
      OBVIOUS
    <3>1. g[(n + 1) + 1] = Step(g[n + 1]) /\ g[n + 1] = Step(g[n])
      <4>1. n + 1 \in Nat
        OBVIOUS
      <4> QED BY <1>6, <4>1
    <3>2. Whole(st, c) => g[n + 1][Rest(st, c)] = g[n][Rest(st, c)]
      BY <1>2, <1>7, <2>2
    <3> QED BY <1>7, <3>1, <3>2
  <2> HIDE DEF S
  <2>3. \A n \in Nat : n \in S
    BY <2>1, <2>2, Induction
  <2> QED BY <2>3 DEF S
<1>9. \A c \in B : \A m \in Nat : g[Len(c) + m][c] = g[Len(c)][c]
  <2> TAKE c \in B
  <2> DEFINE S == {m \in Nat : g[Len(c) + m][c] = g[Len(c)][c]}
  <2>1. 0 \in S
    BY <1>7
  <2>2. ASSUME NEW m \in Nat, m \in S PROVE m + 1 \in S
    <3>1. Len(c) + m \in Nat /\ Len(c) <= Len(c) + m /\ Len(c) + (m + 1) = (Len(c) + m) + 1
      BY <1>7
    <3>2. g[(Len(c) + m) + 1][c] = g[Len(c) + m][c]
      BY <1>8, <3>1
    <3> QED BY <2>2, <3>1, <3>2
  <2> HIDE DEF S
  <2>3. \A m \in Nat : m \in S
    BY <2>1, <2>2, Induction
  <2> QED BY <2>3 DEF S
<1> DEFINE F == [c \in B |-> g[Len(c)][c]]
<1>10. F = Step(F)
  <2> SUFFICES ASSUME NEW c \in B
               PROVE  g[Len(c)][c] = IF Whole(st, c) THEN Round(c, F[Rest(st, c)]) ELSE Done(c)
    BY Zenon DEF Step
  <2>1. CASE Len(c) = 0
    BY <1>2, <1>7, <2>1
  <2>2. CASE Len(c) # 0
    <3> DEFINE n == Len(c) - 1
    <3>1. n \in Nat /\ Len(c) = n + 1
      BY <1>7, <2>2
    <3> HIDE DEF n
    <3>2. g[n + 1] = Step(g[n])
      BY <1>6, <3>1
    <3>3. g[Len(c)][c] = IF Whole(st, c) THEN Round(c, g[n][Rest(st, c)]) ELSE Done(c)
      BY <1>7, <3>1, <3>2
    <3>4. ASSUME Whole(st, c) PROVE g[n][Rest(st, c)] = F[Rest(st, c)]
      <4> DEFINE r == Rest(st, c)
      <4>1. r \in B /\ Len(r) \in Nat /\ Len(r) < Len(c)
        BY <1>2, <1>7, <3>4
      <4> HIDE DEF r
      <4>2. n - Len(r) \in Nat /\ Len(r) + (n - Len(r)) = n
        BY <3>1, <4>1
      <4>3. g[n][r] = g[Len(r)][r]
        BY <1>9, <4>1, <4>2
      <4> QED BY <4>1, <4>3 DEF r
    <3> QED BY <3>3, <3>4
  <2> QED BY <2>1, <2>2
<1> DEFINE f == CHOOSE v : v = Step(v)
<1>11. f = Step(f)
  <2> HIDE DEF F
  <2> QED BY <1>10
<1>12. \A c \in B : Extract(st, c) = f[c]
  BY DEF Extract, Extracting, Step, Round, Done, B
<1> HIDE DEF f
<1>13. \A c \in B : f[c] = IF Whole(st, c) THEN Round(c, f[Rest(st, c)]) ELSE Done(c)
  BY <1>7, <1>11
<1>14. \A c \in B : f[c] \in R
  <2> DEFINE S == {n \in Nat : \A c \in B : Len(c) <= n => f[c] \in R}
  <2>1. 0 \in S
    BY <1>1, <1>2, <1>7, <1>13
  <2>2. ASSUME NEW n \in Nat, n \in S PROVE n + 1 \in S
    <3> SUFFICES ASSUME NEW c \in B, Len(c) <= n + 1 PROVE f[c] \in R
      OBVIOUS
    <3>1. CASE ~Whole(st, c)
      BY <1>1, <1>13, <3>1
    <3>2. CASE Whole(st, c)
      <4>1. f[Rest(st, c)] \in R
        BY <1>2, <1>7, <2>2, <3>2
      <4> QED BY <1>3, <1>13, <3>2, <4>1
    <3> QED BY <3>1, <3>2
  <2> HIDE DEF S
  <2>3. \A n \in Nat : n \in S
    BY <2>1, <2>2, Induction
  <2>4. ASSUME NEW c \in B PROVE f[c] \in R
    <3>1. Len(c) \in S /\ Len(c) <= Len(c)
      BY <1>7, <2>3
    <3> QED BY <3>1 DEF S
  <2> QED BY <2>4
<1>15. b \in B /\ Extract(st, b) = f[b] /\ f[b] \in R
  BY <1>12, <1>14 DEF B
<1>16. CASE ~Whole(st, b)
  <2>1. f[b] = [messages |-> <<>>, rest |-> b]
    BY <1>13, <1>15, <1>16 DEF Done
  <2> QED BY <1>15, <1>16, <2>1 DEF R
<1>17. CASE Whole(st, b)
  <2>1. f[Rest(st, b)] \in R /\ Extract(st, Rest(st, b)) = f[Rest(st, b)]
    BY <1>2, <1>12, <1>14, <1>15, <1>17
  <2>2. f[b] = Round(b, f[Rest(st, b)])
    BY <1>13, <1>15, <1>17
  <2> QED BY <1>15, <1>17, <2>1, <2>2 DEF R, Round
<1> QED BY <1>16, <1>17

\* A sequence is its two parts, wherever it is cut.
LEMMA SplitAnywhere ==
    ASSUME NEW S, NEW b \in Seq(S), NEW n \in 0..Len(b)
    PROVE  /\ SubSeq(b, 1, n) \in Seq(S) /\ SubSeq(b, n + 1, Len(b)) \in Seq(S)
           /\ b = SubSeq(b, 1, n) \o SubSeq(b, n + 1, Len(b))
<1> DEFINE c == SubSeq(b, 1, n)
           d == SubSeq(b, n + 1, Len(b))
<1>1. c \in Seq(S) /\ d \in Seq(S) /\ Len(c) = n /\ Len(d) = Len(b) - n
  OBVIOUS
<1>2. (\A i \in 1..n : c[i] = b[i]) /\ \A i \in 1..(Len(b) - n) : d[i] = b[n + i]
  OBVIOUS
<1> HIDE DEF c, d
<1>3. c \o d \in Seq(S) /\ Len(c \o d) = Len(b)
  BY <1>1
<1>4. ASSUME NEW i \in 1..Len(b) PROVE b[i] = (c \o d)[i]
  <2>1. (c \o d)[i] = IF i <= n THEN c[i] ELSE d[i - n]
    BY <1>1, ConcatProperties
  <2>2. CASE i <= n
    BY <1>2, <2>1, <2>2
  <2>3. CASE i > n
    <3>1. i - n \in 1..(Len(b) - n) /\ n + (i - n) = i
      BY <2>3
    <3> QED BY <1>2, <2>1, <2>3, <3>1
  <2>4. i <= n \/ i > n
    OBVIOUS
  <2> QED BY <2>2, <2>3, <2>4, Zenon
<1>5. b = c \o d
  BY <1>3, <1>4, SeqEqual
<1> QED BY <1>1, <1>5 DEF c, d

\* What is appended behind a cut stays behind it.
LEMMA SplitLater ==
    ASSUME NEW S, NEW b \in Seq(S), NEW c \in Seq(S), NEW n \in 0..Len(b)
    PROVE  SubSeq(b \o c, n + 1, Len(b \o c)) = SubSeq(b, n + 1, Len(b)) \o c
<1> DEFINE d == SubSeq(b, n + 1, Len(b))
           e == SubSeq(b \o c, n + 1, Len(b \o c))
<1>1. d \in Seq(S) /\ Len(d) = Len(b) - n /\ \A i \in 1..(Len(b) - n) : d[i] = b[n + i]
  OBVIOUS
<1>2. e \in Seq(S) /\ Len(e) = Len(b) + Len(c) - n
      /\ \A i \in 1..(Len(b) + Len(c) - n) : e[i] = (b \o c)[n + i]
  OBVIOUS
<1> HIDE DEF d, e
<1>3. d \o c \in Seq(S) /\ Len(d \o c) = Len(e)
  BY <1>1, <1>2
<1>4. ASSUME NEW i \in 1..Len(e) PROVE e[i] = (d \o c)[i]
  <2>1. (d \o c)[i] = IF i <= Len(b) - n THEN d[i] ELSE c[i - (Len(b) - n)]
    BY <1>1, <1>2, ConcatProperties
  <2>2. e[i] = IF n + i <= Len(b) THEN b[n + i] ELSE c[(n + i) - Len(b)]
    <3>1. n + i \in 1..(Len(b) + Len(c)) /\ i \in 1..(Len(b) + Len(c) - n)
      BY <1>2
    <3>2. (b \o c)[n + i] = IF n + i <= Len(b) THEN b[n + i] ELSE c[(n + i) - Len(b)]
      BY <3>1, ConcatProperties
    <3> QED BY <1>2, <3>1, <3>2
  <2>3. CASE i <= Len(b) - n
    <3>1. i \in 1..(Len(b) - n) /\ n + i <= Len(b)
      BY <2>3
    <3> QED BY <1>1, <2>1, <2>2, <2>3, <3>1
  <2>4. CASE i > Len(b) - n
    <3>1. ~(n + i <= Len(b)) /\ ~(i <= Len(b) - n) /\ (n + i) - Len(b) = i - (Len(b) - n)
      BY <2>4
    <3> QED BY <2>1, <2>2, <3>1
  <2>5. i <= Len(b) - n \/ i > Len(b) - n
    BY <1>2
  <2> QED BY <2>3, <2>4, <2>5, Zenon
<1>5. e = d \o c
  BY <1>2, <1>3, <1>4, SeqEqual
<1> QED BY <1>5 DEF d, e

\* The second part of a sequence over T is one over T.
LEMMA LaterElements ==
    ASSUME NEW S, NEW T, NEW b \in Seq(S), NEW c \in Seq(S), b \o c \in Seq(T)
    PROVE  c \in Seq(T)
<1>1. \A i \in 1..Len(c) : c[i] \in T
  <2> TAKE i \in 1..Len(c)
  <2>1. Len(b) + i \in 1..Len(b \o c) /\ (b \o c)[Len(b) + i] = c[i]
    OBVIOUS
  <2> QED BY <2>1, ElementOfSeq
<1> QED BY <1>1

\* Bytes behind a whole message change nothing about it.
LEMMA FirstOfLonger ==
    ASSUME NEW st, Parsable(st), NEW b \in Seq(Byte(st)), NEW c \in Seq(Byte(st)), Whole(st, b)
    PROVE  /\ Whole(st, b \o c) /\ First(st, b \o c) = First(st, b)
           /\ Rest(st, b \o c) = Rest(st, b) \o c
<1> DEFINE N == st.headerBytes
           n == FrameLength(st, b)
<1>1. N \in Nat \ {0} /\ N <= Len(b) /\ n \in 0..Len(b)
  BY BodyLengthType DEF Parsable, Whole
<1> HIDE DEF N, n
<1>2. SubSeq(b \o c, 1, N) = SubSeq(b, 1, N)
  BY <1>1
<1>3. FrameLength(st, b \o c) = n
  BY <1>2 DEF FrameLength, BodyLength, N, n
<1>4. SubSeq(b \o c, N + 1, n) = SubSeq(b, N + 1, n)
  BY <1>1
<1>5. SubSeq(b \o c, n + 1, Len(b \o c)) = SubSeq(b, n + 1, Len(b)) \o c
  BY <1>1, SplitLater
<1>6. Len(b) <= Len(b \o c) /\ Len(b) \in Nat /\ Len(b \o c) \in Nat
  OBVIOUS
<1>7. N <= Len(b \o c) /\ n <= Len(b \o c)
  BY <1>1, <1>6
<1> QED BY <1>3, <1>4, <1>5, <1>7, Zenon DEF Whole, First, Rest, N, n

\* Extracting does not depend on where the stream was cut: the messages taken from
\* bytes b and then from what b left with the bytes c that came later are the
\* messages taken from b and c at once. extract_messages_from_buffer runs every
\* frame, on whatever arrived by then.
THEOREM ExtractInTwo ==
    ASSUME NEW st, Parsable(st), NEW b \in Seq(Byte(st)), NEW c \in Seq(Byte(st))
    PROVE  LET e == Extract(st, b)
               later == Extract(st, e.rest \o c)
           IN  Extract(st, b \o c) =
                 [messages |-> e.messages \o later.messages, rest |-> later.rest]
<1> DEFINE B == Seq(Byte(st))
           E(x) == Extract(st, x)
           P(x) == E(x \o c) = [messages |-> E(x).messages \o E(E(x).rest \o c).messages,
                                rest |-> E(E(x).rest \o c).rest]
           S == {n \in Nat : \A x \in B : Len(x) <= n => P(x)}
<1>1. \A x \in B : E(x).messages \in Seq(B) /\ E(x).rest \in B
  BY ExtractByRounds DEF Extraction
<1>2. ASSUME NEW x \in B, ~Whole(st, x) PROVE P(x)
  <2>1. E(x).messages = <<>> /\ E(x).rest = x
    <3>1. E(x) = [messages |-> <<>>, rest |-> x]
      BY <1>2, ExtractByRounds
    <3> HIDE DEF E
    <3> QED BY <3>1
  <2>2. x \o c \in B
    OBVIOUS
  <2>3. E(x \o c) = [messages |-> E(x \o c).messages, rest |-> E(x \o c).rest]
    <3>1. E(x \o c) \in Extraction(st)
      BY <2>2, ExtractByRounds
    <3> QED BY <3>1 DEF Extraction
  <2>4. <<>> \o E(x \o c).messages = E(x \o c).messages
    BY <1>1, <2>2
  <2> HIDE DEF E, B
  <2> QED BY <2>1, <2>3, <2>4
<1>3. ASSUME NEW x \in B, Whole(st, x), P(Rest(st, x)) PROVE P(x)
  <2> DEFINE r == Rest(st, x)
             F == <<First(st, x)>>
  <2>1. r \in B /\ F \in Seq(B)
    BY <1>3, FirstAndRest
  <2>2. x \o c \in B /\ Whole(st, x \o c) /\ Rest(st, x \o c) = r \o c
        /\ First(st, x \o c) = First(st, x)
    BY <1>3, FirstOfLonger
  <2>3. E(x) = [messages |-> F \o E(r).messages, rest |-> E(r).rest]
    BY <1>3, ExtractByRounds
  <2>4. E(x \o c) = [messages |-> F \o E(r \o c).messages, rest |-> E(r \o c).rest]
    BY <2>2, ExtractByRounds
  <2> DEFINE u == E(r).messages
             v == E(E(r).rest \o c).messages
  <2>5. F \o (u \o v) = (F \o u) \o v
    <3>1. u \in Seq(B) /\ E(r).rest \in B
      BY <1>1, <2>1
    <3>2. E(r).rest \o c \in B
      BY <3>1
    <3>3. v \in Seq(B)
      BY <1>1, <3>2
    <3> HIDE DEF u, v, B, F
    <3> QED BY <2>1, <3>1, <3>3, ConcatAssociative
  <2>6. E(r \o c) = [messages |-> u \o v, rest |-> E(E(r).rest \o c).rest]
    BY <1>3
  <2> DEFINE w == E(E(r).rest \o c).rest
  <2> HIDE DEF E, F, r, u, v, w
  <2>7. E(r \o c).messages = u \o v /\ E(r \o c).rest = w
    BY <2>6 DEF w
  <2>8. E(x).messages = F \o u /\ E(x).rest = E(r).rest
    BY <2>3 DEF u
  <2> QED BY <2>4, <2>5, <2>7, <2>8 DEF v, w
<1> HIDE DEF P
<1>4. 0 \in S
  BY <1>2, FirstAndRest
<1>5. ASSUME NEW n \in Nat, n \in S PROVE n + 1 \in S
  <2> SUFFICES ASSUME NEW x \in B, Len(x) <= n + 1, Whole(st, x) PROVE P(x)
    BY <1>2
  <2>1. Rest(st, x) \in B /\ Len(Rest(st, x)) \in Nat /\ Len(x) \in Nat
        /\ Len(Rest(st, x)) < Len(x)
    BY FirstAndRest
  <2>2. P(Rest(st, x))
    BY <1>5, <2>1
  <2> QED BY <1>3, <2>2
<1>6. \A n \in Nat : n \in S
  <2> HIDE DEF S
  <2> QED BY <1>4, <1>5, Induction
<1>7. P(b)
  <2>1. Len(b) \in S /\ b \in B /\ Len(b) <= Len(b)
    BY <1>6
  <2> QED BY <2>1
<1> QED BY <1>7 DEF P

\* A frame is bytes, also when its length does not fit the header.
LEMMA FrameTyped ==
    ASSUME NEW st, Parsable(st), NEW body \in Seq(Byte(st))
    PROVE  Frame(st, body) \in Seq(Byte(st))
<1> DEFINE length == HeaderNumber(st, Len(body))
<1>1. MaxLength(st) \in Nat
  BY LongestByBytes DEF Parsable
<1>2. length \in Nat /\ length <= MaxLength(st) /\ HeaderNumber(st, length) = length
  BY <1>1 DEF HeaderNumber
<1> HIDE DEF length
<1>3. Header(st, Len(body)) = Header(st, length)
  BY <1>2 DEF Header, length
<1>4. Header(st, length) \in Seq(Byte(st))
  BY <1>2, HeaderRoundTrip
<1> QED BY <1>3, <1>4 DEF Frame

\* An empty buffer holds no message.
LEMMA NothingExtracted ==
    ASSUME NEW st, Parsable(st)
    PROVE  Extract(st, <<>>) = [messages |-> <<>>, rest |-> <<>>]
<1>1. <<>> \in Seq(Byte(st)) /\ ~Whole(st, <<>>)
  BY DEF Whole, Parsable
<1> QED BY <1>1, ExtractByRounds

\* A frame is extracted to the body it was made for, and leaves nothing: what
\* extract_messages_from_buffer takes out is what a send task wrote.
THEOREM FrameRoundTrip ==
    ASSUME NEW st, Parsable(st), NEW body \in Seq(Byte(st)), Len(body) <= MaxLength(st)
    PROVE  /\ Frame(st, body) \in Seq(Byte(st))
           /\ Extract(st, Frame(st, body)) = [messages |-> <<body>>, rest |-> <<>>]
<1> DEFINE N == st.headerBytes
           header == Header(st, Len(body))
           bytes == Frame(st, body)
<1>1. N \in Nat \ {0} /\ header \in Seq(Byte(st)) /\ Len(header) = N
      /\ HeaderValue(st, header) = Len(body)
  BY HeaderRoundTrip DEF Parsable
<1> HIDE DEF header
<1>2. bytes = header \o body
  BY DEF Frame, header
<1> HIDE DEF bytes
<1>3. bytes \in Seq(Byte(st)) /\ Len(bytes) = N + Len(body) /\ SubSeq(bytes, 1, N) = header
      /\ SubSeq(bytes, N + 1, N + Len(body)) = body
         /\ SubSeq(bytes, N + Len(body) + 1, Len(bytes)) = <<>>
  <2> DEFINE S == Byte(st)
  <2>1. body \in Seq(S) /\ header \in Seq(S)
    BY <1>1
  <2> HIDE DEF S, N
  <2>2. /\ header \o body \in Seq(S) /\ Len(header \o body) = Len(header) + Len(body)
        /\ SubSeq(header \o body, 1, Len(header)) = header
        /\ SubSeq(header \o body, Len(header) + 1, Len(header) + Len(body)) = body
        /\ SubSeq(header \o body, Len(header) + Len(body) + 1, Len(header \o body)) = <<>>
    BY <2>1
  <2> QED BY <1>1, <1>2, <2>2 DEF S
<1>4. FrameLength(st, bytes) = N + Len(body)
  BY <1>1, <1>3 DEF FrameLength, BodyLength
<1>5. Whole(st, bytes) /\ First(st, bytes) = body /\ Rest(st, bytes) = <<>>
  BY <1>1, <1>3, <1>4 DEF Whole, First, Rest
<1>7. Extract(st, <<>>) = [messages |-> <<>>, rest |-> <<>>]
  BY NothingExtracted
<1>8. Extract(st, bytes) = [messages |-> <<body>> \o <<>>, rest |-> <<>>]
  <2> DEFINE e == Extract(st, <<>>)
  <2>1. Extract(st, bytes) = [messages |-> <<body>> \o e.messages, rest |-> e.rest]
    BY <1>3, <1>5, ExtractByRounds
  <2>2. e.messages = <<>> /\ e.rest = <<>>
    BY <1>7
  <2> QED BY <2>1, <2>2
<1>9. <<body>> \o <<>> = <<body>>
  OBVIOUS
<1> QED BY <1>3, <1>8, <1>9 DEF bytes

-----------------------------------------------------------------------------
(***************************************************************************)
(* The invariant. FramingInv speaks of an open stream only, which is not   *)
(* enough: a client that keeps its buffer takes it to the next stream, so  *)
(* what is in it between two streams matters. After a reset the bytes on   *)
(* the wire may end inside a message, but the messages before are whole.   *)
(***************************************************************************)

\* The bytes under way, and what the receiver will make of them.
Underway == buffer \o wire \o writing
Ahead == Extract(setting, Underway)

\* Between two streams nothing is written; before the first one, and once the
\* end of one was noticed, nothing is on the wire.
IInv ==
    /\ TypeOK
    /\ stream # "open" => outbox = {} /\ writing = <<>>
    /\ stream = "none" => wire = <<>>
    /\ ~damaged => /\ Ahead.messages \in Seq(Bodies(sent))
                   /\ stream # "reset" => Ahead.rest = <<>>

\* Every setting has a header that parses, and bodies that tell messages apart.
LEMMA SettingFacts ==
    ASSUME setting \in Settings
    PROVE  /\ Parsable(setting) /\ BufferSize \in Nat
           /\ \A m \in Messages : BodyOf[m] \in Seq(Byte(setting))
           /\ \A m, n \in Messages : BodyOf[m] = BodyOf[n] => m = n
BY SettingsAssumption DEF Parsable, BodyOf, BufferSize, Byte

\* What is extracted from the bytes under way: messages, and bytes left.
LEMMA AheadTyped ==
    ASSUME TypeOK
    PROVE  /\ Underway \in Seq(Byte(setting))
           /\ Ahead.messages \in Seq(Seq(Byte(setting))) /\ Ahead.rest \in Seq(Byte(setting))
           /\ Ahead = [messages |-> Ahead.messages, rest |-> Ahead.rest]
<1>1. setting \in Settings /\ Underway \in Seq(Byte(setting))
  BY DEF TypeOK, Underway
<1>2. Ahead \in Extraction(setting)
  BY <1>1, SettingFacts, ExtractByRounds DEF Ahead
<1> QED BY <1>1, <1>2 DEF Extraction

\* The type invariant is preserved by every step.
LEMMA TypeStep == TypeOK /\ [Next]_vars => TypeOK'
<1> SUFFICES ASSUME TypeOK, [Next]_vars PROVE TypeOK'
  OBVIOUS
<1> DEFINE B == Seq(Byte(setting))
<1>0. /\ setting \in Settings /\ writing \in B /\ wire \in B /\ buffer \in B
      /\ \A m \in Messages : BodyOf[m] \in B
  BY SettingFacts DEF TypeOK
<1>1. ASSUME NEW m \in Messages, Send(m) PROVE TypeOK'
  BY <1>1 DEF Send, TypeOK
<1>2. ASSUME NEW m \in Messages, TakeLock(m) PROVE TypeOK'
  <2>1. Frame(setting, BodyOf[m]) \in B
    BY <1>0, SettingFacts, FrameTyped
  <2> QED BY <1>2, <2>1 DEF TakeLock, TypeOK
<1>3. CASE Write
  BY <1>3 DEF Write, TypeOK
<1>4. CASE Connect
  BY <1>4, BoundAssumption DEF Connect, sendVars, TypeOK
<1>5. CASE Reset
  BY <1>5 DEF Reset, TypeOK
<1>6. CASE Listen
  <2>1. CASE ReadBytes
    BY <1>6, <2>1 DEF Listen, ReadBytes, sendVars, TypeOK
  <2>2. CASE ReadNothing
    BY <1>6, <2>2 DEF Listen, ReadNothing, sendVars, TypeOK
  <2>3. CASE NoticeReset
    BY <1>6, <2>3 DEF Listen, NoticeReset, KeepsBuffer, sendVars, TypeOK
  <2> QED BY <1>6, <2>1, <2>2, <2>3 DEF Listen
<1>7. CASE TakeMessages
  <2> DEFINE e == Extract(setting, buffer)
  <2>1. e.messages \in Seq(B) /\ e.rest \in B
    BY <1>0, SettingFacts, ExtractByRounds DEF Extraction
  <2> HIDE DEF e
  <2>2. received' = received \o e.messages /\ buffer' = e.rest
    BY <1>7 DEF TakeMessages, e
  <2> QED BY <1>7, <2>1, <2>2 DEF TakeMessages, sendVars, TypeOK
<1>8. CASE UNCHANGED vars
  BY <1>8 DEF vars, sendVars, TypeOK
<1> QED BY <1>1, <1>2, <1>3, <1>4, <1>5, <1>6, <1>7, <1>8 DEF Next, Receive

\* What the receiver will make of the bytes under way, step by step. A task that
\* takes the lock adds its message at the end.
LEMMA LockTaken ==
    ASSUME IInv, NEW m \in Messages, TakeLock(m), ~damaged'
    PROVE  Ahead'.messages = Append(Ahead.messages, BodyOf[m]) /\ Ahead'.rest = <<>>
<1> DEFINE frame == Frame(setting, BodyOf[m])
<1>1. /\ TypeOK /\ setting \in Settings /\ ~damaged /\ Fits(m) /\ writing = <<>>
         /\ stream = "open"
      /\ setting' = setting /\ wire' = wire /\ buffer' = buffer /\ writing' = frame
  BY DEF IInv, TypeOK, TakeLock
<1>2. Parsable(setting) /\ BodyOf[m] \in Seq(Byte(setting))
  BY <1>1, SettingFacts
<1>3. frame \in Seq(Byte(setting))
      /\ Extract(setting, frame) = [messages |-> <<BodyOf[m]>>, rest |-> <<>>]
  BY <1>1, <1>2, FrameRoundTrip DEF Fits
<1> HIDE DEF frame
<1>4. Underway' = Underway \o frame /\ Underway \in Seq(Byte(setting))
  BY <1>1, <1>3 DEF Underway, TypeOK
<1>5. Ahead.rest = <<>> /\ <<>> \o frame = frame
  BY <1>1, <1>3 DEF IInv
<1>6. Ahead' = [messages |-> Ahead.messages \o <<BodyOf[m]>>, rest |-> <<>>]
  <2>1. Extract(setting, Ahead.rest \o frame) = [messages |-> <<BodyOf[m]>>, rest |-> <<>>]
    BY <1>3, <1>5
  <2>2. Ahead' = Extract(setting, Underway \o frame)
    BY <1>1, <1>4 DEF Ahead
  <2> DEFINE later == Extract(setting, Ahead.rest \o frame)
  <2>3. Extract(setting, Underway \o frame) =
          [messages |-> Ahead.messages \o later.messages, rest |-> later.rest]
    BY <1>2, <1>3, <1>4, ExtractInTwo DEF Ahead
  <2>4. later.messages = <<BodyOf[m]>> /\ later.rest = <<>>
    BY <2>1
  <2> HIDE DEF later
  <2> QED BY <2>2, <2>3, <2>4
<1>7. Ahead.messages \o <<BodyOf[m]>> = Append(Ahead.messages, BodyOf[m])
  BY <1>1, <1>2, AheadTyped
<1> QED BY <1>6, <1>7

\* Bytes that move along the stream change nothing, wherever they are cut.
LEMMA BytesMoved ==
    ASSUME TypeOK, Write \/ (ReadBytes /\ UNCHANGED <<setting, writing>>)
    PROVE  Underway' = Underway /\ Ahead' = Ahead
<1> DEFINE S == Byte(setting)
<1>1. writing \in Seq(S) /\ wire \in Seq(S) /\ buffer \in Seq(S)
  BY DEF TypeOK
<1> HIDE DEF S
<1>2. CASE Write
  <2>1. PICK n \in 1..Len(writing) : /\ wire' = wire \o SubSeq(writing, 1, n)
                                     /\ writing' = SubSeq(writing, n + 1, Len(writing))
    BY <1>2 DEF Write
  <2> DEFINE c == SubSeq(writing, 1, n)
             d == SubSeq(writing, n + 1, Len(writing))
  <2>2. c \in Seq(S) /\ d \in Seq(S) /\ writing = c \o d
    BY <1>1, SplitAnywhere
  <2> HIDE DEF c, d
  <2>3. buffer \o (wire \o c) \o d = buffer \o wire \o (c \o d)
    <3> DEFINE a == buffer \o wire
    <3>1. buffer \o (wire \o c) = a \o c /\ a \in Seq(S) /\ c \in Seq(S) /\ d \in Seq(S)
      BY <1>1, <2>2
    <3> HIDE DEF a
    <3>2. a \o c \o d = a \o (c \o d)
      BY <3>1
    <3> QED BY <3>1, <3>2, Zenon DEF a
  <2>4. Underway' = Underway
    BY <1>2, <2>1, <2>2, <2>3 DEF Underway, Write, c, d
  <2> QED BY <1>2, <2>4 DEF Ahead, Write
<1>3. CASE ReadBytes /\ UNCHANGED <<setting, writing>>
  <2>0. PICK n \in 1..BufferSize : /\ n <= Len(wire) /\ buffer' = buffer \o SubSeq(wire, 1, n)
                                   /\ wire' = SubSeq(wire, n + 1, Len(wire))
    BY <1>3 DEF ReadBytes
  <2>1. n \in 0..Len(wire)
    <3>1. BufferSize \in Nat /\ Len(wire) \in Nat
      BY <1>1, SettingFacts DEF TypeOK
    <3> QED BY <2>0, <3>1
  <2> DEFINE c == SubSeq(wire, 1, n)
             d == SubSeq(wire, n + 1, Len(wire))
  <2>2. c \in Seq(S) /\ d \in Seq(S) /\ wire = c \o d
    BY <1>1, <2>1, SplitAnywhere
  <2> HIDE DEF c, d
  <2>3. (buffer \o c) \o d \o writing = buffer \o (c \o d) \o writing
    <3>1. c \in Seq(S) /\ d \in Seq(S)
      BY <2>2
    <3> QED BY <1>1, <3>1
  <2>4. Underway' = Underway
    BY <1>3, <2>0, <2>2, <2>3 DEF Underway, c, d
  <2> QED BY <1>3, <2>4 DEF Ahead
<1> QED BY <1>2, <1>3

\* A reset leaves the first of the messages under way.
LEMMA StreamCut ==
    ASSUME IInv, Reset
    PROVE  \E k \in 0..Len(Ahead.messages) : Ahead'.messages = SubSeq(Ahead.messages, 1, k)
<1> DEFINE S == Byte(setting)
<1>1. TypeOK /\ setting \in Settings /\ writing \in Seq(S) /\ wire \in Seq(S)
      /\ buffer \in Seq(S)
  BY DEF IInv, TypeOK
<1>2. PICK n \in 0..Len(wire) : wire' = SubSeq(wire, 1, n)
  BY DEF Reset
<1>3. writing' = <<>> /\ buffer' = buffer /\ setting' = setting
  BY DEF Reset
<1> DEFINE c == SubSeq(wire, 1, n)
           d == SubSeq(wire, n + 1, Len(wire))
           lost == d \o writing
           kept == buffer \o c
<1> HIDE DEF S
<1>4. c \in Seq(S) /\ d \in Seq(S) /\ wire = c \o d
  BY <1>1, SplitAnywhere
<1> HIDE DEF c, d
<1>5. kept \in Seq(S) /\ lost \in Seq(S) /\ Underway = kept \o lost /\ Underway' = kept
  <2>1. buffer \o (c \o d) \o writing = (buffer \o c) \o (d \o writing)
    <3>1. /\ kept \in Seq(S) /\ buffer \o (c \o d) = kept \o d
          /\ d \in Seq(S) /\ writing \in Seq(S)
      BY <1>1, <1>4
    <3> HIDE DEF kept
    <3>2. kept \o d \o writing = kept \o (d \o writing)
      BY <3>1
    <3> QED BY <3>1, <3>2, Zenon DEF kept
  <2>0. kept \in Seq(S) /\ lost \in Seq(S)
    BY <1>1, <1>4, ConcatProperties, Zenon
  <2>2. Underway' = (buffer \o c) \o <<>>
    BY <1>2, <1>3 DEF Underway, c
  <2>3. (buffer \o c) \o <<>> = buffer \o c
    BY <2>0, ConcatEmptySeq, Zenon
  <2> QED BY <1>4, <2>0, <2>1, <2>2, <2>3 DEF Underway
<1> HIDE DEF kept, lost
<1>6. Ahead' = Extract(setting, kept)
  BY <1>3, <1>5 DEF Ahead
<1> DEFINE e == Extract(setting, kept)
           later == Extract(setting, e.rest \o lost)
<1>7. Ahead.messages = e.messages \o later.messages
  <2>0. /\ Parsable(setting) /\ kept \in Seq(Byte(setting)) /\ lost \in Seq(Byte(setting))
        /\ Ahead = Extract(setting, kept \o lost)
    BY <1>1, <1>5, SettingFacts DEF Ahead, S
  <2>1. Ahead = [messages |-> e.messages \o later.messages, rest |-> later.rest]
    BY <2>0, ExtractInTwo
  <2> HIDE DEF e, later
  <2> QED BY <2>1
<1>8. e.messages \in Seq(Seq(S)) /\ later.messages \in Seq(Seq(S))
  <2>1. e \in Extraction(setting)
    BY <1>1, <1>5, SettingFacts, ExtractByRounds DEF S
  <2>2. e.rest \o lost \in Seq(S)
    BY <1>5, <2>1 DEF Extraction, S
  <2>3. later \in Extraction(setting)
    BY <1>1, <2>2, SettingFacts, ExtractByRounds DEF S
  <2> QED BY <2>1, <2>3 DEF Extraction, S
<1> DEFINE p == e.messages
           q == later.messages
<1> HIDE DEF e, later
<1>9. p \in Seq(Seq(S)) /\ q \in Seq(Seq(S)) /\ Ahead'.messages = p /\ Ahead.messages = p \o q
  BY <1>6, <1>7, <1>8 DEF e
<1> HIDE DEF p, q
<1>10. Len(p) \in 0..Len(p \o q) /\ p = SubSeq(p \o q, 1, Len(p))
  BY <1>9
<1> QED BY <1>9, <1>10

\* A reset that is noticed leaves the messages under way, or none.
LEMMA ResetNoticed ==
    ASSUME IInv, NoticeReset, UNCHANGED <<setting, writing>>, ~damaged'
    PROVE  /\ Ahead'.rest = <<>>
           /\ (Ahead'.messages = <<>> \/ (~damaged /\ Ahead' = Ahead))
<1>1. setting \in Settings /\ setting' = setting /\ buffer \in Seq(Byte(setting))
  BY DEF IInv, TypeOK
<1>2. wire = <<>> /\ wire' = <<>> /\ writing = <<>> /\ writing' = <<>>
  BY DEF IInv, NoticeReset
<1>3. CASE KeepsBuffer
  <2>1. ~damaged /\ Extract(setting, buffer).rest = <<>> /\ buffer' = buffer
    BY <1>3 DEF NoticeReset
  <2>2. Underway = buffer /\ Underway' = buffer
    BY <1>1, <1>2, <2>1 DEF Underway
  <2> QED BY <1>1, <2>1, <2>2 DEF Ahead
<1>4. CASE ~KeepsBuffer
  <2>1. Underway' = <<>>
    BY <1>2, <1>4 DEF NoticeReset, Underway
  <2>2. Ahead' = Extract(setting, <<>>)
    BY <1>1, <2>1 DEF Ahead
  <2>3. Ahead'.messages = <<>> /\ Ahead'.rest = <<>>
    BY <1>1, <2>2, SettingFacts, NothingExtracted
  <2> QED BY <2>3
<1> QED BY <1>3, <1>4

\* The messages taken out of the buffer are the first ones under way.
LEMMA Taken ==
    ASSUME TypeOK, TakeMessages
    PROVE  LET taken == Extract(setting, buffer).messages IN
           /\ taken \in Seq(Seq(Byte(setting))) /\ received' = received \o taken
           /\ Ahead'.messages \in Seq(Seq(Byte(setting)))
           /\ Ahead.messages = taken \o Ahead'.messages /\ Ahead.rest = Ahead'.rest
<1> DEFINE S == Byte(setting)
           e == Extract(setting, buffer)
<1>1. setting \in Settings /\ writing \in Seq(S) /\ wire \in Seq(S) /\ buffer \in Seq(S)
  BY DEF TypeOK
<1>2. /\ received' = received \o e.messages /\ buffer' = e.rest
      /\ wire' = wire /\ writing' = writing /\ setting' = setting
  BY DEF TakeMessages, sendVars
<1>3. e.messages \in Seq(Seq(S)) /\ e.rest \in Seq(S)
  BY <1>1, SettingFacts, ExtractByRounds DEF Extraction
<1> DEFINE rest == wire \o writing
<1>4. rest \in Seq(S) /\ Underway = buffer \o rest /\ Underway' = e.rest \o rest
  <2> DEFINE r == e.rest
  <2> HIDE DEF S, r
  <2>1. r \in Seq(S)
    BY <1>3 DEF r
  <2>2. r \o wire \o writing = r \o (wire \o writing)
        /\ buffer \o wire \o writing = buffer \o (wire \o writing)
    BY <1>1, <2>1
  <2>3. Underway' = r \o wire \o writing
    BY <1>2 DEF Underway, r
  <2> QED BY <1>1, <2>2, <2>3 DEF Underway, r
<1> HIDE DEF rest
<1>5. Ahead' = Extract(setting, e.rest \o rest)
  BY <1>2, <1>4 DEF Ahead
<1>6. Ahead = [messages |-> e.messages \o Ahead'.messages, rest |-> Ahead'.rest]
  <2> DEFINE later == Extract(setting, e.rest \o rest)
  <2>0. /\ Parsable(setting) /\ buffer \in Seq(Byte(setting))
        /\ rest \in Seq(Byte(setting))
    BY <1>1, <1>4, SettingFacts
  <2>1. Extract(setting, buffer \o rest) =
          [messages |-> e.messages \o later.messages, rest |-> later.rest]
    BY <2>0, ExtractInTwo
  <2> HIDE DEF later
  <2> QED BY <1>4, <1>5, <2>1 DEF Ahead, later
<1>8. Ahead'.messages \in Seq(Seq(S))
  <2>1. e.rest \o rest \in Seq(S)
    BY <1>3, <1>4
  <2> QED BY <1>1, <1>5, <2>1, SettingFacts, ExtractByRounds DEF Extraction
<1> HIDE DEF e
<1>7. Ahead.messages = e.messages \o Ahead'.messages /\ Ahead.rest = Ahead'.rest
  BY <1>6
<1> QED BY <1>2, <1>3, <1>7, <1>8 DEF e

-----------------------------------------------------------------------------
\* The invariant holds before the first stream.
LEMMA Initial == Init => IInv
<1> SUFFICES ASSUME Init PROVE IInv
  OBVIOUS
<1>1. TypeOK
  <2>1. 0 \in 0..MaxStreams
    BY BoundAssumption
  <2>2. <<>> \in Seq(Byte(setting)) /\ <<>> \in Seq(Seq(Byte(setting)))
    OBVIOUS
  <2> QED BY <2>1, <2>2 DEF Init, TypeOK
<1>2. Underway = <<>> /\ setting \in Settings
  BY DEF Init, Underway
<1>3. Ahead.messages = <<>> /\ Ahead.rest = <<>>
  BY <1>2, SettingFacts, NothingExtracted DEF Ahead
<1> QED BY <1>1, <1>3 DEF Init, IInv

\* The invariant is preserved by every step.
LEMMA Preserved == IInv /\ [Next]_vars => IInv'
<1> SUFFICES ASSUME IInv, [Next]_vars PROVE IInv'
  OBVIOUS
<1> USE DEF IInv
<1>0. TypeOK /\ TypeOK'
  BY TypeStep
<1> DEFINE Promise == ~damaged => /\ Ahead.messages \in Seq(Bodies(sent))
                                  /\ stream # "reset" => Ahead.rest = <<>>
<1>1. ASSUME NEW m \in Messages, Send(m) PROVE IInv'
  <2>1. Ahead' = Ahead /\ Bodies(sent) \subseteq Bodies(sent)'
    BY <1>1 DEF Send, Ahead, Underway, Bodies, BodyOf
  <2>2. Promise'
    BY <1>1, <2>1, SeqMonotonic DEF Send
  <2> QED BY <1>0, <1>1, <2>2 DEF Send
<1>2. ASSUME NEW m \in Messages, TakeLock(m) PROVE IInv'
  <2>1. Bodies(sent)' = Bodies(sent) /\ BodyOf[m] \in Bodies(sent)
    BY <1>0, <1>2 DEF TakeLock, Bodies, BodyOf, TypeOK
  <2>2. ASSUME ~damaged' PROVE Ahead'.messages \in Seq(Bodies(sent)) /\ Ahead'.rest = <<>>
    <3>1. Ahead'.messages = Append(Ahead.messages, BodyOf[m]) /\ Ahead'.rest = <<>>
      BY <1>2, <2>2, LockTaken
    <3>2. Ahead.messages \in Seq(Bodies(sent))
      BY <1>2, <2>2 DEF TakeLock
    <3> QED BY <2>1, <3>1, <3>2
  <2> QED BY <1>0, <1>2, <2>1, <2>2 DEF TakeLock
<1>3. CASE Write
  <2>1. Ahead' = Ahead
    BY <1>0, <1>3, BytesMoved
  <2>3. Bodies(sent)' = Bodies(sent)
    BY <1>3 DEF Write, Bodies, BodyOf
  <2>2. writing # <<>>
    BY <1>3 DEF Write
  <2> QED BY <1>0, <1>3, <2>1, <2>2, <2>3 DEF Write
<1>4. CASE Connect
  <2>1. Ahead' = Ahead /\ Bodies(sent)' = Bodies(sent)
    BY <1>4 DEF Connect, sendVars, Ahead, Underway, Bodies, BodyOf
  <2> QED BY <1>0, <1>4, <2>1 DEF Connect, sendVars
<1>5. CASE Reset
  <2>1. Bodies(sent)' = Bodies(sent)
    BY <1>5 DEF Reset, Bodies, BodyOf
  <2>2. ASSUME ~damaged' PROVE Ahead'.messages \in Seq(Bodies(sent))
    <3>1. PICK k \in 0..Len(Ahead.messages) : Ahead'.messages = SubSeq(Ahead.messages, 1, k)
      BY <1>5, StreamCut
    <3>2. Ahead.messages \in Seq(Bodies(sent))
      BY <1>5, <2>2 DEF Reset
    <3> QED BY <3>1, <3>2
  <2> QED BY <1>0, <1>5, <2>1, <2>2 DEF Reset
<1>6. CASE Listen
  <2>1. Bodies(sent)' = Bodies(sent) /\ outbox' = outbox /\ writing' = writing
        /\ setting' = setting
    BY <1>6 DEF Listen, sendVars, Bodies, BodyOf
  <2>2. CASE ReadBytes
    <3>1. Ahead' = Ahead
      BY <1>0, <2>1, <2>2, BytesMoved
    <3> QED BY <1>0, <2>1, <2>2, <3>1 DEF ReadBytes
  <2>3. CASE ReadNothing
    <3>1. Ahead' = Ahead
      BY <2>1, <2>3 DEF ReadNothing, Ahead, Underway
    <3> QED BY <1>0, <2>1, <2>3, <3>1 DEF ReadNothing
  <2>4. CASE NoticeReset
    <3>1. ASSUME ~damaged'
          PROVE  Ahead'.rest = <<>> /\ Ahead'.messages \in Seq(Bodies(sent))
      <4>1. Ahead'.rest = <<>> /\ (Ahead'.messages = <<>> \/ (~damaged /\ Ahead' = Ahead))
        BY <2>1, <2>4, <3>1, ResetNoticed
      <4>2. CASE Ahead'.messages = <<>>
        BY <4>1, <4>2
      <4>3. CASE ~damaged /\ Ahead' = Ahead
        BY <4>1, <4>3
      <4> QED BY <4>1, <4>2, <4>3, Zenon
    <3> QED BY <1>0, <2>1, <2>4, <3>1 DEF NoticeReset
  <2> QED BY <1>6, <2>2, <2>3, <2>4 DEF Listen
<1>7. CASE TakeMessages
  <2>1. Bodies(sent)' = Bodies(sent)
    BY <1>7 DEF TakeMessages, sendVars, Bodies, BodyOf
  <2>2. ASSUME ~damaged PROVE Ahead'.messages \in Seq(Bodies(sent))
    <3>1. Ahead.messages \in Seq(Bodies(sent))
      BY <2>2
    <3>2. PICK taken : /\ taken \in Seq(Seq(Byte(setting)))
                       /\ Ahead'.messages \in Seq(Seq(Byte(setting)))
                       /\ Ahead.messages = taken \o Ahead'.messages
      BY <1>0, <1>7, Taken
    <3> QED BY <3>1, <3>2, LaterElements
  <2>3. Ahead'.rest = Ahead.rest
    BY <1>0, <1>7, Taken
  <2> QED BY <1>0, <1>7, <2>1, <2>2, <2>3 DEF TakeMessages, sendVars
<1>8. CASE UNCHANGED vars
  <2>1. Ahead' = Ahead /\ Bodies(sent)' = Bodies(sent)
    BY <1>8 DEF vars, sendVars, Ahead, Underway, Bodies, BodyOf
  <2> QED BY <1>0, <1>8, <2>1 DEF vars, sendVars
<1> QED BY <1>1, <1>2, <1>3, <1>4, <1>5, <1>6, <1>7, <1>8 DEF Next, Receive

\* The invariant holds always.
LEMMA Invariance == Spec => []IInv
BY Initial, Preserved, PTL DEF Spec

\* The receiver is always in step with the sender: on an open stream, the bytes in
\* the buffer, on the wire and still to be written are whole messages that were
\* sent, unless a length did not fit its header or a buffer outlived the stream it
\* was cut off from.
THEOREM FramingInvAlways == Spec => []FramingInv
<1>1. IInv => FramingInv
  BY DEF IInv, FramingInv, InStep, Ahead, Underway
<1> QED BY <1>1, Invariance, PTL

\* The receiver is a server, and no message is longer than its header can say.
AllFit == \A st \in Settings : /\ st.keepsBuffer = FALSE
                              /\ \A m \in Messages : Len(st.bodyOf[m]) <= MaxLength(st)

\* The two exceptions are the only ones: a server that is sent no message too long
\* for its header will make of the bytes under way whole messages that were sent,
\* on every stream to its end.
THEOREM WholeWhereAllFit ==
    ASSUME AllFit
    PROVE  Spec => [](stream = "open" => /\ Ahead.messages \in Seq(Bodies(sent))
                                         /\ Ahead.rest = <<>>)
<1>1. Init => ~damaged
  BY DEF Init
<1>2. IInv /\ ~damaged /\ [Next]_vars => ~damaged'
  <2> SUFFICES ASSUME IInv, ~damaged, [Next]_vars PROVE ~damaged'
    OBVIOUS
  <2>1. setting \in Settings /\ damaged = FALSE
    BY DEF IInv, TypeOK
  <2>2. KeepsBuffer = FALSE /\ \A m \in Messages : Fits(m)
    BY <2>1 DEF AllFit, KeepsBuffer, Fits, BodyOf
  <2>3. CASE UNCHANGED vars
    BY <2>1, <2>3 DEF vars
  <2>4. ASSUME NEW m \in Messages, Send(m) \/ TakeLock(m) PROVE ~damaged'
    BY <2>1, <2>2, <2>4 DEF Send, TakeLock
  <2>5. CASE Write \/ Connect \/ Reset
    BY <2>1, <2>5 DEF Write, Connect, Reset
  <2>6. CASE Receive
    BY <2>1, <2>2, <2>6 DEF Receive, Listen, ReadBytes, ReadNothing, NoticeReset, TakeMessages
  <2> QED BY <2>3, <2>4, <2>5, <2>6 DEF Next
<1>3. Spec => []~damaged
  BY <1>1, <1>2, Invariance, PTL DEF Spec
<1>4. IInv /\ ~damaged => (stream = "open" => /\ Ahead.messages \in Seq(Bodies(sent))
                                              /\ Ahead.rest = <<>>)
  BY DEF IInv
<1> QED BY <1>3, <1>4, Invariance, PTL

-----------------------------------------------------------------------------
(* The channel. *)

\* A step of the channel, and the messages of all settings.
ChannelStep == [Channel!Next]_(Channel!vars)
On == UNION {{st.bodyOf[m] : m \in Messages} : st \in Settings}

\* A step between two moments at which the promise holds is one of the channel.
LEMMA PromisedStep ==
    ASSUME IInv, [Next]_vars, ~damaged, ~damaged' PROVE ChannelStep
<1> DEFINE Outbox == Bodies(outbox)
<1>0. /\ TypeOK /\ setting \in Settings /\ setting' = setting /\ outbox \subseteq Messages
      /\ damaged' = FALSE /\ damaged = FALSE
  BY TypeStep DEF IInv, TypeOK, Next, Send, TakeLock, Write, Connect, Reset, Receive, Listen,
     TakeMessages, vars
<1>1. ASSUME Outbox' = Outbox, Ahead'.messages = Ahead.messages, received' = received
      PROVE ChannelStep
  BY <1>0, <1>1 DEF ChannelStep, Channel!vars, Ahead, Underway
<1>2. ASSUME NEW m \in Messages, Send(m) PROVE ChannelStep
  <2>1. Ahead' = Ahead /\ received' = received
    BY <1>2 DEF Send, Ahead, Underway
  <2>2. CASE stream = "open"
    <3>1. Outbox' = Outbox \cup {BodyOf[m]} /\ BodyOf[m] \in On
      BY <1>0, <1>2, <2>2 DEF Send, Bodies, BodyOf, On
    <3>2. Channel!Send(BodyOf[m])
      BY <2>1, <3>1 DEF Channel!Send, Ahead, Underway
    <3> QED BY <1>0, <3>1, <3>2 DEF ChannelStep, Channel!Next, Channel!Kept, On
  <2>3. CASE stream # "open"
    <3>1. Outbox' = Outbox
      BY <1>0, <1>2, <2>3 DEF Send, Bodies, BodyOf
    <3> QED BY <1>0, <1>1, <2>1, <3>1
  <2> QED BY <2>2, <2>3
<1>3. ASSUME NEW m \in Messages, TakeLock(m) PROVE ChannelStep
  <2>1. Ahead'.messages = Append(Ahead.messages, BodyOf[m]) /\ received' = received
    BY <1>3, LockTaken DEF TakeLock
  <2>2. m \in outbox /\ outbox' = outbox \ {m}
    BY <1>3 DEF TakeLock
  <2>3. Outbox' = Outbox \ {BodyOf[m]} /\ BodyOf[m] \in Outbox /\ BodyOf[m] \in On
    BY <1>0, <2>2, SettingFacts DEF Bodies, BodyOf, On
  <2>4. Channel!Commit(BodyOf[m])
    BY <2>1, <2>3 DEF Channel!Commit, Ahead, Underway
  <2> QED BY <1>0, <2>3, <2>4 DEF ChannelStep, Channel!Next, Channel!Kept, On
<1>4. CASE Write
  <2>1. Ahead' = Ahead
    BY <1>0, <1>4, BytesMoved
  <2>2. Outbox' = Outbox /\ received' = received
    BY <1>0, <1>4 DEF Write, Bodies, BodyOf
  <2> QED BY <1>0, <1>1, <2>1, <2>2
<1>5. CASE Connect
  <2>1. Ahead' = Ahead /\ Outbox' = Outbox /\ received' = received
    BY <1>0, <1>5 DEF Connect, sendVars, Bodies, BodyOf, Ahead, Underway
  <2> QED BY <1>0, <1>1, <2>1
<1>6. CASE Reset
  <2>1. Outbox' = {} /\ received' = received
    BY <1>6 DEF Reset, Bodies
  <2>2. \E k \in 0..Len(Ahead.messages) : Ahead'.messages = SubSeq(Ahead.messages, 1, k)
    BY <1>6, StreamCut
  <2>3. Channel!Cut
    BY <2>1, <2>2 DEF Channel!Cut, Ahead, Underway
  <2> QED BY <1>0, <2>3 DEF ChannelStep, Channel!Next, Channel!Kept
<1>7. CASE Listen
  <2>1. outbox' = outbox /\ writing' = writing /\ received' = received /\ Outbox' = Outbox
    BY <1>0, <1>7 DEF Listen, sendVars, Bodies, BodyOf
  <2>2. CASE ReadBytes
    <3>1. Ahead' = Ahead
      BY <1>0, <2>1, <2>2, BytesMoved
    <3> QED BY <1>1, <2>1, <3>1
  <2>3. CASE ReadNothing
    <3>1. Ahead' = Ahead
      BY <1>0, <2>1, <2>3 DEF ReadNothing, Ahead, Underway
    <3> QED BY <1>0, <1>1, <2>1, <3>1
  <2>4. CASE NoticeReset
    <3>1. Ahead'.messages = <<>> \/ Ahead'.messages = Ahead.messages
      <4>1. Ahead'.messages = <<>> \/ (~damaged /\ Ahead' = Ahead)
        BY <1>0, <2>1, <2>4, ResetNoticed
      <4> QED BY <4>1
    <3>2. Outbox' = {}
      BY <2>1, <2>4 DEF IInv, NoticeReset, Bodies
    <3>3. \E k \in 0..Len(Ahead.messages) : Ahead'.messages = SubSeq(Ahead.messages, 1, k)
      <4> DEFINE q == Ahead.messages
      <4>1. q \in Seq(Seq(Byte(setting)))
        BY <1>0, AheadTyped
      <4> HIDE DEF q
      <4>2. 0 \in 0..Len(q) /\ Len(q) \in 0..Len(q) /\ SubSeq(q, 1, 0) = <<>>
            /\ SubSeq(q, 1, Len(q)) = q
        BY <4>1
      <4> QED BY <3>1, <4>2 DEF q
    <3>4. Channel!Cut
      BY <2>1, <3>2, <3>3 DEF Channel!Cut, Ahead, Underway
    <3> QED BY <1>0, <3>4 DEF ChannelStep, Channel!Next, Channel!Kept
  <2> QED BY <1>7, <2>2, <2>3, <2>4 DEF Listen
<1>8. CASE TakeMessages
  <2>1. Outbox' = Outbox
    BY <1>0, <1>8 DEF TakeMessages, sendVars, Bodies, BodyOf
  <2> DEFINE T == Seq(Byte(setting))
             taken == Extract(setting, buffer).messages
             q == Ahead'.messages
  <2>2. /\ taken \in Seq(T) /\ q \in Seq(T) /\ received \in Seq(T)
        /\ received' = received \o taken /\ Ahead.messages = taken \o q
    BY <1>0, <1>8, Taken DEF TypeOK
  <2> HIDE DEF T, taken, q
  <2>3. CASE taken = <<>>
    <3>1. received' = received /\ Ahead.messages = Ahead'.messages
      BY <2>2, <2>3 DEF q
    <3> QED BY <1>0, <1>1, <2>1, <3>1
  <2>4. CASE taken # <<>>
    <3>1. Len(taken) \in 1..Len(taken \o q)
      BY <2>2, <2>4
    <3>2. SubSeq(taken \o q, 1, Len(taken)) = taken
          /\ SubSeq(taken \o q, Len(taken) + 1, Len(taken \o q)) = q
      BY <2>2
    <3>3. \E k \in 1..Len(Ahead.messages) :
            /\ received' = received \o SubSeq(Ahead.messages, 1, k)
            /\ Ahead'.messages = SubSeq(Ahead.messages, k + 1, Len(Ahead.messages))
      BY <2>2, <3>1, <3>2 DEF q
    <3>4. Channel!Deliver
      BY <2>1, <3>3 DEF Channel!Deliver, Ahead, Underway
    <3> QED BY <1>0, <3>4 DEF ChannelStep, Channel!Next, Channel!Kept
  <2> QED BY <2>3, <2>4
<1>9. CASE UNCHANGED vars
  <2>1. Ahead' = Ahead /\ Outbox' = Outbox /\ received' = received
    BY <1>9 DEF vars, sendVars, Bodies, BodyOf, Ahead, Underway
  <2> QED BY <1>0, <1>1, <2>1
<1> QED BY <1>2, <1>3, <1>4, <1>5, <1>6, <1>7, <1>8, <1>9 DEF Next, Receive

\* The framed stream implements the message channel, step by step: every step
\* hands a message to the stream, delivers the first ones, loses the last ones with
\* the stream, or changes nothing the channel knows. The fairness of the channel is
\* left to the model checker.
THEOREM FramingIsAChannel == Spec => Channel!Init /\ [][Channel!Next]_(Channel!vars)
<1>1. Init => Channel!Init
  <2> SUFFICES ASSUME Init PROVE Channel!Init
    OBVIOUS
  <2>1. Underway = <<>> /\ setting \in Settings
    BY DEF Init, Underway
  <2>2. Ahead.messages = <<>>
    BY <2>1, SettingFacts, NothingExtracted DEF Ahead
  <2> QED BY <2>2 DEF Init, Channel!Init, Bodies, Ahead, Underway
<1>2. IInv /\ IInv' /\ [Next]_vars => ChannelStep
  <2> SUFFICES ASSUME IInv, IInv', [Next]_vars PROVE ChannelStep
    OBVIOUS
  <2>1. CASE damaged
    BY <2>1 DEF ChannelStep, Channel!Next
  <2>2. CASE damaged'
    <3>1. damaged' = TRUE
      BY <2>2 DEF IInv, TypeOK
    <3> QED BY <3>1 DEF ChannelStep, Channel!Next
  <2>3. CASE ~damaged /\ ~damaged'
    BY <2>3, PromisedStep
  <2> QED BY <2>1, <2>2, <2>3
<1>3. Spec => Channel!Init /\ [][ChannelStep]_(Channel!vars)
  BY <1>1, <1>2, Invariance, PTL DEF Spec
<1> QED BY <1>3, PTL DEF ChannelStep
=============================================================================
