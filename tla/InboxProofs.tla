---------------------------- MODULE InboxProofs ----------------------------
(***************************************************************************)
(* What is proved of the two halves of an inbox, for any number of items,  *)
(* callers, children and waits.  First the inbox port: a wait misses no    *)
(* item, and the pages of a listing are in order and whole.  Then the      *)
(* arrivals: no wake-up is lost, a wait is told what is true of its own    *)
(* time, and every end that was stored and rung for reaches the book.      *)
(***************************************************************************)
EXTENDS InboxPort, Arrivals, WellFoundedInduction, TLAPS

\* A list that ascends.
Ascends(s) == \A i, j \in DOMAIN s : i < j => s[i] < s[j]

\* What the registration of the agent says of the calls that are under way.
Registered ==
    /\ booked /\ ~restored => registration # "none"
    /\ restored => booked
    /\ \A v \in Waiters :
         /\ watch[v].at # "none" => booked
         /\ watch[v].waitsForIt => ~restored /\ registration # "none"
         /\ watch[v].at \in {"look", "asleep"} /\ RegistrationQueued => watch[v].waitsForIt
         /\ watch[v].at \in {"read", "answered"} => ~RegistrationQueued
    /\ \A l \in Listers : list[l].at \in {"read", "convert", "page"} => booked /\ ~RegistrationQueued

\* A wait that sleeps or is about to has seen what is not to be rung for, but for what
\* the feed could not read since.
Seen ==
    \A v \in Waiters :
        watch[v].wakes = {} /\ up =>
            /\ watch[v].at = "asleep" /\ ~watch[v].waitsForIt => ToSet(unread) \ marked \subseteq ring \cup deaf[v]
            /\ watch[v].at = "answered" => ToSet(unread) \ marked \subseteq ring \cup deaf[v] \cup ToSet(watch[v].found)

\* A list that Jobs gave: it ascends, and below its last item it lacks only marked ones.
Sound(s, upto, gone) ==
    /\ Ascends(s)
    /\ \A j \in ToSet(s) : j <= upto /\ \A i \in Items : i < j /\ i \notin ToSet(s) => i \in gone

\* What Jobs keeps unread, and what the listings took of it.
Lists ==
    /\ Ascends(unread) /\ \A j \in ToSet(unread) : j <= stored
    /\ \A i \in Items : i <= stored /\ i \notin ToSet(unread) => i \in marked
    /\ \A i \in Items : written[<<"marker", i>>] > 0 => i \in marked
    /\ Sound(snapshot, stored, marked) /\ \A l \in Listers : Sound(list[l].fresh, stored, marked)

\* What a listing was given: all that was due up to its cursor, in order.
Given(r, upto, gone) ==
    /\ Ascends(r.given) /\ \A x \in ToSet(r.given) : x <= r.after
    /\ \A i \in r.due \ gone : i <= r.after \/ (r.at = "end" /\ ~r.behind) => i \in ToSet(r.given)
    /\ \A i \in r.due : i <= upto
    /\ r.out \subseteq gone
    /\ \A x \in r.out : x \notin ToSet(r.given) /\ x \notin ToSet(r.rest)
    /\ r.at = "idle" => r.after = 0 /\ r.given = <<>> /\ r.due = {} /\ r.rest = <<>>
    /\ r.at = "page" => r.after # 0

\* What its next page brings: what is due past the cursor, as far as the page goes.
Paged(r, gone) ==
    r.at = "convert" =>
        /\ Ascends(r.rest) /\ \A x \in ToSet(r.rest) : r.after < x
        /\ r.more => r.rest # <<>> /\ (r.fresh = <<>> => r.after # 0)
        /\ \A i \in r.due \ gone :
             (\E x \in ToSet(r.rest) : i <= x) \/ (~r.more /\ ~r.behind)
                => i \in ToSet(r.given) \/ i \in ToSet(r.rest)

\* What the next pages are cut from has all that is due, unless another listing is behind.
Newer ==
    \A l \in Listers : ~list[l].behind /\ list[l].at \in {"read", "convert", "page"} =>
        /\ \A k \in Listers : list[k].at = "convert" /\ list[k].fresh # <<>> =>
             list[l].due \ marked \subseteq ToSet(list[k].fresh)
        /\ list[l].after # 0 =>
             snapshot = <<>> \/ list[l].due \ marked \subseteq ToSet(snapshot)

\* Both for every listing.
Pages == \A l \in Listers : Given(list[l], stored, marked) /\ Paged(list[l], marked)

\* The inductive invariant of the inbox port.
PortInv == TypeOK /\ Registered /\ Seen /\ Lists /\ Pages /\ Newer
-----------------------------------------------------------------------------
(* Joined pieces                                                           *)

\* A set of numbers that is not empty has a least one.
LEMMA Least == ASSUME NEW T, T \subseteq Nat, T # {} PROVE \E x \in T : \A y \in T : x <= y
<1> DEFINE R == {ss \in Nat \X Nat : ss[1] < ss[2]}
<1>1. OpToRel(<, Nat) = R
  BY DEF OpToRel
<1>2. IsWellFoundedOn(R, Nat)
  BY <1>1, NatLessThanWellFounded, Zenon
<1>3. PICK x \in T : \A y \in T : ~ (<<y, x>> \in R)
  <2> HIDE DEF R
  <2> QED BY <1>2, WFMin
<1>4. ASSUME NEW y \in T PROVE x <= y
  <2>1. x \in Nat /\ y \in Nat
    OBVIOUS
  <2>2. CASE y < x
    <3>1. <<y, x>> \in R
      BY <2>1, <2>2
    <3> QED BY <3>1, <1>3
  <2> QED BY <2>1, <2>2
<1> QED BY <1>4

\* A set of numbers that has 0 and with each number the next has them all.
LEMMA Numbers == ASSUME NEW T, 0 \in T, \A n \in Nat : n \in T => n + 1 \in T
                 PROVE  Nat \subseteq T
<1> SUFFICES ASSUME NEW k \in Nat \ T PROVE FALSE
  OBVIOUS
<1>1. PICK x \in Nat \ T : \A y \in Nat \ T : x <= y
  BY Least
<1>2. x - 1 \in Nat /\ x - 1 \in T
  BY <1>1
<1> QED BY <1>1, <1>2

\* FlattenSeq joins the pieces one after the other.
LEMMA Flattened ==
  ASSUME NEW S, NEW p \in Seq(Seq(S))
  PROVE  \E f \in [0..Len(p) -> Seq(S)] :
           /\ f[0] = <<>>
           /\ \A n \in 1..Len(p) : f[n] = f[n - 1] \o p[n]
           /\ FlattenSeq(p) = f[Len(p)]
<1> DEFINE L == Len(p)
           Joins(f, m) == \A i \in 1..m : f[i] = IF i = 1 THEN p[i] ELSE f[i - 1] \o p[i]
           Has(m) == \E f \in [1..m -> Seq(S)] : Joins(f, m)
<1>0. L \in Nat /\ \A n \in 1..L : p[n] \in Seq(S)
  OBVIOUS
<1>1. CASE L = 0
  <2> DEFINE f == [n \in 0..Len(p) |-> <<>>]
  <2>1. f \in [0..Len(p) -> Seq(S)] /\ f[0] = <<>> /\ f[Len(p)] = <<>>
    BY <1>1
  <2>2. FlattenSeq(p) = <<>>
    BY <1>1 DEF FlattenSeq
  <2>3. \A n \in 1..Len(p) : f[n] = f[n - 1] \o p[n]
    BY <1>1
  <2> QED BY <2>1, <2>2, <2>3
<1>2. CASE L # 0
  <2>1. Has(1)
    <3> DEFINE f == [i \in 1..1 |-> p[1]]
    <3>1. f \in [1..1 -> Seq(S)]
      BY <1>0, <1>2
    <3>2. Joins(f, 1)
      OBVIOUS
    <3> QED BY <3>1, <3>2
  <2>2. ASSUME NEW n \in 1..L, n + 1 \in 1..L, Has(n) PROVE Has(n + 1)
    <3>1. PICK g \in [1..n -> Seq(S)] : Joins(g, n)
      BY <2>2
    <3> DEFINE f == [i \in 1..(n + 1) |-> IF i = n + 1 THEN g[n] \o p[n + 1] ELSE g[i]]
    <3>a. g[n] \in Seq(S) /\ p[n + 1] \in Seq(S) /\ g[n] \o p[n + 1] \in Seq(S)
      BY <2>2, <1>0
    <3>2. f \in [1..(n + 1) -> Seq(S)]
      <4>1. ASSUME NEW i \in 1..(n + 1) PROVE f[i] \in Seq(S)
        <5>1. CASE i = n + 1
          BY <3>a, <5>1
        <5>2. CASE i # n + 1
          BY <5>2
        <5> QED BY <5>1, <5>2
      <4> QED BY <4>1
    <3>3. ASSUME NEW i \in 1..(n + 1) PROVE f[i] = IF i = 1 THEN p[i] ELSE f[i - 1] \o p[i]
      <4>1. CASE i = n + 1
        <5>1. f[n + 1] = g[n] \o p[n + 1] /\ f[n] = g[n] /\ n + 1 # 1 /\ i - 1 = n
          BY <4>1
        <5> QED BY <4>1, <5>1
      <4>2. CASE i # n + 1
        <5>1. i \in 1..n /\ f[i] = g[i]
          BY <4>2
        <5>2. g[i] = IF i = 1 THEN p[i] ELSE g[i - 1] \o p[i]
          BY <5>1, <3>1
        <5>3. i # 1 => f[i - 1] = g[i - 1]
          BY <5>1
        <5> QED BY <5>1, <5>2, <5>3
      <4> QED BY <4>1, <4>2
    <3>4. Joins(f, n + 1)
      BY <3>3
    <3> QED BY <3>2, <3>4
  <2>3. Has(L)
    <3> DEFINE T == {n \in Nat : n \in 1..L => Has(n)}
    <3> HIDE DEF Has
    <3>1. 0 \in T
      OBVIOUS
    <3>2. ASSUME NEW n \in Nat, n \in T PROVE n + 1 \in T
      <4>1. CASE n = 0
        BY <4>1, <2>1
      <4>2. CASE n # 0
        <5> SUFFICES ASSUME n + 1 \in 1..L PROVE Has(n + 1)
          OBVIOUS
        <5>1. n \in 1..L
          BY <1>0, <4>2
        <5> QED BY <5>1, <3>2, <2>2
      <4> QED BY <4>1, <4>2
    <3>3. L \in T
      <4> HIDE DEF T
      <4> QED BY <3>1, <3>2, Numbers, <1>0
    <3> QED BY <3>3, <1>0, <1>2
  <2> DEFINE Eq(f) == f = [i \in 1..L |-> IF i = 1 THEN p[i] ELSE f[i - 1] \o p[i]]
             g == CHOOSE f : Eq(f)
  <2>4. \E f : Eq(f)
    <3>1. PICK f \in [1..L -> Seq(S)] : Joins(f, L)
      BY <2>3
    <3>2. Eq(f)
      BY <3>1
    <3> QED BY <3>2
  <2>5. Eq(g)
    <3> HIDE DEF Eq
    <3> QED BY <2>4
  <2>6. FlattenSeq(p) = g[L]
    BY <1>2 DEF FlattenSeq
  <2>7. \A n \in 1..L : g[n] = IF n = 1 THEN p[n] ELSE g[n - 1] \o p[n]
    <3> HIDE DEF g
    <3> QED BY <2>5
  <2> HIDE DEF g
  <2>8. \A n \in 1..L : g[n] \in Seq(S)
    <3> DEFINE U == {n \in Nat : n \in 1..L => g[n] \in Seq(S)}
    <3>1. 0 \in U
      OBVIOUS
    <3>2. ASSUME NEW n \in Nat, n \in U PROVE n + 1 \in U
      <4> SUFFICES ASSUME n + 1 \in 1..L PROVE g[n + 1] \in Seq(S)
        OBVIOUS
      <4>0. p[n + 1] \in Seq(S)
        BY <1>0
      <4>1. CASE n = 0
        BY <4>0, <4>1, <2>7
      <4>2. CASE n # 0
        <5>1. g[n] \in Seq(S)
          BY <3>2, <1>0, <4>2
        <5>2. g[n + 1] = g[n] \o p[n + 1]
          <6>1. n + 1 # 1 /\ (n + 1) - 1 = n
            BY <4>2
          <6> QED BY <2>7, <6>1
        <5> QED BY <5>1, <5>2, <4>0
      <4> QED BY <4>1, <4>2
    <3>3. Nat \subseteq U
      <4> HIDE DEF U
      <4> QED BY <3>1, <3>2, Numbers
    <3> QED BY <3>3, <1>0
  <2> DEFINE f == [n \in 0..L |-> IF n = 0 THEN <<>> ELSE g[n]]
  <2>9. f \in [0..L -> Seq(S)]
    BY <2>8
  <2>10. ASSUME NEW n \in 1..L PROVE f[n] = f[n - 1] \o p[n]
    <3>0. p[n] \in Seq(S) /\ f[n] = g[n]
      BY <1>0
    <3>1. CASE n = 1
      <4>1. f[n] = p[n] /\ f[n - 1] = <<>>
        BY <2>7, <3>1, <3>0
      <4>2. <<>> \o p[n] = p[n]
        BY <3>0
      <4> QED BY <4>1, <4>2
    <3>2. CASE n # 1
      <4>1. f[n - 1] = g[n - 1]
        BY <3>2, <1>0
      <4> QED BY <2>7, <3>2, <4>1, <3>0
    <3> QED BY <3>1, <3>2
  <2>11. f[0] = <<>> /\ f[L] = g[L]
    BY <1>0, <1>2
  <2> HIDE DEF f
  <2> QED BY <2>6, <2>9, <2>10, <2>11
<1> QED BY <1>1, <1>2

\* Two lists that are joined have what each of them has.
LEMMA Joined == ASSUME NEW S, NEW a \in Seq(S), NEW b \in Seq(S)
                PROVE  ToSet(a \o b) = ToSet(a) \cup ToSet(b)
<1>1. ToSet(a \o b) \subseteq ToSet(a) \cup ToSet(b)
  <2> SUFFICES ASSUME NEW i \in DOMAIN (a \o b) PROVE (a \o b)[i] \in ToSet(a) \cup ToSet(b)
    BY DEF ToSet
  <2>1. CASE i <= Len(a)
    BY <2>1 DEF ToSet
  <2>2. CASE i > Len(a)
    <3>1. (a \o b)[i] = b[i - Len(a)] /\ i - Len(a) \in DOMAIN b
      BY <2>2
    <3> QED BY <3>1 DEF ToSet
  <2> QED BY <2>1, <2>2
<1>2. ASSUME NEW i \in DOMAIN a PROVE a[i] \in ToSet(a \o b)
  <2>1. i \in DOMAIN (a \o b) /\ (a \o b)[i] = a[i]
    OBVIOUS
  <2> QED BY <2>1 DEF ToSet
<1>3. ASSUME NEW i \in DOMAIN b PROVE b[i] \in ToSet(a \o b)
  <2>1. i + Len(a) \in DOMAIN (a \o b) /\ (a \o b)[i + Len(a)] = b[i]
    OBVIOUS
  <2> QED BY <2>1 DEF ToSet
<1> QED BY <1>1, <1>2, <1>3 DEF ToSet

\* What is in the joined pieces is in one of them.
LEMMA FlattenedHas ==
  ASSUME NEW S, NEW p \in Seq(Seq(S))
  PROVE  /\ FlattenSeq(p) \in Seq(S)
         /\ \A x : x \in ToSet(FlattenSeq(p)) <=> \E n \in 1..Len(p) : x \in ToSet(p[n])
<1>1. PICK f \in [0..Len(p) -> Seq(S)] :
         /\ f[0] = <<>>
         /\ \A n \in 1..Len(p) : f[n] = f[n - 1] \o p[n]
         /\ FlattenSeq(p) = f[Len(p)]
  BY Flattened
<1>0. Len(p) \in Nat /\ \A n \in 1..Len(p) : p[n] \in Seq(S)
  OBVIOUS
<1> DEFINE Has(n) == \A x : x \in ToSet(f[n]) <=> \E m \in 1..n : x \in ToSet(p[m])
           T == {n \in Nat : n \in 0..Len(p) => Has(n)}
<1>2. 0 \in T
  BY <1>1 DEF ToSet
<1>3. ASSUME NEW n \in Nat, n \in T PROVE n + 1 \in T
  <2> SUFFICES ASSUME n + 1 \in 0..Len(p) PROVE Has(n + 1)
    OBVIOUS
  <2>1. n \in 0..Len(p) /\ Has(n)
    BY <1>3, <1>0
  <2>2. f[n] \in Seq(S) /\ p[n + 1] \in Seq(S) /\ f[n + 1] = f[n] \o p[n + 1]
    <3>1. n + 1 \in 1..Len(p) /\ (n + 1) - 1 = n
      BY <2>1, <1>0
    <3>2. f[n + 1] = f[(n + 1) - 1] \o p[n + 1]
      BY <3>1, <1>1
    <3> QED BY <3>1, <3>2, <2>1, <1>0
  <2>3. ToSet(f[n] \o p[n + 1]) = ToSet(f[n]) \cup ToSet(p[n + 1])
    BY <2>2, Joined
  <2>4. 1..(n + 1) = 1..n \cup {n + 1}
    OBVIOUS
  <2> QED BY <2>1, <2>2, <2>3, <2>4
<1>4. Has(Len(p))
  <2>1. Len(p) \in T
    <3> HIDE DEF T
    <3> QED BY <1>2, <1>3, <1>0, Numbers
  <2> QED BY <2>1, <1>0
<1> QED BY <1>1, <1>4, <1>0

\* Joined pieces ascend when each of them does and each is above the ones before it.
LEMMA FlattenedAscends ==
  ASSUME NEW S \in SUBSET Int, NEW p \in Seq(Seq(S)),
         \A n \in 1..Len(p) : Ascends(p[n]),
         \A n, m \in 1..Len(p) : n < m =>
           \A x \in ToSet(p[n]), y \in ToSet(p[m]) : x < y
  PROVE  Ascends(FlattenSeq(p))
<1>1. PICK f \in [0..Len(p) -> Seq(S)] :
         /\ f[0] = <<>>
         /\ \A n \in 1..Len(p) : f[n] = f[n - 1] \o p[n]
         /\ FlattenSeq(p) = f[Len(p)]
  BY Flattened
<1>0. Len(p) \in Nat /\ \A n \in 1..Len(p) : p[n] \in Seq(S)
  OBVIOUS
<1> DEFINE Has(n) == /\ Ascends(f[n])
                     /\ \A x \in ToSet(f[n]) : \E m \in 1..n : x \in ToSet(p[m])
           T == {n \in Nat : n \in 0..Len(p) => Has(n)}
<1>2. 0 \in T
  BY <1>1 DEF ToSet, Ascends
<1>3. ASSUME NEW n \in Nat, n \in T PROVE n + 1 \in T
  <2> SUFFICES ASSUME n + 1 \in 0..Len(p) PROVE Has(n + 1)
    OBVIOUS
  <2>1. n \in 0..Len(p) /\ Has(n) /\ n + 1 \in 1..Len(p)
    BY <1>3, <1>0
  <2>2. f[n] \in Seq(S) /\ p[n + 1] \in Seq(S) /\ f[n + 1] = f[n] \o p[n + 1]
    <3>1. n + 1 \in 1..Len(p) /\ (n + 1) - 1 = n
      BY <2>1, <1>0
    <3>2. f[n + 1] = f[(n + 1) - 1] \o p[n + 1]
      BY <3>1, <1>1
    <3> QED BY <3>1, <3>2, <2>1, <1>0
  <2>3. ToSet(f[n] \o p[n + 1]) = ToSet(f[n]) \cup ToSet(p[n + 1])
    BY <2>2, Joined
  <2>4. \A x \in ToSet(f[n]), y \in ToSet(p[n + 1]) : x < y
    <3> SUFFICES ASSUME NEW x \in ToSet(f[n]), NEW y \in ToSet(p[n + 1]) PROVE x < y
      OBVIOUS
    <3>1. PICK m \in 1..n : x \in ToSet(p[m])
      BY <2>1
    <3>2. m \in 1..Len(p) /\ m < n + 1
      BY <2>1, <1>0
    <3> QED BY <3>1, <3>2, <2>1
  <2>5. Ascends(f[n] \o p[n + 1])
    <3> DEFINE a == f[n]
               b == p[n + 1]
    <3>1. a \in Seq(S) /\ b \in Seq(S) /\ Ascends(a) /\ Ascends(b)
      BY <2>1, <2>2
    <3>2. \A i \in DOMAIN a, j \in DOMAIN b : a[i] < b[j]
      BY <2>4 DEF ToSet
    <3> HIDE DEF a, b
    <3> SUFFICES ASSUME NEW i \in DOMAIN (a \o b), NEW j \in DOMAIN (a \o b), i < j
                 PROVE  (a \o b)[i] < (a \o b)[j]
      BY DEF Ascends, a, b
    <3>3. CASE j <= Len(a)
      BY <3>1, <3>3 DEF Ascends
    <3>4. CASE i > Len(a)
      <4>1. (a \o b)[i] = b[i - Len(a)] /\ (a \o b)[j] = b[j - Len(a)]
        BY <3>1, <3>4
      <4>2. i - Len(a) \in DOMAIN b /\ j - Len(a) \in DOMAIN b
        BY <3>1, <3>4
      <4> QED BY <4>1, <4>2, <3>1, <3>4 DEF Ascends
    <3>5. CASE i <= Len(a) /\ j > Len(a)
      <4>1. (a \o b)[i] = a[i] /\ (a \o b)[j] = b[j - Len(a)]
        BY <3>1, <3>5
      <4>2. i \in DOMAIN a /\ j - Len(a) \in DOMAIN b
        BY <3>1, <3>5
      <4> QED BY <4>1, <4>2, <3>2
    <3> QED BY <3>1, <3>3, <3>4, <3>5
  <2>6. \A x \in ToSet(f[n + 1]) : \E m \in 1..(n + 1) : x \in ToSet(p[m])
    <3> SUFFICES ASSUME NEW x \in ToSet(f[n + 1]) PROVE \E m \in 1..(n + 1) : x \in ToSet(p[m])
      OBVIOUS
    <3>1. CASE x \in ToSet(p[n + 1])
      BY <3>1
    <3>2. CASE x \in ToSet(f[n])
      BY <3>2, <2>1
    <3> QED BY <3>1, <3>2, <2>2, <2>3
  <2> QED BY <2>2, <2>5, <2>6
<1>4. Has(Len(p))
  <2>1. Len(p) \in T
    <3> HIDE DEF T
    <3> QED BY <1>2, <1>3, <1>0, Numbers
  <2> QED BY <2>1, <1>0
<1> QED BY <1>1, <1>4

\* A function on 1..n is a sequence.
LEMMA Numbered == ASSUME NEW S, NEW n \in Nat, NEW f \in [1..n -> S]
               PROVE  f \in Seq(S) /\ Len(f) = n
  OBVIOUS

\* The set of a list, of one with a last item added and of one without its first.
LEMMA SetOf ==
  ASSUME NEW S, NEW s \in Seq(S)
  PROVE  /\ ToSet(s) \subseteq S
         /\ \A x \in S : ToSet(Append(s, x)) = ToSet(s) \cup {x}
         /\ s # <<>> => /\ Head(s) \in S /\ Tail(s) \in Seq(S) /\ ToSet(s) = {Head(s)} \cup ToSet(Tail(s))
                        /\ \A k \in DOMAIN s : k # 1 => k - 1 \in DOMAIN Tail(s) /\ Tail(s)[k - 1] = s[k]
<1>1. ToSet(s) \subseteq S
  BY DEF ToSet
<1>2. ASSUME NEW x \in S PROVE ToSet(Append(s, x)) = ToSet(s) \cup {x}
  <2>1. /\ DOMAIN Append(s, x) = 1..(Len(s) + 1) /\ DOMAIN s = 1..Len(s)
        /\ Append(s, x)[Len(s) + 1] = x
        /\ \A k \in 1..Len(s) : Append(s, x)[k] = s[k]
    OBVIOUS
  <2>2. ASSUME NEW y \in ToSet(Append(s, x)) PROVE y \in ToSet(s) \cup {x}
    <3>1. PICK k \in 1..(Len(s) + 1) : y = Append(s, x)[k]
      BY <2>1 DEF ToSet
    <3>2. CASE k = Len(s) + 1
      BY <2>1, <3>1, <3>2
    <3>3. CASE k # Len(s) + 1
      <4>1. k \in 1..Len(s)
        BY <3>3
      <4> QED BY <2>1, <3>1, <4>1 DEF ToSet
    <3> QED BY <3>2, <3>3
  <2>3. ASSUME NEW y \in ToSet(s) PROVE y \in ToSet(Append(s, x))
    <3>1. PICK k \in 1..Len(s) : y = s[k]
      BY <2>1 DEF ToSet
    <3>2. k \in 1..(Len(s) + 1)
      OBVIOUS
    <3> QED BY <2>1, <3>1, <3>2 DEF ToSet
  <2>4. x \in ToSet(Append(s, x))
    <3>1. Len(s) + 1 \in 1..(Len(s) + 1)
      OBVIOUS
    <3> QED BY <2>1, <3>1 DEF ToSet
  <2> QED BY <2>2, <2>3, <2>4
<1>3. ASSUME s # <<>>
      PROVE  /\ Head(s) \in S /\ Tail(s) \in Seq(S) /\ ToSet(s) = {Head(s)} \cup ToSet(Tail(s))
             /\ \A k \in DOMAIN s : k # 1 => k - 1 \in DOMAIN Tail(s) /\ Tail(s)[k - 1] = s[k]
  <2>1. /\ Head(s) \in S /\ Tail(s) \in Seq(S) /\ Len(s) \in Nat \ {0}
        /\ DOMAIN Tail(s) = 1..(Len(s) - 1) /\ DOMAIN s = 1..Len(s)
        /\ Head(s) = s[1] /\ \A k \in 1..(Len(s) - 1) : Tail(s)[k] = s[k + 1]
    BY <1>3
  <2>2. ASSUME NEW k \in DOMAIN s, k # 1 PROVE k - 1 \in DOMAIN Tail(s) /\ Tail(s)[k - 1] = s[k]
    <3>1. k - 1 \in 1..(Len(s) - 1) /\ (k - 1) + 1 = k
      BY <2>1, <2>2
    <3> QED BY <2>1, <3>1
  <2>3. ASSUME NEW y \in ToSet(s) PROVE y \in {Head(s)} \cup ToSet(Tail(s))
    <3>1. PICK k \in DOMAIN s : y = s[k]
      BY DEF ToSet
    <3> QED BY <2>1, <2>2, <3>1 DEF ToSet
  <2>4. ASSUME NEW y \in ToSet(Tail(s)) PROVE y \in ToSet(s)
    <3>1. PICK k \in 1..(Len(s) - 1) : y = Tail(s)[k]
      BY <2>1 DEF ToSet
    <3>2. k + 1 \in DOMAIN s /\ y = s[k + 1]
      BY <2>1, <3>1
    <3> QED BY <3>2 DEF ToSet
  <2>5. Head(s) \in ToSet(s)
    BY <2>1 DEF ToSet
  <2> QED BY <2>1, <2>2, <2>3, <2>4, <2>5
<1> QED BY <1>1, <1>2, <1>3

-----------------------------------------------------------------------------
(* Lists of items                                                          *)

\* The items of a list that are in a set, in their order.
LEMMA OnlyHas ==
  ASSUME NEW s \in Seq(Items), NEW set
  PROVE  /\ Only(s, set) \in Seq(Items)
         /\ \A x : x \in ToSet(Only(s, set)) <=> x \in ToSet(s) /\ x \in set
         /\ Ascends(s) => Ascends(Only(s, set))
<1> DEFINE p == [n \in DOMAIN s |-> IF s[n] \in set THEN <<s[n]>> ELSE <<>>]
<1>0. DOMAIN s = 1..Len(s) /\ Len(s) \in Nat /\ \A n \in 1..Len(s) : s[n] \in Items
  OBVIOUS
<1>1. p \in [1..Len(s) -> Seq(Items)]
  BY <1>0
<1>2. \A n \in 1..Len(s) : p[n] = IF s[n] \in set THEN <<s[n]>> ELSE <<>>
  BY <1>0
<1>3. Only(s, set) = FlattenSeq(p)
  BY DEF Only
<1> HIDE DEF p
<1>4. p \in Seq(Seq(Items)) /\ Len(p) = Len(s)
  BY <1>0, <1>1, Numbered
<1>5. /\ FlattenSeq(p) \in Seq(Items)
      /\ \A x : x \in ToSet(FlattenSeq(p)) <=> \E n \in 1..Len(p) : x \in ToSet(p[n])
  BY <1>4, FlattenedHas
<1>6. \A n \in 1..Len(s) : \A x : x \in ToSet(p[n]) <=> x = s[n] /\ s[n] \in set
  <2> SUFFICES ASSUME NEW n \in 1..Len(s), NEW x
               PROVE  x \in ToSet(p[n]) <=> x = s[n] /\ s[n] \in set
    OBVIOUS
  <2>1. ToSet(<<s[n]>>) = {s[n]} /\ ToSet(<<>>) = {}
    BY DEF ToSet
  <2>2. CASE s[n] \in set
    BY <1>2, <2>1, <2>2
  <2>3. CASE s[n] \notin set
    BY <1>2, <2>1, <2>3
  <2> QED BY <2>2, <2>3
<1>7. ASSUME NEW x PROVE x \in ToSet(Only(s, set)) <=> x \in ToSet(s) /\ x \in set
  <2>1. x \in ToSet(s) <=> \E n \in 1..Len(s) : x = s[n]
    BY <1>0 DEF ToSet
  <2> QED BY <1>3, <1>4, <1>5, <1>6, <2>1
<1>8. ASSUME Ascends(s) PROVE Ascends(Only(s, set))
  <2>1. Items \in SUBSET Int
    BY DEF Items
  <2>2. \A n \in 1..Len(p) : Ascends(p[n])
    <3> SUFFICES ASSUME NEW n \in 1..Len(p) PROVE Ascends(p[n])
      OBVIOUS
    <3>1. Ascends(<<s[n]>>) /\ Ascends(<<>>)
      BY DEF Ascends
    <3>2. p[n] = <<s[n]>> \/ p[n] = <<>>
      BY <1>2, <1>4
    <3> QED BY <3>1, <3>2
  <2>3. \A n, m \in 1..Len(p) : n < m => \A x \in ToSet(p[n]), y \in ToSet(p[m]) : x < y
    <3> SUFFICES ASSUME NEW n \in 1..Len(p), NEW m \in 1..Len(p), n < m,
                        NEW x \in ToSet(p[n]), NEW y \in ToSet(p[m])
                 PROVE  x < y
      OBVIOUS
    <3>1. x = s[n] /\ y = s[m]
      BY <1>4, <1>6
    <3> QED BY <1>0, <1>4, <1>8, <3>1 DEF Ascends
  <2> QED BY <1>3, <1>4, <2>1, <2>2, <2>3, FlattenedAscends
<1> QED BY <1>3, <1>5, <1>7, <1>8

\* The items of a list that are not marked.
LEMMA UnmarkedHas ==
  ASSUME NEW s \in Seq(Items)
  PROVE  /\ LeaveOutMarked(s) \in Seq(Items)
         /\ \A x : x \in ToSet(LeaveOutMarked(s)) <=> x \in ToSet(s) /\ x \notin marked
         /\ Ascends(s) => Ascends(LeaveOutMarked(s))
<1>1. ToSet(s) \subseteq Items
  BY SetOf
<1> QED BY <1>1, OnlyHas DEF LeaveOutMarked

\* What is behind a cursor of an ascending list are the later items.
LEMMA RestHas ==
  ASSUME NEW s \in Seq(Items), Ascends(s), NEW after \in 0..MaxItems, MaxItems \in Nat
  PROVE  /\ RestOf(s, after) \in Seq(Items) /\ Ascends(RestOf(s, after))
         /\ \A x : x \in ToSet(RestOf(s, after)) <=> x \in ToSet(s) /\ x > after
<1>0. DOMAIN s = 1..Len(s) /\ Len(s) \in Nat /\ (\A n \in 1..Len(s) : s[n] \in Items) /\ ToSet(s) \subseteq Items
  BY SetOf
<1>1. CASE after = 0
  <2>1. \A x \in Items : x > 0
    BY DEF Items
  <2> QED BY <1>0, <1>1, <2>1 DEF RestOf
<1>2. CASE after # 0 /\ HasItem(s, after)
  <2> DEFINE n == CHOOSE n \in DOMAIN s : s[n] = after
             t == SubSeq(s, n, Len(s))
             r == Tail(t)
  <2>1. \E k \in DOMAIN s : s[k] = after
    BY <1>2 DEF HasItem, ToSet
  <2>2. n \in 1..Len(s) /\ s[n] = after
    BY <1>0, <2>1
  <2>3. RestOf(s, after) = r
    BY <1>2 DEF RestOf, AfterItem
  <2> HIDE DEF n
  <2>4. /\ t \in Seq(Items) /\ Len(t) = Len(s) - n + 1
        /\ \A k \in 1..Len(t) : t[k] = s[n + k - 1]
    BY <1>0, <2>2
  <2> HIDE DEF t
  <2>5. t # <<>> /\ Len(t) \in Nat
    BY <1>0, <2>2, <2>4
  <2>6. r \in Seq(Items) /\ Len(r) = Len(t) - 1 /\ \A k \in 1..Len(r) : r[k] = t[k + 1]
    BY <2>4, <2>5
  <2> HIDE DEF r
  <2>7. Len(r) = Len(s) - n /\ DOMAIN r = 1..Len(r)
    BY <1>0, <2>2, <2>4, <2>6
  <2>8. \A k \in 1..Len(r) : n + k \in 1..Len(s) /\ r[k] = s[n + k]
    <3> SUFFICES ASSUME NEW k \in 1..Len(r) PROVE n + k \in 1..Len(s) /\ r[k] = s[n + k]
      OBVIOUS
    <3>1. k + 1 \in 1..Len(t) /\ n + (k + 1) - 1 = n + k /\ n + k \in 1..Len(s)
      BY <1>0, <2>2, <2>4, <2>7
    <3> QED BY <2>4, <2>6, <3>1
  <2>9. Ascends(r)
    <3> SUFFICES ASSUME NEW i \in 1..Len(r), NEW j \in 1..Len(r), i < j PROVE r[i] < r[j]
      BY <2>7 DEF Ascends
    <3>1. n + i \in DOMAIN s /\ n + j \in DOMAIN s /\ n + i < n + j
      BY <1>0, <2>2, <2>8
    <3> QED BY <2>8, <3>1 DEF Ascends
  <2>10. ASSUME NEW x \in ToSet(r) PROVE x \in ToSet(s) /\ x > after
    <3>1. PICK k \in 1..Len(r) : x = r[k]
      BY <2>7 DEF ToSet
    <3>2. n + k \in DOMAIN s /\ n < n + k /\ n \in DOMAIN s /\ x = s[n + k]
      BY <1>0, <2>2, <2>8, <3>1
    <3>3. s[n] < s[n + k]
      BY <3>2 DEF Ascends
    <3>4. x \in Items /\ after < x
      BY <1>0, <2>2, <3>2, <3>3
    <3> QED BY <3>2, <3>4 DEF ToSet, Items
  <2>11. ASSUME NEW x \in ToSet(s), x > after PROVE x \in ToSet(r)
    <3>1. PICK m \in 1..Len(s) : x = s[m]
      BY <1>0 DEF ToSet
    <3>2. x \in Nat /\ after \in Nat
      BY <1>0 DEF Items
    <3>3. m > n
      <4>1. CASE m < n
        <5>1. s[m] < s[n]
          BY <1>0, <2>2, <4>1 DEF Ascends
        <5> QED BY <2>2, <2>11, <3>1, <3>2, <5>1
      <4>2. CASE m = n
        BY <2>2, <2>11, <3>1, <3>2, <4>2
      <4> QED BY <2>2, <4>1, <4>2
    <3>4. m - n \in 1..Len(r) /\ n + (m - n) = m
      BY <1>0, <2>2, <2>7, <3>3
    <3>5. r[m - n] = x
      BY <2>8, <3>1, <3>4
    <3> QED BY <2>7, <3>4, <3>5 DEF ToSet
  <2> QED BY <2>3, <2>6, <2>9, <2>10, <2>11
<1>3. CASE after # 0 /\ ~HasItem(s, after)
  <2> DEFINE set == {i \in Items : i > after}
  <2>1. RestOf(s, after) = Only(s, set)
    BY <1>3 DEF RestOf, LaterThan
  <2>2. \A x \in ToSet(s) : x \in set <=> x > after
    BY <1>0
  <2> HIDE DEF set
  <2> QED BY <2>1, <2>2, OnlyHas
<1> QED BY <1>1, <1>2, <1>3

\* The first items of an ascending list: what is left out is later.
Cut(s) == SubSeq(s, 1, IF Len(s) < Limit THEN Len(s) ELSE Limit)

\* A page ascends, it is all there is or there is more, and then what is more is later.
LEMMA CutHas ==
  ASSUME NEW s \in Seq(Items), Ascends(s), Limit \in Nat \ {0}, MaxItems \in Nat
  PROVE  /\ Cut(s) \in Seq(Items) /\ Ascends(Cut(s)) /\ ToSet(Cut(s)) \subseteq ToSet(s)
         /\ ~(Len(s) > Limit) => ToSet(s) \subseteq ToSet(Cut(s))
         /\ Len(s) > Limit => Cut(s) # <<>>
         /\ \A x \in ToSet(s) : x \in ToSet(Cut(s)) \/ \A y \in ToSet(Cut(s)) : y < x
<1> DEFINE c == Cut(s)
<1>a. DOMAIN s = 1..Len(s) /\ Len(s) \in Nat /\ \A n \in 1..Len(s) : s[n] \in Items
  OBVIOUS
<1>b. PICK m \in Nat : m = IF Len(s) < Limit THEN Len(s) ELSE Limit
  BY <1>a
<1> DEFINE L == Len(s)
<1>l. L \in Nat
  BY <1>a
<1>m. m = IF L < Limit THEN L ELSE Limit
  BY <1>b
<1> HIDE DEF L
<1>n. m <= L /\ (~(L > Limit) => m = L) /\ (L > Limit => m # 0)
  BY <1>l, <1>m
<1>c. m <= Len(s)
  BY <1>n DEF L
<1>0. DOMAIN s = 1..Len(s) /\ Len(s) \in Nat /\ m <= Len(s)
  BY <1>a, <1>c
<1>d. ~(Len(s) > Limit) => m = Len(s)
  BY <1>n DEF L
<1>e. Len(s) > Limit => m # 0
  BY <1>n DEF L
<1>1. c = SubSeq(s, 1, m)
  BY <1>b DEF Cut
<1> HIDE DEF c
<1>2. c \in Seq(Items) /\ Len(c) = m /\ \A k \in 1..m : c[k] = s[k]
  BY <1>0, <1>1
<1>3. DOMAIN c = 1..m /\ \A k \in 1..m : k \in 1..Len(s)
  BY <1>0, <1>2
<1>4. Ascends(c)
  BY <1>0, <1>2, <1>3 DEF Ascends
<1>5. ToSet(c) \subseteq ToSet(s)
  BY <1>0, <1>2, <1>3 DEF ToSet
<1>6. ASSUME NEW x \in ToSet(s) PROVE x \in ToSet(c) \/ (m # Len(s) /\ \A y \in ToSet(c) : y < x)
  <2>1. PICK n \in 1..Len(s) : x = s[n]
    BY <1>0 DEF ToSet
  <2>2. CASE n <= m
    <3>1. n \in 1..m
      BY <1>0, <2>2
    <3> QED BY <1>2, <1>3, <2>1, <3>1 DEF ToSet
  <2>3. CASE n > m
    <3>1. m # Len(s)
      <4>1. n \in 1..L /\ n > m
        BY <2>3 DEF L
      <4>2. m # L
        BY <1>l, <4>1
      <4> QED BY <4>2 DEF L
    <3>2. ASSUME NEW y \in ToSet(c) PROVE y < x
      <4>1. PICK k \in 1..m : y = c[k]
        BY <1>3 DEF ToSet
      <4>2. k \in DOMAIN s /\ n \in DOMAIN s /\ k < n
        BY <1>0, <1>3, <2>3
      <4> QED BY <1>2, <2>1, <4>1, <4>2 DEF Ascends
    <3> QED BY <3>1, <3>2
  <2>4. n <= m \/ n > m
    <3>1. n \in 1..L
      BY DEF L
    <3> QED BY <1>l, <3>1
  <2> QED BY <2>2, <2>3, <2>4
<1>7. Len(s) > Limit => c # <<>>
  BY <1>e, <1>2
<1> QED BY <1>d, <1>2, <1>4, <1>5, <1>6, <1>7 DEF c

\* Two ascending lists, the second above the first, ascend when joined.
LEMMA JoinedAscends ==
  ASSUME NEW a \in Seq(Items), NEW b \in Seq(Items), Ascends(a), Ascends(b), NEW n \in Nat,
         \A x \in ToSet(a) : x <= n, \A y \in ToSet(b) : n < y, MaxItems \in Nat
  PROVE  a \o b \in Seq(Items) /\ Ascends(a \o b)
<1>0. /\ DOMAIN a = 1..Len(a) /\ Len(a) \in Nat /\ DOMAIN b = 1..Len(b) /\ Len(b) \in Nat
      /\ Items \subseteq Nat
  BY DEF Items
<1>1. /\ a \o b \in Seq(Items) /\ DOMAIN (a \o b) = 1..(Len(a) + Len(b))
      /\ \A i \in 1..Len(a) : (a \o b)[i] = a[i]
      /\ \A i \in 1..(Len(a) + Len(b)) : i > Len(a) => i - Len(a) \in 1..Len(b) /\ (a \o b)[i] = b[i - Len(a)]
  BY <1>0
<1>2. ASSUME NEW i \in 1..(Len(a) + Len(b)), NEW j \in 1..(Len(a) + Len(b)), i < j
      PROVE  (a \o b)[i] < (a \o b)[j]
  <2>1. CASE j <= Len(a)
    <3>1. i \in DOMAIN a /\ j \in DOMAIN a
      BY <1>0, <1>2, <2>1
    <3> QED BY <1>0, <1>1, <1>2, <3>1 DEF Ascends
  <2>2. CASE i > Len(a)
    <3>1. j > Len(a)
      BY <1>0, <1>2, <2>2
    <3>2. i - Len(a) \in DOMAIN b /\ j - Len(a) \in DOMAIN b /\ i - Len(a) < j - Len(a)
      BY <1>0, <1>1, <1>2, <2>2, <3>1
    <3> QED BY <1>1, <2>2, <3>1, <3>2 DEF Ascends
  <2>3. CASE i <= Len(a) /\ j > Len(a)
    <3>1. i \in DOMAIN a /\ j - Len(a) \in DOMAIN b
      BY <1>0, <1>1, <2>3
    <3>2. a[i] \in ToSet(a) /\ b[j - Len(a)] \in ToSet(b)
      BY <3>1 DEF ToSet
    <3>3. a[i] \in Nat /\ b[j - Len(a)] \in Nat
      <4>1. ToSet(a) \subseteq Items /\ ToSet(b) \subseteq Items
        BY SetOf
      <4> QED BY <1>0, <3>2, <4>1
    <3>4. a[i] <= n /\ n < b[j - Len(a)]
      BY <3>2
    <3>5. a[i] < b[j - Len(a)]
      BY <3>3, <3>4
    <3> QED BY <1>0, <1>1, <2>3, <3>1, <3>5
  <2> QED BY <1>0, <2>1, <2>2, <2>3
<1> QED BY <1>1, <1>2 DEF Ascends

-----------------------------------------------------------------------------
(* Steps of a listing                                                      *)

\* A page cut from what a list has behind the cursor of a listing.
Cuts(l, s, page, more) ==
    /\ page \in Seq(Items) /\ more \in BOOLEAN /\ Ascends(page)
    /\ \A x \in ToSet(page) : x \in ToSet(s) /\ list[l].after < x /\ x \notin marked
    /\ more => page # <<>>
    /\ \A x \in ToSet(s) : list[l].after < x /\ x \notin marked =>
         x \in ToSet(page) \/ (more /\ \A y \in ToSet(page) : y < x)

\* A listing with its next page.
WithPage(l, page, more, fresh) ==
    [list[l] EXCEPT !.at = "convert", !.fresh = fresh, !.rest = page, !.more = more]

\* The page of a listing is such a cut.
LEMMA PageHas ==
  ASSUME InboxAssumption, TypeOK, NEW l \in Listers, NEW s \in Seq(Items), Ascends(s), NEW fresh \in Seq(Items),
         Page(l, RestOf(s, list[l].after), fresh)
  PROVE  \E page, more : /\ Cuts(l, s, page, more)
                         /\ list' = [list EXCEPT ![l] = WithPage(l, page, more, fresh)]
<1> DEFINE after == list[l].after
           r == RestOf(s, after)
           u == LeaveOutMarked(r)
           page == Cut(u)
           more == Len(u) > Limit
<1>0. /\ list \in [Listers -> ListType] /\ list[l] \in ListType /\ after \in 0..MaxItems
      /\ MaxItems \in Nat /\ Limit \in Nat \ {0}
  BY DEF TypeOK, ListType, InboxAssumption
<1>1. list' = [list EXCEPT ![l].at = "convert", ![l].fresh = fresh, ![l].rest = page, ![l].more = more]
  BY DEF Page, Cut
<1>2. r \in Seq(Items) /\ Ascends(r) /\ \A x : x \in ToSet(r) <=> x \in ToSet(s) /\ x > after
  BY <1>0, RestHas
<1> HIDE DEF r, after
<1>3. u \in Seq(Items) /\ Ascends(u) /\ \A x : x \in ToSet(u) <=> x \in ToSet(r) /\ x \notin marked
  BY <1>2, UnmarkedHas
<1> HIDE DEF u
<1>4. /\ page \in Seq(Items) /\ Ascends(page) /\ ToSet(page) \subseteq ToSet(u)
      /\ ~more => ToSet(u) \subseteq ToSet(page)
      /\ more => page # <<>>
      /\ \A x \in ToSet(u) : x \in ToSet(page) \/ \A y \in ToSet(page) : y < x
  BY <1>0, <1>3, CutHas
<1>5. more \in BOOLEAN
  OBVIOUS
<1> HIDE DEF page, more
<1>6. \A x \in Items : x > after <=> after < x
  BY <1>0 DEF Items
<1>7. ToSet(s) \subseteq Items
  BY SetOf
<1>8. Cuts(l, s, page, more)
  BY <1>2, <1>3, <1>4, <1>5, <1>6, <1>7 DEF Cuts, after
<1>9. list' = [list EXCEPT ![l] = WithPage(l, page, more, fresh)]
  BY <1>0, <1>1 DEF WithPage, ListType
<1> QED BY <1>8, <1>9

\* A listing that was given its page.
WithGiven(l) ==
    [list[l] EXCEPT !.at = IF list[l].more THEN "page" ELSE "end",
                    !.after = IF list[l].rest = <<>> THEN @ ELSE Last(list[l].rest),
                    !.given = @ \o list[l].rest, !.rest = <<>>, !.fresh = <<>>]

\* What a step of a listing does, and to what.
LEMMA ListMoves ==
  ASSUME InboxAssumption, TypeOK, Registered, Lists, Pages, NEW l \in Listers,
         ListAsked(l) \/ ListRead(l) \/ ListFails(l) \/ ListGiven(l)
  PROVE  /\ UNCHANGED <<unread, stored, written, marked>>
         /\ \/ /\ snapshot' = snapshot
               /\ \/ list[l].at = "idle" /\ list' = [list EXCEPT ![l] = [list[l] EXCEPT !.at = "end"]]
                  \/ /\ list[l].at \in {"read", "convert"}
                     /\ list' = [list EXCEPT ![l] = [list[l] EXCEPT !.at = "failed"]]
                  \/ list[l].at = "page" /\ list' = [list EXCEPT ![l] = [list[l] EXCEPT !.at = "read"]]
                  \/ list[l].at = "idle" /\ list' = [list EXCEPT ![l] = Begun(l)]
                  \/ /\ list[l].at = "page" /\ snapshot # <<>>
                     /\ \E page, more : /\ Cuts(l, snapshot, page, more)
                                        /\ list' = [list EXCEPT ![l] = WithPage(l, page, more, <<>>)]
                  \/ /\ list[l].at = "read"
                     /\ \E page, more : /\ Cuts(l, unread, page, more)
                                        /\ list' = [list EXCEPT ![l] = WithPage(l, page, more, unread)]
            \/ /\ list[l].at = "convert"
               /\ list' = [list EXCEPT ![l] = WithGiven(l)]
               /\ snapshot' = IF ~list[l].more THEN <<>>
                              ELSE IF list[l].fresh # <<>> THEN list[l].fresh ELSE snapshot
<1>0. /\ list \in [Listers -> ListType] /\ list[l] \in ListType
      /\ unread \in Seq(Items) /\ snapshot \in Seq(Items) /\ <<>> \in Seq(Items)
      /\ Ascends(unread) /\ Ascends(snapshot)
  BY DEF TypeOK, Lists, Sound
<1>1. CASE ListAsked(l)
  <2>1. UNCHANGED <<unread, stored, written, marked, snapshot>> /\ list[l].at \in {"idle", "page"}
    BY <1>1 DEF ListAsked, jobs, queue, book, inbox
  <2>2. Given(list[l], stored, marked)
    BY DEF Pages
  <2>3. CASE RegistrationQueued
    <3>1. list' = [list EXCEPT ![l].at = "end"]
      BY <1>1, <2>3 DEF ListAsked
    <3>2. list[l].at = "idle"
      BY <2>1, <2>3 DEF Registered
    <3>3. list' = [list EXCEPT ![l] = [list[l] EXCEPT !.at = "end"]]
      BY <1>0, <3>1
    <3> QED BY <2>1, <3>2, <3>3
  <2>4. CASE ~RegistrationQueued /\ list[l].after # 0 /\ HasItem(snapshot, list[l].after)
    <3>1. Page(l, RestOf(snapshot, list[l].after), <<>>)
      BY <1>1, <2>4 DEF ListAsked
    <3>2. list[l].at = "page"
      BY <2>1, <2>2, <2>4 DEF Given
    <3>3. snapshot # <<>>
      BY <2>4 DEF HasItem, ToSet
    <3>4. \E page, more : /\ Cuts(l, snapshot, page, more)
                          /\ list' = [list EXCEPT ![l] = WithPage(l, page, more, <<>>)]
      BY <1>0, <3>1, PageHas
    <3> QED BY <2>1, <3>2, <3>3, <3>4
  <2>5. CASE ~RegistrationQueued /\ ~(list[l].after # 0 /\ HasItem(snapshot, list[l].after))
    <3>1. list' = [list EXCEPT ![l] = IF list[l].after = 0 THEN Begun(l) ELSE [list[l] EXCEPT !.at = "read"]]
      BY <1>0, <1>1, <2>5 DEF ListAsked
    <3>2. list[l].after = 0 <=> list[l].at = "idle"
      BY <2>1, <2>2 DEF Given
    <3> QED BY <2>1, <3>1, <3>2
  <2> QED BY <2>3, <2>4, <2>5
<1>2. CASE ListRead(l)
  <2>1. /\ UNCHANGED <<unread, stored, written, marked, snapshot>> /\ list[l].at = "read"
        /\ Page(l, RestOf(unread, list[l].after), unread)
    BY <1>2 DEF ListRead, jobs, queue, book, inbox
  <2>2. \E page, more : /\ Cuts(l, unread, page, more)
                        /\ list' = [list EXCEPT ![l] = WithPage(l, page, more, unread)]
    BY <1>0, <2>1, PageHas
  <2> QED BY <2>1, <2>2
<1>3. CASE ListFails(l)
  <2>1. UNCHANGED <<unread, stored, written, marked, snapshot>> /\ list[l].at \in {"read", "convert"}
    BY <1>3 DEF ListFails, jobs, queue, book, inbox
  <2>2. list' = [list EXCEPT ![l] = [list[l] EXCEPT !.at = "failed"]]
    BY <1>0, <1>3 DEF ListFails
  <2> QED BY <2>1, <2>2
<1>4. CASE ListGiven(l)
  <2>1. UNCHANGED <<unread, stored, written, marked>> /\ list[l].at = "convert"
    BY <1>4 DEF ListGiven, jobs, queue
  <2>2. snapshot' = IF ~list[l].more THEN <<>>
                    ELSE IF list[l].fresh # <<>> THEN list[l].fresh ELSE snapshot
    BY <1>4 DEF ListGiven
  <2>3. list' = [list EXCEPT ![l].at = IF list[l].more THEN "page" ELSE "end",
                     ![l].after = IF list[l].rest = <<>> THEN @ ELSE Last(list[l].rest),
                     ![l].given = @ \o list[l].rest, ![l].rest = <<>>, ![l].fresh = <<>>]
    BY <1>4 DEF ListGiven
  <2>4. list' = [list EXCEPT ![l] = WithGiven(l)]
    BY <1>0, <2>3 DEF WithGiven, ListType
  <2> QED BY <2>1, <2>2, <2>4
<1> QED BY <1>1, <1>2, <1>3, <1>4

\* The last item of a page.
LEMMA LastHas ==
  ASSUME NEW s \in Seq(Items), s # <<>>, Ascends(s), MaxItems \in Nat
  PROVE  Last(s) \in ToSet(s) /\ Last(s) \in Items /\ \A x \in ToSet(s) : x <= Last(s)
<1>1. Len(s) \in Nat /\ Len(s) # 0 /\ DOMAIN s = 1..Len(s) /\ Last(s) = s[Len(s)] /\ \A n \in 1..Len(s) : s[n] \in Items
  BY DEF Last
<1>2. Last(s) \in ToSet(s) /\ Last(s) \in Items
  BY <1>1 DEF ToSet
<1>3. ASSUME NEW x \in ToSet(s) PROVE x <= Last(s)
  <2>1. PICK n \in 1..Len(s) : x = s[n]
    BY <1>1 DEF ToSet
  <2>2. CASE n = Len(s)
    BY <1>1, <2>1, <2>2 DEF Items
  <2>3. CASE n # Len(s)
    <3>1. n < Len(s) /\ Len(s) \in DOMAIN s /\ n \in DOMAIN s
      <4> DEFINE L == Len(s)
      <4>1. L \in Nat /\ n \in 1..L /\ n # L
        BY <1>1, <2>3
      <4> HIDE DEF L
      <4>2. n < L /\ L \in 1..L
        BY <4>1
      <4> QED BY <1>1, <4>2 DEF L
    <3>2. s[n] < s[Len(s)]
      BY <3>1 DEF Ascends
    <3> QED BY <1>1, <2>1, <3>2 DEF Items
  <2> QED BY <2>2, <2>3
<1> QED BY <1>2, <1>3

\* The fields of a listing after each of its steps.
LEMMA MovedTypes ==
  ASSUME InboxAssumption, TypeOK, Lists, Pages, NEW l \in Listers
  PROVE  /\ \A at \in {"end", "failed", "read"} : [list[l] EXCEPT !.at = at] \in ListType
         /\ Begun(l) \in ListType
         /\ \A page \in Seq(Items), fresh \in Seq(Items), more \in BOOLEAN : WithPage(l, page, more, fresh) \in ListType
         /\ list[l].at = "convert" => WithGiven(l) \in ListType
<1>0. list[l] \in ListType /\ unread \in Seq(Items) /\ marked \subseteq Items /\ MaxItems \in Nat
  BY DEF TypeOK, InboxAssumption
<1>1. \A at \in {"end", "failed", "read"} : [list[l] EXCEPT !.at = at] \in ListType
  BY <1>0 DEF ListType
<1>2. Begun(l) \in ListType
  <2>1. ToSet(unread) \subseteq Items
    BY <1>0, SetOf
  <2> DEFINE due == ToSet(unread) \ marked
             behind == \E k \in Listers : list[k].at = "convert" /\ list[k].fresh # <<>>
  <2>2. due \in SUBSET Items /\ behind \in BOOLEAN
    BY <2>1
  <2>3. Begun(l) = [list[l] EXCEPT !.at = "read", !.due = due, !.out = marked, !.behind = behind]
    BY DEF Begun
  <2> HIDE DEF due, behind
  <2> QED BY <1>0, <2>2, <2>3 DEF ListType
<1>3. \A page \in Seq(Items), fresh \in Seq(Items), more \in BOOLEAN : WithPage(l, page, more, fresh) \in ListType
  BY <1>0 DEF WithPage, ListType
<1>4. ASSUME list[l].at = "convert" PROVE WithGiven(l) \in ListType
  <2>1. list[l].rest \in Seq(Items) /\ list[l].given \in Seq(Items) /\ list[l].after \in 0..MaxItems
    BY <1>0 DEF ListType
  <2>2. Ascends(list[l].rest)
    BY <1>4 DEF Pages, Paged
  <2> DEFINE after == IF list[l].rest = <<>> THEN list[l].after ELSE Last(list[l].rest)
             at == IF list[l].more THEN "page" ELSE "end"
             given == list[l].given \o list[l].rest
  <2>3. after \in 0..MaxItems
    <3>1. CASE list[l].rest = <<>>
      BY <2>1, <3>1
    <3>2. CASE list[l].rest # <<>>
      <4>1. Last(list[l].rest) \in Items
        BY <1>0, <2>1, <2>2, <3>2, LastHas
      <4> QED BY <1>0, <3>2, <4>1 DEF Items
    <3> QED BY <3>1, <3>2
  <2>4. given \in Seq(Items) /\ at \in {"page", "end"} /\ <<>> \in Seq(Items)
    BY <2>1
  <2>5. WithGiven(l) = [list[l] EXCEPT !.at = at, !.after = after, !.given = given, !.rest = <<>>, !.fresh = <<>>]
    BY <1>0 DEF WithGiven, ListType
  <2> HIDE DEF after, at, given
  <2> QED BY <1>0, <2>3, <2>4, <2>5 DEF ListType
<1> QED BY <1>1, <1>2, <1>3, <1>4

-----------------------------------------------------------------------------
(* Types                                                                   *)

\* A book that is made has no calls under way.
LEMMA InitPort == InboxAssumption /\ Init => PortInv
<1> SUFFICES ASSUME InboxAssumption, Init PROVE PortInv
  OBVIOUS
<1>0. /\ MaxItems \in Nat /\ MaxBreaks \in Nat /\ <<>> \in Seq(Items) /\ ToSet(<<>>) = {} /\ Ascends(<<>>)
      /\ \A l \in Listers : list[l] = NoList
      /\ \A v \in Waiters : watch[v] = NoWatch
  BY DEF InboxAssumption, Init, ToSet, Ascends
<1>1. TypeOK
  <2>1. NoList \in ListType /\ NoWatch \in WatchType
    BY <1>0 DEF NoList, NoWatch, ListType, WatchType
  <2>2. list \in [Listers -> ListType] /\ watch \in [Waiters -> WatchType]
    <3>1. list = [l \in Listers |-> NoList] /\ watch = [v \in Waiters |-> NoWatch]
      BY DEF Init
    <3> QED BY <2>1, <3>1
  <2>3. written \in [Writes -> Nat] /\ registration \in {"none", "queued", "ended"}
    <3>1. \A w \in Writes : (IF w = <<"registration">> /\ restored THEN 1 ELSE 0) \in Nat
      OBVIOUS
    <3>2. written = [w \in Writes |-> IF w = <<"registration">> /\ restored THEN 1 ELSE 0]
      BY DEF Init
    <3> QED BY <3>1, <3>2 DEF Init
  <2>4. unread \in Seq(Items) /\ snapshot \in Seq(Items) /\ stored \in 0..MaxItems /\ breaks \in 0..MaxBreaks
    BY <1>0 DEF Init
  <2>5. {booked, restored, kept, up, left} \subseteq BOOLEAN
    BY DEF Init
  <2>6. ring \subseteq Items /\ marked \subseteq Items /\ listed \subseteq Items /\ taken \subseteq Mails
    BY DEF Init
  <2>7. deaf \in [Waiters -> SUBSET Items]
    BY DEF Init
  <2> QED BY <2>2, <2>3, <2>4, <2>5, <2>6, <2>7 DEF TypeOK
<1>2. Registered
  BY <1>0 DEF Init, Registered, NoList, NoWatch
<1>3. Seen
  BY <1>0 DEF Seen, NoWatch
<1>4. Lists
  <2>1. \A i \in Items : written[<<"marker", i>>] = 0
    <3> SUFFICES ASSUME NEW i \in Items PROVE written[<<"marker", i>>] = 0
      OBVIOUS
    <3>1. <<"marker", i>> \in Writes /\ <<"marker", i>> # <<"registration">>
      BY DEF Writes
    <3> QED BY <3>1 DEF Init
  <2>2. unread = <<>> /\ snapshot = <<>> /\ stored = 0 /\ \A l \in Listers : list[l].fresh = <<>>
    BY <1>0 DEF Init, NoList
  <2>3. \A i \in Items : ~(i <= 0)
    BY DEF Items
  <2> QED BY <1>0, <2>1, <2>2, <2>3 DEF Lists, Sound
<1>5. Pages /\ Newer
  <2>1. \A l \in Listers : /\ list[l].at = "idle" /\ list[l].after = 0 /\ list[l].given = <<>>
                           /\ list[l].rest = <<>> /\ list[l].due = {} /\ list[l].out = {}
    BY <1>0 DEF NoList
  <2> QED BY <1>0, <2>1 DEF Pages, Given, Paged, Newer
<1> QED BY <1>1, <1>2, <1>3, <1>4, <1>5 DEF PortInv

\* A wait after a step of its own: what it is woken by, what it waits for, what it found.
LEMMA WatchMoves ==
  ASSUME TypeOK, NEW v \in Waiters,
         WaitAsked(v) \/ Look(v) \/ WaitAnswered(v) \/ WaitRead(v) \/ WaitReadFails(v) \/ Woken(v)
  PROVE  \E w \in WatchType :
           /\ watch' = [watch EXCEPT ![v] = w]
           /\ UNCHANGED <<jobs, queue, book, callers, list, up>>
           /\ \/ /\ watch[v].at = "none" /\ booked /\ w.at = "look" /\ w.waitsForIt = RegistrationQueued
              \/ /\ watch[v].at = "look" /\ w.waitsForIt = watch[v].waitsForIt
                 /\ w.at = "error" \/ (w.at = "asleep" /\ RegistrationQueued)
              \/ /\ watch[v].at = "look" /\ w.at = "read" /\ ~w.waitsForIt /\ ~RegistrationQueued
              \/ /\ watch[v].at = "read" /\ w.at = "answered" /\ w.found = unread
                 /\ w.waitsForIt = watch[v].waitsForIt
              \/ /\ watch[v].at = "answered" /\ w.at = "item" /\ ~w.waitsForIt
              \/ /\ watch[v].at = "answered" /\ w.at \in {"asleep", "error"} /\ w.wakes = watch[v].wakes
                 /\ w.waitsForIt = watch[v].waitsForIt /\ LeaveOutMarked(watch[v].found) = <<>>
              \/ /\ watch[v].at = "read" /\ w.at = "error" /\ w.waitsForIt = watch[v].waitsForIt
              \/ /\ watch[v].at = "asleep" /\ w.at \in {"look", "error"}
                 /\ w.waitsForIt = (watch[v].waitsForIt /\ registration # "ended")
<1> DEFINE o == watch[v]
<1>0. /\ watch \in [Waiters -> WatchType] /\ o \in WatchType /\ NoWatch \in WatchType
      /\ unread \in Seq(Items) /\ RegistrationQueued \in BOOLEAN
  BY DEF TypeOK, NoWatch, WatchType, RegistrationQueued
<1>n. /\ Nothing(v) \in WatchType /\ Nothing(v).at \in {"error", "asleep"}
      /\ Nothing(v).waitsForIt = o.waitsForIt /\ Nothing(v).wakes = o.wakes /\ Nothing(v).found = o.found
  <2> DEFINE at == IF o.first /\ kept THEN "error" ELSE "asleep"
  <2>1. at \in {"error", "asleep"} /\ Nothing(v) = [o EXCEPT !.at = at, !.first = FALSE]
    BY DEF Nothing
  <2> HIDE DEF at, o
  <2> QED BY <1>0, <2>1 DEF WatchType
<1>1. CASE WaitAsked(v)
  <2> DEFINE w == [NoWatch EXCEPT !.at = "look", !.waitsForIt = RegistrationQueued]
  <2>1. w \in WatchType /\ w.at = "look" /\ w.waitsForIt = RegistrationQueued
    BY <1>0 DEF NoWatch, WatchType
  <2>2. watch' = [watch EXCEPT ![v] = w] /\ o.at = "none" /\ booked /\ UNCHANGED <<jobs, queue, book, callers, list, up>>
    BY <1>1 DEF WaitAsked, HoldsInbox, feed
  <2> HIDE DEF w
  <2> QED BY <2>1, <2>2
<1>2. CASE Look(v)
  <2>0. o.at = "look" /\ UNCHANGED <<jobs, queue, book, callers, list, up>>
    BY <1>2 DEF Look, feed
  <2>1. CASE left
    <3> DEFINE w == [o EXCEPT !.at = "error"]
    <3>1. w \in WatchType /\ w.at = "error" /\ w.waitsForIt = o.waitsForIt
      BY <1>0 DEF WatchType
    <3>2. watch' = [watch EXCEPT ![v] = w]
      BY <1>2, <2>1 DEF Look
    <3> HIDE DEF w
    <3> QED BY <2>0, <3>1, <3>2
  <2>2. CASE ~left /\ RegistrationQueued
    <3>1. watch' = [watch EXCEPT ![v] = Nothing(v)]
      BY <1>2, <2>2 DEF Look
    <3> QED BY <1>n, <2>0, <2>2, <3>1
  <2>3. CASE ~left /\ ~RegistrationQueued
    <3> DEFINE w == [o EXCEPT !.at = "read", !.waitsForIt = FALSE]
    <3>1. w \in WatchType /\ w.at = "read" /\ ~w.waitsForIt
      BY <1>0 DEF WatchType
    <3>2. watch' = [watch EXCEPT ![v] = w]
      BY <1>2, <2>3 DEF Look
    <3> HIDE DEF w
    <3> QED BY <2>0, <2>3, <3>1, <3>2
  <2> QED BY <2>1, <2>2, <2>3
<1>3. CASE WaitAnswered(v)
  <2> DEFINE w == [o EXCEPT !.at = "answered", !.found = unread]
  <2>1. w \in WatchType /\ w.at = "answered" /\ w.found = unread /\ w.waitsForIt = o.waitsForIt
    BY <1>0 DEF WatchType
  <2>2. watch' = [watch EXCEPT ![v] = w] /\ o.at = "read" /\ UNCHANGED <<jobs, queue, book, callers, list, up>>
    BY <1>0, <1>3 DEF WaitAnswered, feed
  <2> HIDE DEF w
  <2> QED BY <2>1, <2>2
<1>4. CASE WaitRead(v)
  <2>0. o.at = "answered" /\ UNCHANGED <<jobs, queue, book, callers, list, up>>
    BY <1>4 DEF WaitRead, feed
  <2>1. CASE LeaveOutMarked(o.found) # <<>>
    <3> DEFINE w == [NoWatch EXCEPT !.at = "item"]
    <3>1. w \in WatchType /\ w.at = "item" /\ ~w.waitsForIt
      BY <1>0 DEF WatchType, NoWatch
    <3>2. watch' = [watch EXCEPT ![v] = w]
      BY <1>4, <2>1 DEF WaitRead
    <3> HIDE DEF w
    <3> QED BY <2>0, <3>1, <3>2
  <2>2. CASE LeaveOutMarked(o.found) = <<>>
    <3> DEFINE w == [Nothing(v) EXCEPT !.found = <<>>]
    <3>1. /\ w \in WatchType /\ w.at \in {"asleep", "error"} /\ w.wakes = o.wakes
          /\ w.waitsForIt = o.waitsForIt
      <4>1. <<>> \in Seq(Items)
        OBVIOUS
      <4> QED BY <1>n, <4>1 DEF WatchType
    <3>2. watch' = [watch EXCEPT ![v] = w]
      BY <1>4, <2>2 DEF WaitRead
    <3> HIDE DEF w
    <3> QED BY <2>0, <2>2, <3>1, <3>2
  <2> QED BY <2>1, <2>2
<1>5. CASE WaitReadFails(v)
  <2> DEFINE w == [o EXCEPT !.at = "error"]
  <2>1. w \in WatchType /\ w.at = "error" /\ w.waitsForIt = o.waitsForIt
    BY <1>0 DEF WatchType
  <2>2. watch' = [watch EXCEPT ![v] = w] /\ o.at = "read" /\ UNCHANGED <<jobs, queue, book, callers, list, up>>
    BY <1>0, <1>5 DEF WaitReadFails
  <2> HIDE DEF w
  <2> QED BY <2>1, <2>2
<1>6. CASE Woken(v)
  <2> DEFINE at == IF left \/ "ended" \in o.wakes THEN "error" ELSE "look"
             waits == o.waitsForIt /\ registration # "ended"
             w == [o EXCEPT !.at = at, !.wakes = {}, !.waitsForIt = waits]
  <2>1. at \in {"look", "error"} /\ waits \in BOOLEAN
    OBVIOUS
  <2>4. o.at = "asleep" /\ UNCHANGED <<jobs, queue, book, callers, list, up>>
    BY <1>6 DEF Woken, feed
  <2>2. watch' = [watch EXCEPT ![v] = w]
    BY <1>6 DEF Woken
  <2>3. w \in WatchType /\ w.at = at /\ w.waitsForIt = waits
    <3> HIDE DEF at, waits
    <3> QED BY <1>0, <2>1 DEF WatchType
  <2> HIDE DEF w
  <2> QED BY <2>1, <2>2, <2>3, <2>4
<1> QED BY <1>1, <1>2, <1>3, <1>4, <1>5, <1>6

\* A wake reaches every wait that is under way and leaves the others alone.
LEMMA WakeHas ==
  ASSUME TypeOK, NEW wake \in {"item", "ended"}, WakeAll(wake)
  PROVE  /\ watch' \in [Waiters -> WatchType]
         /\ \A v \in Waiters :
              /\ watch'[v].at = watch[v].at /\ watch'[v].waitsForIt = watch[v].waitsForIt
              /\ watch'[v].found = watch[v].found
              /\ watch[v].at \in {"look", "read", "answered", "asleep"} => watch'[v].wakes # {}
<1>0. watch \in [Waiters -> WatchType]
  BY DEF TypeOK
<1>1. watch' = [v \in Waiters |->
        IF v \in Watching THEN [watch[v] EXCEPT !.wakes = @ \cup {wake}] ELSE watch[v]]
  BY DEF WakeAll
<1>2. ASSUME NEW v \in Waiters
      PROVE  /\ watch'[v] \in WatchType
             /\ watch'[v].at = watch[v].at /\ watch'[v].waitsForIt = watch[v].waitsForIt
             /\ watch'[v].found = watch[v].found
             /\ watch[v].at \in {"look", "read", "answered", "asleep"} => watch'[v].wakes # {}
  <2>0. watch[v] \in WatchType
    BY <1>0
  <2>1. CASE v \in Watching
    <3> DEFINE all == watch[v].wakes \cup {wake}
    <3>1. all \in SUBSET {"item", "ended"} /\ all # {}
      BY <2>0 DEF WatchType
    <3>2. watch'[v] = [watch[v] EXCEPT !.wakes = all]
      BY <1>1, <2>1
    <3> HIDE DEF all
    <3> QED BY <2>0, <3>1, <3>2 DEF WatchType
  <2>2. CASE v \notin Watching
    BY <1>1, <2>0, <2>2 DEF Watching
  <2> QED BY <2>1, <2>2
<1>3. watch' \in [Waiters -> WatchType]
  <2>1. watch' = [v \in Waiters |-> watch'[v]]
    BY <1>1
  <2> QED BY <1>2, <2>1
<1> QED BY <1>2, <1>3

\* Every step keeps the types.
LEMMA NextPortTypes ==
  ASSUME InboxAssumption, TypeOK, Registered, Lists, Pages, [Next]_vars PROVE TypeOK'
<1>0. MaxItems \in Nat /\ MaxBreaks \in Nat
  BY DEF InboxAssumption
<1> USE DEF TypeOK
<1>w. ASSUME NEW w \in Writes, Enqueued(w) PROVE written' \in [Writes -> Nat]
  BY <1>w DEF Enqueued
<1>1. CASE AgentFor
  <2>1. <<"registration">> \in Writes
    BY DEF Writes
  <2>2. written' \in [Writes -> Nat]
    BY <1>1, <1>w, <2>1 DEF AgentFor
  <2> QED BY <1>1, <2>2 DEF AgentFor, jobs, inbox, calls, feed
<1>2. CASE RegistrationEnds
  BY <1>2 DEF RegistrationEnds, jobs, book, inbox, calls, feed
<1>3. ASSUME NEW readable, ItemStored(readable) PROVE TypeOK'
  <2>1. stored + 1 \in Items /\ stored' \in 0..MaxItems
    BY <1>0, <1>3 DEF ItemStored, Items
  <2>2. unread' \in Seq(Items) /\ ring' \subseteq Items
    BY <1>3, <2>1 DEF ItemStored
  <2>3. deaf' \in [Waiters -> SUBSET Items]
    BY <1>3, <2>1 DEF ItemStored, Unrung
  <2> QED BY <1>3, <2>1, <2>2, <2>3 DEF ItemStored, queue, book, inbox, calls
<1>4. ASSUME NEW readable, FeedBack(readable) PROVE TypeOK'
  <2>1. ring' \subseteq Items /\ ToSet(unread) \subseteq Items
    BY <1>4, SetOf DEF FeedBack
  <2>2. deaf' \in [Waiters -> SUBSET Items]
    BY <1>4, <2>1 DEF FeedBack, Unrung
  <2> QED BY <1>4, <2>1, <2>2 DEF FeedBack, queue, inbox, calls
<1>5. CASE BookLeft
  BY <1>5 DEF BookLeft, jobs, queue, inbox, calls, feed
<1>6. ASSUME NEW i \in Items, MarkerSent(i) PROVE TypeOK'
  <2>1. unread' \in Seq(Items)
    BY <1>6, OnlyHas DEF MarkerSent
  <2> QED BY <1>6, <2>1 DEF MarkerSent, queue, book, inbox, calls, feed
<1>7. ASSUME NEW i \in Items, Rung(i) PROVE TypeOK'
  <2>1. watch' \in [Waiters -> WatchType]
    BY <1>7, WakeHas DEF Rung
  <2> QED BY <1>7, <2>1 DEF Rung, queue, book, inbox, feed
<1>8. ASSUME NEW i \in Items, MarkRead(i) PROVE TypeOK'
  <2>1. <<"marker", i>> \in Writes
    BY DEF Writes
  <2>2. written' \in [Writes -> Nat]
    BY <1>8, <1>w, <2>1 DEF MarkRead
  <2> QED BY <1>8, <2>2 DEF MarkRead, jobs, calls, feed
<1>9. ASSUME NEW error, FeedEnded(error) PROVE TypeOK'
  <2>1. watch' \in [Waiters -> WatchType]
    BY <1>9, WakeHas DEF FeedEnded
  <2>2. breaks' \in 0..MaxBreaks
    BY <1>0, <1>9 DEF FeedEnded, Breaks
  <2>3. kept' \in BOOLEAN /\ up' \in BOOLEAN
    BY <1>9 DEF FeedEnded
  <2> QED BY <1>9, <2>1, <2>2, <2>3 DEF FeedEnded, queue, inbox
<1>10. ASSUME NEW mail \in Mails, Send(mail) PROVE TypeOK'
  <2>1. <<"mail", mail>> \in Writes
    BY DEF Writes
  <2>2. written' \in [Writes -> Nat]
    BY <1>10, <1>w, <2>1 DEF Send
  <2> QED BY <1>10, <2>2 DEF Send, jobs, calls, feed
<1>11. ASSUME NEW v \in Waiters,
              WaitAsked(v) \/ Look(v) \/ WaitAnswered(v) \/ WaitRead(v) \/ WaitReadFails(v) \/ Woken(v)
       PROVE  TypeOK'
  <2>1. PICK w \in WatchType : /\ watch' = [watch EXCEPT ![v] = w]
                               /\ UNCHANGED <<jobs, queue, book, callers, list, up>>
    BY <1>11, WatchMoves
  <2>2. watch' \in [Waiters -> WatchType]
    BY <2>1
  <2>3. breaks' \in 0..MaxBreaks
    BY <1>0, <1>11 DEF WaitAsked, Look, WaitAnswered, WaitRead, WaitReadFails, Woken, Breaks, feed
  <2>4. deaf' \in [Waiters -> SUBSET Items]
    BY <1>11 DEF WaitAsked, Look, WaitAnswered, WaitRead, WaitReadFails, Woken, feed
  <2> QED BY <2>1, <2>2, <2>3, <2>4 DEF jobs, queue, book, inbox
<1>12. ASSUME NEW l \in Listers, ListAsked(l) \/ ListRead(l) \/ ListFails(l) \/ ListGiven(l) PROVE TypeOK'
  <2>1. list[l] \in ListType /\ <<>> \in Seq(Items)
    OBVIOUS
  <2>2. \E r \in ListType : list' = [list EXCEPT ![l] = r]
    <3>1. ASSUME NEW s, NEW fresh \in Seq(Items), NEW page, NEW more, Cuts(l, s, page, more)
          PROVE  WithPage(l, page, more, fresh) \in ListType
      BY <3>1, MovedTypes DEF Cuts
    <3>2. /\ [list[l] EXCEPT !.at = "end"] \in ListType /\ [list[l] EXCEPT !.at = "failed"] \in ListType
          /\ [list[l] EXCEPT !.at = "read"] \in ListType /\ Begun(l) \in ListType
          /\ list[l].at = "convert" => WithGiven(l) \in ListType
      BY MovedTypes
    <3> QED BY <1>12, <2>1, <3>1, <3>2, ListMoves
  <2>3. list' \in [Listers -> ListType]
    BY <2>2
  <2>4. snapshot' \in Seq(Items)
    <3>1. list[l].fresh \in Seq(Items)
      BY <2>1 DEF ListType
    <3> QED BY <1>12, <2>1, <3>1, ListMoves
  <2>5. listed' \subseteq Items /\ breaks' \in 0..MaxBreaks
    <3>1. ToSet(list[l].rest) \subseteq Items
      <4>1. list[l].rest \in Seq(Items)
        BY <2>1 DEF ListType
      <4> QED BY <4>1, SetOf
    <3>2. listed' \in {listed, listed \cup ToSet(list[l].rest)}
      BY <1>12 DEF ListAsked, ListRead, ListFails, ListGiven, book, inbox
    <3>3. breaks' = breaks \/ (breaks < MaxBreaks /\ breaks' = breaks + 1)
      BY <1>12 DEF ListAsked, ListRead, ListFails, ListGiven, Breaks, feed
    <3>4. breaks' \in 0..MaxBreaks
      BY <1>0, <3>3
    <3> QED BY <3>1, <3>2, <3>4
  <2>6. UNCHANGED <<jobs, queue, booked, restored, kept, marked, taken, left, callers, watch, up, deaf>>
    BY <1>12 DEF ListAsked, ListRead, ListFails, ListGiven, feed, book, inbox
  <2> QED BY <2>3, <2>4, <2>5, <2>6 DEF jobs, queue
<1>13. CASE UNCHANGED vars
  BY <1>13 DEF vars, jobs, queue, book, inbox, calls, feed
<1> QED
  BY <1>1, <1>2, <1>3, <1>4, <1>5, <1>6, <1>7, <1>8, <1>9, <1>10, <1>11, <1>12, <1>13 DEF Next

-----------------------------------------------------------------------------
(* Waits                                                                   *)

\* What the registration says of the calls is kept.
LEMMA NextRegistered ==
  ASSUME InboxAssumption, TypeOK, Registered, Lists, Pages, [Next]_vars PROVE Registered'
<1> DEFINE Waiting(v) ==
             /\ watch[v].at # "none" => booked
             /\ watch[v].waitsForIt => ~restored /\ registration # "none"
             /\ watch[v].at \in {"look", "asleep"} /\ RegistrationQueued => watch[v].waitsForIt
             /\ watch[v].at \in {"read", "answered"} => ~RegistrationQueued
           Listing(l) == list[l].at \in {"read", "convert", "page"} => booked /\ ~RegistrationQueued
<1>0. /\ booked /\ ~restored => registration # "none"
      /\ restored => booked
      /\ \A v \in Waiters : Waiting(v)
      /\ \A l \in Listers : Listing(l)
  BY DEF Registered
<1>t. list \in [Listers -> ListType] /\ watch \in [Waiters -> WatchType]
  BY DEF TypeOK
<1>q. RegistrationQueued' = (~restored' /\ registration' = "queued") /\ RegistrationQueued = (~restored /\ registration = "queued")
  BY DEF RegistrationQueued
<1>r. ASSUME /\ booked' /\ ~restored' => registration' # "none"
             /\ restored' => booked',
             \A v \in Waiters : Waiting(v)', \A l \in Listers : Listing(l)'
      PROVE  Registered'
  BY <1>r DEF Registered
<1>1. CASE AgentFor
  <2>1. /\ UNCHANGED <<restored, list, watch>> /\ ~booked /\ booked' /\ registration' = "queued" /\ ~restored
    BY <1>0, <1>1 DEF AgentFor, calls
  <2>2. \A v \in Waiters : watch[v].at = "none"
    BY <1>0, <2>1
  <2>3. \A l \in Listers : list[l].at \notin {"read", "convert", "page"}
    BY <1>0, <2>1
  <2> QED BY <1>0, <1>r, <2>1, <2>2, <2>3
<1>2. CASE RegistrationEnds
  <2>1. UNCHANGED <<booked, restored, list, watch>> /\ registration = "queued" /\ registration' = "ended"
    BY <1>2 DEF RegistrationEnds, book, calls
  <2> QED BY <1>0, <1>q, <1>r, <2>1
<1>3. CASE \/ BookLeft \/ UNCHANGED vars
           \/ \E readable : ItemStored(readable) \/ FeedBack(readable)
           \/ \E i \in Items : MarkerSent(i) \/ MarkRead(i)
           \/ \E mail \in Mails : Send(mail)
  <2>1. UNCHANGED <<booked, restored, registration, list, watch>>
    BY <1>3 DEF ItemStored, FeedBack, BookLeft, MarkerSent, MarkRead, Send, vars, book, queue, calls
  <2> QED BY <1>0, <1>q, <1>r, <2>1
<1>4. CASE (\E i \in Items : Rung(i)) \/ (\E error : FeedEnded(error))
  <2>1. UNCHANGED <<booked, restored, registration, list>> /\ (WakeAll("item") \/ WakeAll("ended"))
    BY <1>4 DEF Rung, FeedEnded, queue, book
  <2>2. \A v \in Waiters : watch'[v].at = watch[v].at /\ watch'[v].waitsForIt = watch[v].waitsForIt
    BY <2>1, WakeHas
  <2>3. \A v \in Waiters : Waiting(v)'
    BY <1>0, <1>q, <2>1, <2>2
  <2> QED BY <1>0, <1>q, <1>r, <2>1, <2>3
<1>5. ASSUME NEW v \in Waiters,
             WaitAsked(v) \/ Look(v) \/ WaitAnswered(v) \/ WaitRead(v) \/ WaitReadFails(v) \/ Woken(v)
      PROVE  Registered'
  <2>1. PICK w \in WatchType :
           /\ watch' = [watch EXCEPT ![v] = w]
           /\ UNCHANGED <<jobs, queue, book, callers, list, up>>
           /\ \/ watch[v].at = "none" /\ booked /\ w.at = "look" /\ w.waitsForIt = RegistrationQueued
              \/ watch[v].at = "look" /\ w.waitsForIt = watch[v].waitsForIt /\ w.at \in {"error", "asleep"}
              \/ watch[v].at = "look" /\ w.at = "read" /\ ~w.waitsForIt /\ ~RegistrationQueued
              \/ watch[v].at = "read" /\ w.at = "answered" /\ w.waitsForIt = watch[v].waitsForIt
              \/ watch[v].at = "answered" /\ w.at = "item" /\ ~w.waitsForIt
              \/ watch[v].at = "answered" /\ w.at \in {"asleep", "error"} /\ w.waitsForIt = watch[v].waitsForIt
              \/ watch[v].at = "read" /\ w.at = "error" /\ w.waitsForIt = watch[v].waitsForIt
              \/ /\ watch[v].at = "asleep" /\ w.at \in {"look", "error"}
                 /\ w.waitsForIt = (watch[v].waitsForIt /\ registration # "ended")
    BY <1>5, WatchMoves
  <2>2. UNCHANGED <<booked, restored, registration, list>>
    BY <2>1 DEF queue, book
  <2>3. \A u \in Waiters : watch'[u] = IF u = v THEN w ELSE watch[u]
    BY <1>t, <2>1
  <2>4. /\ w.at # "none" => booked
        /\ w.waitsForIt => ~restored /\ registration # "none"
        /\ w.at \in {"look", "asleep"} /\ RegistrationQueued => w.waitsForIt
        /\ w.at \in {"read", "answered"} => ~RegistrationQueued
    BY <1>0, <1>q, <2>1
  <2>5. \A u \in Waiters : Waiting(u)'
    BY <1>0, <1>q, <2>2, <2>3, <2>4
  <2> QED BY <1>0, <1>q, <1>r, <2>2, <2>5
<1>6. ASSUME NEW l \in Listers, ListAsked(l) \/ ListRead(l) \/ ListFails(l) \/ ListGiven(l) PROVE Registered'
  <2>1. UNCHANGED <<booked, restored, registration, watch>>
    BY <1>6 DEF ListAsked, ListRead, ListFails, ListGiven, queue, book
  <2>2. \A k \in Listers : k # l => list'[k] = list[k]
    BY <1>6, <1>t, ListMoves
  <2>3. booked
    BY <1>0, <1>6 DEF ListAsked, ListRead, ListFails, ListGiven, HoldsInbox
  <2>4. CASE RegistrationQueued
    <3>1. ListAsked(l)
      BY <1>0, <1>6, <2>4 DEF ListRead, ListFails, ListGiven
    <3>2. list' = [list EXCEPT ![l].at = "end"]
      BY <2>4, <3>1 DEF ListAsked
    <3>3. list'[l].at = "end"
      BY <1>t, <3>2 DEF ListType
    <3> QED BY <1>0, <1>q, <1>r, <2>1, <2>2, <3>3
  <2>5. CASE ~RegistrationQueued
    <3>1. \A k \in Listers : Listing(k)'
      BY <1>q, <2>1, <2>3, <2>5
    <3> QED BY <1>0, <1>q, <1>r, <2>1, <3>1
  <2> QED BY <2>4, <2>5
<1> QED BY <1>1, <1>2, <1>3, <1>4, <1>5, <1>6 DEF Next

\* A wait that is about to sleep misses nothing.
LEMMA NextSeen ==
  ASSUME InboxAssumption, TypeOK, Registered, Seen, Lists, Pages, [Next]_vars PROVE Seen'
<1> DEFINE Sees(v) ==
             watch[v].wakes = {} /\ up =>
               /\ watch[v].at = "asleep" /\ ~watch[v].waitsForIt => ToSet(unread) \ marked \subseteq ring \cup deaf[v]
               /\ watch[v].at = "answered" => ToSet(unread) \ marked \subseteq ring \cup deaf[v] \cup ToSet(watch[v].found)
<1>0. \A v \in Waiters : Sees(v)
  BY DEF Seen
<1>t. /\ watch \in [Waiters -> WatchType] /\ unread \in Seq(Items) /\ stored \in 0..MaxItems /\ MaxItems \in Nat
  BY DEF TypeOK, InboxAssumption
<1>s. ASSUME \A v \in Waiters : Sees(v)' PROVE Seen'
  BY <1>s DEF Seen
<1>u. ASSUME UNCHANGED <<watch, up, ring, deaf>>, ToSet(unread') \ marked' \subseteq ToSet(unread) \ marked PROVE Seen'
  BY <1>0, <1>s, <1>u
<1>1. CASE \/ AgentFor \/ RegistrationEnds \/ BookLeft \/ UNCHANGED vars
           \/ \E mail \in Mails : Send(mail)
           \/ \E l \in Listers : ListAsked(l) \/ ListRead(l) \/ ListFails(l) \/ ListGiven(l)
  <2>1. UNCHANGED <<watch, up, ring, deaf, unread, marked>>
    BY <1>1 DEF AgentFor, RegistrationEnds, BookLeft, Send, ListAsked, ListRead, ListFails, ListGiven,
                vars, jobs, book, inbox, calls, feed
  <2> QED BY <1>u, <2>1
<1>2. ASSUME NEW readable, ItemStored(readable) PROVE Seen'
  <2>1. /\ UNCHANGED <<watch, up, marked>>
        /\ unread' = Append(unread, stored + 1)
        /\ ring' = IF up /\ readable THEN ring \cup {stored + 1} ELSE ring
        /\ \A v \in Waiters : deaf'[v] = deaf[v] \cup (IF up /\ ~readable THEN {stored + 1} ELSE {})
    BY <1>2 DEF ItemStored, Unrung, book, inbox, calls
  <2>2. stored + 1 \in Items
    BY <1>2, <1>t DEF ItemStored, Items
  <2>3. ToSet(unread') = ToSet(unread) \cup {stored + 1}
    BY <1>t, <2>1, <2>2, SetOf
  <2>4. ASSUME NEW v \in Waiters PROVE Sees(v)'
    BY <1>0, <2>1, <2>3
  <2> QED BY <1>s, <2>4
<1>3. ASSUME NEW readable, FeedBack(readable) PROVE Seen'
  <2>1. /\ UNCHANGED <<watch, unread, marked>> /\ ring' = readable
        /\ \A v \in Waiters : deaf'[v] = deaf[v] \cup (ToSet(unread) \ readable)
    BY <1>3 DEF FeedBack, Unrung, inbox, calls
  <2> QED BY <1>s, <2>1
<1>4. ASSUME NEW i \in Items, MarkerSent(i) PROVE Seen'
  <2>1. UNCHANGED <<watch, up, ring, deaf, marked>> /\ unread' = Only(unread, Items \ {i})
    BY <1>4 DEF MarkerSent, book, inbox, calls, feed
  <2>2. ToSet(unread') \subseteq ToSet(unread)
    BY <1>t, <2>1, OnlyHas
  <2> QED BY <1>u, <2>1, <2>2
<1>5. ASSUME NEW i \in Items, MarkRead(i) PROVE Seen'
  <2>1. UNCHANGED <<watch, up, ring, deaf, unread>> /\ marked' = marked \cup {i}
    BY <1>5 DEF MarkRead, jobs, calls, feed
  <2> QED BY <1>u, <2>1
<1>6. ASSUME NEW i \in Items, Rung(i) PROVE Seen'
  <2>1. \A v \in Waiters : /\ watch'[v].at = watch[v].at
                           /\ watch[v].at \in {"look", "read", "answered", "asleep"} => watch'[v].wakes # {}
    BY <1>6, WakeHas DEF Rung
  <2> QED BY <1>s, <2>1
<1>7. ASSUME NEW error, FeedEnded(error) PROVE Seen'
  <2>1. ~up'
    BY <1>7 DEF FeedEnded
  <2> QED BY <1>s, <2>1
<1>8. ASSUME NEW v \in Waiters,
             WaitAsked(v) \/ Look(v) \/ WaitAnswered(v) \/ WaitRead(v) \/ WaitReadFails(v) \/ Woken(v)
      PROVE  Seen'
  <2>1. PICK w \in WatchType :
           /\ watch' = [watch EXCEPT ![v] = w]
           /\ UNCHANGED <<jobs, queue, book, callers, list, up>>
           /\ \/ w.at \in {"look", "error", "read", "item"}
              \/ /\ watch[v].at = "look" /\ w.waitsForIt = watch[v].waitsForIt
                 /\ w.at = "asleep" /\ RegistrationQueued
              \/ w.at = "answered" /\ w.found = unread
              \/ /\ watch[v].at = "answered" /\ w.at = "asleep" /\ w.wakes = watch[v].wakes
                 /\ LeaveOutMarked(watch[v].found) = <<>>
    BY <1>8, WatchMoves
  <2>2. UNCHANGED <<unread, ring, marked, up>>
    BY <2>1 DEF jobs, book, inbox
  <2>3. \A u \in Waiters : watch'[u] = IF u = v THEN w ELSE watch[u]
    BY <1>t, <2>1
  <2>d. \A u \in Waiters : deaf'[u] = deaf[u] \/ (u = v /\ w.at = "answered")
    <3>1. deaf \in [Waiters -> SUBSET Items]
      BY DEF TypeOK
    <3>2. CASE WaitAnswered(v)
      <4>1. w = [watch[v] EXCEPT !.at = "answered", !.found = unread]
        BY <1>t, <2>1, <3>2 DEF WaitAnswered
      <4>2. w.at = "answered" /\ deaf' = [deaf EXCEPT ![v] = {}]
        BY <1>t, <3>2, <4>1 DEF WaitAnswered, WatchType
      <4> QED BY <3>1, <4>2
    <3>3. CASE ~WaitAnswered(v)
      BY <1>8, <3>3 DEF WaitAsked, Look, WaitRead, WaitReadFails, Woken, feed
    <3> QED BY <3>2, <3>3
  <2>4. w.wakes = {} /\ up =>
          /\ w.at = "asleep" /\ ~w.waitsForIt => ToSet(unread) \ marked \subseteq ring \cup deaf'[v]
          /\ w.at = "answered" => ToSet(unread) \ marked \subseteq ring \cup deaf'[v] \cup ToSet(w.found)
    <3>1. CASE w.at \in {"look", "error", "read", "item"}
      BY <3>1
    <3>2. CASE watch[v].at = "look" /\ w.waitsForIt = watch[v].waitsForIt /\ w.at = "asleep" /\ RegistrationQueued
      BY <3>2 DEF Registered
    <3>3. CASE w.at = "answered" /\ w.found = unread
      BY <3>3
    <3>4. CASE /\ watch[v].at = "answered" /\ w.at = "asleep" /\ w.wakes = watch[v].wakes
               /\ LeaveOutMarked(watch[v].found) = <<>>
      <4>1. watch[v].found \in Seq(Items) /\ ToSet(<<>>) = {}
        BY <1>t DEF WatchType, ToSet
      <4>2. \A x : x \in ToSet(watch[v].found) => x \in marked
        BY <3>4, <4>1, UnmarkedHas
      <4> QED BY <1>0, <2>d, <3>4, <4>2
    <3> QED BY <2>1, <3>1, <3>2, <3>3, <3>4
  <2>5. ASSUME NEW u \in Waiters PROVE Sees(u)'
    BY <1>0, <2>2, <2>3, <2>4, <2>d
  <2> QED BY <1>s, <2>5
<1> QED BY <1>1, <1>2, <1>3, <1>4, <1>5, <1>6, <1>7, <1>8 DEF Next

-----------------------------------------------------------------------------
(* Listings                                                                *)

\* What is true of a list or of a listing stays true when more is stored and marked.
LEMMA Grown ==
  ASSUME stored \in Nat, stored' \in Nat, stored <= stored', marked \subseteq marked', MaxItems \in Nat
  PROVE  /\ \A s \in Seq(Items) : Sound(s, stored, marked) => Sound(s, stored', marked')
         /\ \A r \in ListType : Given(r, stored, marked) => Given(r, stored', marked')
         /\ \A r \in ListType : Paged(r, marked) => Paged(r, marked')
<1>1. ASSUME NEW s \in Seq(Items), Sound(s, stored, marked) PROVE Sound(s, stored', marked')
  <2>1. ToSet(s) \subseteq Items
    BY SetOf
  <2>2. \A j \in ToSet(s) : j <= stored'
    BY <1>1, <2>1 DEF Sound, Items
  <2> QED BY <1>1, <2>2 DEF Sound
<1>2. ASSUME NEW r \in ListType, Given(r, stored, marked) PROVE Given(r, stored', marked')
  <2>1. r.due \subseteq Items
    BY DEF ListType
  <2>2. \A i \in r.due : i <= stored'
    BY <1>2, <2>1 DEF Given, Items
  <2>3. r.due \ marked' \subseteq r.due \ marked /\ r.out \subseteq marked'
    BY <1>2 DEF Given
  <2> QED BY <1>2, <2>2, <2>3 DEF Given
<1>3. ASSUME NEW r \in ListType, Paged(r, marked) PROVE Paged(r, marked')
  <2>1. r.due \ marked' \subseteq r.due \ marked
    OBVIOUS
  <2> QED BY <1>3, <2>1 DEF Paged
<1> QED BY <1>1, <1>2, <1>3

\* The steps that change what Jobs holds or what is marked, and the ones that do not.
LEMMA PortSteps ==
  ASSUME InboxAssumption, TypeOK, Lists, [Next]_vars
  PROVE  \/ \E l \in Listers : ListAsked(l) \/ ListRead(l) \/ ListFails(l) \/ ListGiven(l)
         \/ /\ UNCHANGED <<list, snapshot>> /\ stored' \in Nat /\ stored <= stored' /\ marked \subseteq marked'
            /\ \/ /\ UNCHANGED <<unread, stored, marked>>
                  /\ \A i \in Items : written'[<<"marker", i>>] = written[<<"marker", i>>]
               \/ (\E readable : ItemStored(readable)) /\ UNCHANGED <<marked, written>>
               \/ \E i \in Items : MarkerSent(i) /\ UNCHANGED <<stored, marked, written>>
               \/ \E i \in Items : /\ UNCHANGED <<unread, stored>> /\ marked' = marked \cup {i}
                                   /\ \A j \in Items : j # i => written'[<<"marker", j>>] = written[<<"marker", j>>]
<1>t. /\ stored \in Nat /\ written \in [Writes -> Nat]
      /\ \A i \in Items : <<"marker", i>> \in Writes
  BY DEF TypeOK, Writes, InboxAssumption
<1>w. ASSUME NEW w \in Writes, Enqueued(w), NEW x \in Writes, x # w PROVE written'[x] = written[x]
  BY <1>t, <1>w DEF Enqueued
<1>1. CASE AgentFor
  <2>1. UNCHANGED <<list, snapshot, unread, stored, marked>> /\ Enqueued(<<"registration">>)
    BY <1>1 DEF AgentFor, jobs, inbox, calls
  <2>2. <<"registration">> \in Writes /\ \A i \in Items : <<"marker", i>> # <<"registration">>
    BY DEF Writes
  <2>3. \A i \in Items : written'[<<"marker", i>>] = written[<<"marker", i>>]
    BY <1>t, <1>w, <2>1, <2>2
  <2> QED BY <1>t, <2>1, <2>3
<1>2. ASSUME NEW mail \in Mails, Send(mail)
      PROVE  /\ UNCHANGED <<list, snapshot, unread, stored, marked>>
             /\ \A i \in Items : written'[<<"marker", i>>] = written[<<"marker", i>>]
  <2>1. UNCHANGED <<list, snapshot, unread, stored, marked>> /\ Enqueued(<<"mail", mail>>)
    BY <1>2 DEF Send, jobs, inbox, calls
  <2>2. <<"mail", mail>> \in Writes /\ \A i \in Items : <<"marker", i>> # <<"mail", mail>>
    BY DEF Writes
  <2> QED BY <1>t, <1>w, <2>1, <2>2
<1>3. CASE RegistrationEnds \/ (\E readable : FeedBack(readable)) \/ BookLeft \/ UNCHANGED vars
  <2>1. UNCHANGED <<list, snapshot, unread, stored, marked, written>>
    BY <1>3 DEF RegistrationEnds, FeedBack, BookLeft, vars, jobs, queue, book, inbox, calls
  <2> QED BY <1>t, <2>1
<1>4. ASSUME NEW i \in Items, Rung(i) PROVE UNCHANGED <<list, snapshot, unread, stored, marked, written>>
  BY <1>4 DEF Rung, queue, book, inbox
<1>5. ASSUME NEW error, FeedEnded(error) PROVE UNCHANGED <<list, snapshot, unread, stored, marked, written>>
  BY <1>5 DEF FeedEnded, queue, inbox
<1>6. ASSUME NEW v \in Waiters,
             WaitAsked(v) \/ Look(v) \/ WaitAnswered(v) \/ WaitRead(v) \/ WaitReadFails(v) \/ Woken(v)
      PROVE  UNCHANGED <<list, snapshot, unread, stored, marked, written>>
  BY <1>6 DEF WaitAsked, Look, WaitAnswered, WaitRead, WaitReadFails, Woken, jobs, queue, book, inbox
<1>7. CASE \E readable : ItemStored(readable)
  <2>1. UNCHANGED <<list, snapshot, marked, written>> /\ stored' = stored + 1
    BY <1>7 DEF ItemStored, queue, book, inbox, calls
  <2>2. stored' \in Nat /\ stored <= stored'
    BY <1>t, <2>1
  <2> QED BY <1>7, <2>1, <2>2
<1>8. ASSUME NEW i \in Items, MarkerSent(i) PROVE UNCHANGED <<list, snapshot, stored, marked, written>>
  BY <1>8 DEF MarkerSent, queue, book, inbox, calls
<1>9. ASSUME NEW i \in Items, MarkRead(i)
      PROVE  /\ UNCHANGED <<list, snapshot, unread, stored>> /\ marked' = marked \cup {i}
             /\ \A j \in Items : j # i => written'[<<"marker", j>>] = written[<<"marker", j>>]
  <2>1. UNCHANGED <<list, snapshot, unread, stored>> /\ marked' = marked \cup {i} /\ Enqueued(<<"marker", i>>)
    BY <1>9 DEF MarkRead, jobs, calls
  <2>2. \A j \in Items : j # i => <<"marker", j>> # <<"marker", i>>
    OBVIOUS
  <2> QED BY <1>t, <1>w, <2>1, <2>2
<1>10. CASE \E mail \in Mails : Send(mail)
  BY <1>t, <1>2, <1>10
<1>11. CASE \E i \in Items : Rung(i)
  BY <1>t, <1>4, <1>11
<1>12. CASE \E error \in {"infra", "lost"} : FeedEnded(error)
  BY <1>t, <1>5, <1>12
<1>13. CASE \E v \in Waiters : WaitAsked(v) \/ Look(v) \/ WaitAnswered(v) \/ WaitRead(v) \/ WaitReadFails(v) \/ Woken(v)
  BY <1>t, <1>6, <1>13
<1>14. CASE \E i \in Items : MarkerSent(i)
  BY <1>t, <1>8, <1>14
<1>15. CASE \E i \in Items : MarkRead(i)
  BY <1>t, <1>9, <1>15
<1> QED BY <1>1, <1>3, <1>7, <1>10, <1>11, <1>12, <1>13, <1>14, <1>15 DEF Next

\* The unread items are a sound list.
LEMMA UnreadSound == ASSUME InboxAssumption, TypeOK, Lists PROVE Sound(unread, stored, marked)
<1>0. unread \in Seq(Items) /\ stored \in 0..MaxItems /\ MaxItems \in Nat
  BY DEF TypeOK, InboxAssumption
<1>1. ToSet(unread) \subseteq Items /\ stored \in Nat /\ Items \subseteq Nat
  BY <1>0, SetOf DEF Items
<1>2. ASSUME NEW j \in ToSet(unread), NEW i \in Items, i < j PROVE i <= stored
  <2>1. i \in Nat /\ j \in Nat /\ j <= stored
    BY <1>1 DEF Lists
  <2> QED BY <1>1, <1>2, <2>1
<1> QED BY <1>2 DEF Lists, Sound

\* Jobs gives sound lists, and an item is gone only when it was marked.
LEMMA NextLists ==
  ASSUME InboxAssumption, TypeOK, TypeOK', Registered, Lists, Pages, [Next]_vars PROVE Lists'
<1>t. /\ stored \in Nat /\ stored' \in Nat /\ MaxItems \in Nat /\ Items \subseteq Nat
      /\ unread \in Seq(Items) /\ snapshot \in Seq(Items)
      /\ list \in [Listers -> ListType] /\ \A l \in Listers : list[l].fresh \in Seq(Items)
      /\ ToSet(unread) \subseteq Items /\ written \in [Writes -> Nat] /\ written' \in [Writes -> Nat]
  <2>1. /\ stored \in Nat /\ stored' \in Nat /\ MaxItems \in Nat /\ Items \subseteq Nat
    BY DEF TypeOK, InboxAssumption, Items
  <2>2. /\ unread \in Seq(Items) /\ snapshot \in Seq(Items) /\ list \in [Listers -> ListType]
        /\ written \in [Writes -> Nat] /\ written' \in [Writes -> Nat]
    BY DEF TypeOK
  <2>3. \A l \in Listers : list[l].fresh \in Seq(Items)
    BY <2>2 DEF ListType
  <2> QED BY <2>1, <2>2, <2>3, SetOf
<1>1. ASSUME NEW l \in Listers, ListAsked(l) \/ ListRead(l) \/ ListFails(l) \/ ListGiven(l) PROVE Lists'
  <2>1. UNCHANGED <<unread, stored, written, marked>>
    BY <1>1, ListMoves
  <2>2. Ascends(<<>>) /\ Sound(<<>>, stored, marked)
    BY DEF Sound, Ascends, ToSet
  <2>3. Sound(unread, stored, marked)
    BY UnreadSound
  <2>4. \A k \in Listers : list'[k].fresh \in {list[k].fresh, <<>>, unread}
    <3>0. list[l] \in ListType
      BY <1>t
    <3>1. /\ [list[l] EXCEPT !.at = "end"].fresh = list[l].fresh
          /\ [list[l] EXCEPT !.at = "failed"].fresh = list[l].fresh
          /\ [list[l] EXCEPT !.at = "read"].fresh = list[l].fresh
          /\ Begun(l).fresh = list[l].fresh
          /\ WithGiven(l).fresh = <<>>
      BY <3>0 DEF Begun, WithGiven, ListType
    <3>2. \A page, more, fresh : WithPage(l, page, more, fresh).fresh = fresh
      BY <3>0 DEF WithPage, ListType
    <3>3. PICK r : list' = [list EXCEPT ![l] = r] /\ r.fresh \in {list[l].fresh, <<>>, unread}
      <4>1. ASSUME NEW page, NEW more, NEW fresh \in {<<>>, unread},
                   list' = [list EXCEPT ![l] = WithPage(l, page, more, fresh)]
            PROVE  \E r : list' = [list EXCEPT ![l] = r] /\ r.fresh \in {list[l].fresh, <<>>, unread}
        <5>1. WithPage(l, page, more, fresh).fresh \in {list[l].fresh, <<>>, unread}
          BY <3>2
        <5> QED BY <4>1, <5>1
      <4>2. ASSUME NEW q \in {[list[l] EXCEPT !.at = "end"], [list[l] EXCEPT !.at = "failed"],
                              [list[l] EXCEPT !.at = "read"], Begun(l), WithGiven(l)},
                   list' = [list EXCEPT ![l] = q]
            PROVE  \E r : list' = [list EXCEPT ![l] = r] /\ r.fresh \in {list[l].fresh, <<>>, unread}
        BY <3>1, <4>2
      <4> QED BY <1>1, <4>1, <4>2, ListMoves, Zenon
    <3>4. \A k \in Listers : list'[k] = IF k = l THEN r ELSE list[k]
      BY <1>t, <3>3
    <3> QED BY <3>3, <3>4
  <2>5. Sound(snapshot', stored, marked)
    <3>1. Sound(snapshot, stored, marked) /\ Sound(list[l].fresh, stored, marked)
      BY DEF Lists
    <3>2. snapshot' \in {snapshot, <<>>, list[l].fresh}
      BY <1>1, ListMoves
    <3> QED BY <2>2, <3>1, <3>2
  <2>6. \A k \in Listers : Sound(list'[k].fresh, stored, marked)
    BY <2>2, <2>3, <2>4 DEF Lists
  <2> QED BY <2>1, <2>5, <2>6 DEF Lists
<1>2. CASE UNCHANGED <<list, snapshot>> /\ stored' \in Nat /\ stored <= stored' /\ marked \subseteq marked'
  <2>1. Sound(snapshot', stored', marked') /\ \A l \in Listers : Sound(list'[l].fresh, stored', marked')
    BY <1>2, <1>t, Grown DEF Lists
  <2>r. ASSUME /\ Ascends(unread') /\ \A j \in ToSet(unread') : j <= stored',
               \A i \in Items : i <= stored' /\ i \notin ToSet(unread') => i \in marked',
               \A i \in Items : written'[<<"marker", i>>] > 0 => i \in marked'
        PROVE  Lists'
    BY <2>1, <2>r DEF Lists
  <2>2. CASE /\ UNCHANGED <<unread, stored, marked>>
             /\ \A i \in Items : written'[<<"marker", i>>] = written[<<"marker", i>>]
    BY <2>r, <2>2 DEF Lists
  <2>3. CASE (\E readable : ItemStored(readable)) /\ UNCHANGED <<marked, written>>
    <3>1. unread' = Append(unread, stored + 1) /\ stored' = stored + 1 /\ stored < MaxItems
      BY <2>3 DEF ItemStored
    <3>2. stored + 1 \in Items
      BY <1>t, <3>1 DEF Items
    <3>3. ToSet(unread') = ToSet(unread) \cup {stored + 1}
      BY <1>t, <3>1, <3>2, SetOf
    <3>4. ASSUME NEW j \in ToSet(unread') PROVE j <= stored'
      <4>1. CASE j = stored + 1
        BY <1>t, <3>1, <4>1
      <4>2. CASE j \in ToSet(unread)
        <5>1. j \in Nat /\ j <= stored
          BY <1>t, <4>2 DEF Lists
        <5> QED BY <1>t, <3>1, <5>1
      <4> QED BY <3>3, <4>1, <4>2
    <3>5. Ascends(unread')
      <4>1. /\ DOMAIN unread' = 1..(Len(unread) + 1) /\ DOMAIN unread = 1..Len(unread) /\ Len(unread) \in Nat
            /\ unread'[Len(unread) + 1] = stored + 1
            /\ \A k \in 1..Len(unread) : unread'[k] = unread[k]
        BY <1>t, <3>1, <3>2
      <4> SUFFICES ASSUME NEW i \in 1..(Len(unread) + 1), NEW j \in 1..(Len(unread) + 1), i < j
                   PROVE  unread'[i] < unread'[j]
        BY <4>1 DEF Ascends
      <4>2. i \in 1..Len(unread)
        BY <4>1
      <4>3. CASE j = Len(unread) + 1
        <5>1. unread[i] \in ToSet(unread) /\ unread[i] \in Nat /\ unread[i] <= stored
          BY <1>t, <4>1, <4>2 DEF ToSet, Lists
        <5> QED BY <1>t, <4>1, <4>2, <4>3, <5>1
      <4>4. CASE j # Len(unread) + 1
        <5>1. j \in 1..Len(unread)
          BY <4>1, <4>4
        <5>2. unread[i] < unread[j]
          BY <4>1, <4>2, <5>1 DEF Lists, Ascends
        <5> QED BY <4>1, <4>2, <5>1, <5>2
      <4> QED BY <4>3, <4>4
    <3>6. ASSUME NEW i \in Items, i <= stored', i \notin ToSet(unread') PROVE i \in marked'
      <4>1. i <= stored
        BY <1>t, <3>1, <3>3, <3>6
      <4> QED BY <2>3, <3>3, <3>6, <4>1 DEF Lists
    <3>7. \A i \in Items : written'[<<"marker", i>>] > 0 => i \in marked'
      BY <2>3 DEF Lists
    <3> QED BY <2>r, <3>4, <3>5, <3>6, <3>7
  <2>4. ASSUME NEW i \in Items, MarkerSent(i), UNCHANGED <<stored, marked, written>> PROVE Lists'
    <3>1. unread' = Only(unread, Items \ {i}) /\ written[<<"marker", i>>] > 0
      BY <2>4 DEF MarkerSent
    <3>2. i \in marked
      BY <3>1 DEF Lists
    <3>3. /\ Ascends(unread')
          /\ \A x : x \in ToSet(unread') <=> x \in ToSet(unread) /\ x \in Items \ {i}
      BY <1>t, <3>1, OnlyHas DEF Lists
    <3> QED BY <2>r, <2>4, <3>2, <3>3 DEF Lists
  <2>5. ASSUME NEW i \in Items, UNCHANGED <<unread, stored>>, marked' = marked \cup {i},
               \A j \in Items : j # i => written'[<<"marker", j>>] = written[<<"marker", j>>]
        PROVE  Lists'
    BY <2>r, <2>5 DEF Lists
  <2> QED BY <1>1, <2>2, <2>3, <2>4, <2>5, PortSteps
<1> QED BY <1>1, <1>2, PortSteps

\* A listing that takes its next page from a sound list.
LEMMA PagedKept ==
  ASSUME InboxAssumption, TypeOK, NEW l \in Listers, NEW s \in Seq(Items), Sound(s, stored, marked),
         Given(list[l], stored, marked), NEW page, NEW more, Cuts(l, s, page, more),
         NEW fresh \in Seq(Items), fresh = <<>> => list[l].after # 0 \/ s = <<>>,
         ~list[l].behind => list[l].due \ marked \subseteq ToSet(s)
  PROVE  LET r == WithPage(l, page, more, fresh) IN Given(r, stored, marked) /\ Paged(r, marked)
<1> DEFINE r == WithPage(l, page, more, fresh)
           o == list[l]
<1>0. /\ o \in ListType /\ o.due \subseteq Items /\ o.after \in 0..MaxItems /\ MaxItems \in Nat /\ Items \subseteq Nat
      /\ ToSet(s) \subseteq Items
  <2>1. o \in ListType
    BY DEF TypeOK
  <2>2. o.due \subseteq Items /\ o.after \in 0..MaxItems
    BY <2>1 DEF ListType
  <2>3. MaxItems \in Nat /\ Items \subseteq Nat
    BY DEF InboxAssumption, Items
  <2> QED BY <2>1, <2>2, <2>3, SetOf
<1>1. /\ r.at = "convert" /\ r.fresh = fresh /\ r.rest = page /\ r.more = more
      /\ r.after = o.after /\ r.given = o.given /\ r.due = o.due /\ r.out = o.out /\ r.behind = o.behind
  BY <1>0 DEF WithPage, ListType
<1> HIDE DEF r, o
<1>2. Given(r, stored, marked)
  <2>1. \A x \in o.out : x \notin ToSet(page)
    BY DEF Given, Cuts, o
  <2> QED BY <1>1, <2>1 DEF Given, o
<1>3. more => page # <<>> /\ (fresh = <<>> => o.after # 0)
  <2>1. ASSUME more, s = <<>> PROVE FALSE
    <3>1. ToSet(s) = {}
      BY <2>1 DEF ToSet
    <3>2. page # <<>> /\ page \in Seq(Items)
      BY <2>1 DEF Cuts
    <3>3. Head(page) \in ToSet(page)
      BY <3>2, SetOf
    <3> QED BY <3>1, <3>3 DEF Cuts
  <2> QED BY <2>1 DEF Cuts, o
<1>4. ASSUME NEW i \in o.due \ marked, (\E x \in ToSet(page) : i <= x) \/ (~more /\ ~o.behind)
      PROVE  i \in ToSet(o.given) \/ i \in ToSet(page)
  <2>a. i \in Items
    BY <1>0
  <2>b. 0..MaxItems \subseteq Nat
    BY <1>0
  <2>1. i \in Nat /\ o.after \in Nat
    BY <1>0, <2>a, <2>b, Zenon
  <2>2. CASE i <= o.after
    BY <1>4, <2>2 DEF Given, o
  <2>3. CASE ~(i <= o.after)
    <3>0. o.after < i
      BY <2>1, <2>3
    <3>1. CASE ~more /\ ~o.behind
      <4>1. i \in ToSet(s)
        BY <1>4, <3>1 DEF o
      <4> QED BY <1>4, <3>0, <3>1, <4>1 DEF Cuts, o
    <3>2. ASSUME NEW x \in ToSet(page), i <= x PROVE i \in ToSet(page)
      <4>1. x \in ToSet(s) /\ x \in Nat
        BY <1>0 DEF Cuts
      <4>2. i \in ToSet(s)
        <5>1. CASE i = x
          BY <4>1, <5>1
        <5>2. CASE i # x
          <6>1. i < x /\ i \in Items
            BY <1>0, <2>1, <3>2, <4>1, <5>2
          <6> QED BY <1>4, <4>1, <6>1 DEF Sound
        <5> QED BY <5>1, <5>2
      <4>3. i \in ToSet(page) \/ x < i
        BY <1>4, <3>0, <3>2, <4>2 DEF Cuts, o
      <4> QED BY <2>1, <3>2, <4>1, <4>3
    <3> QED BY <1>4, <3>1, <3>2
  <2> QED BY <2>2, <2>3
<1>5. Ascends(page) /\ \A x \in ToSet(page) : o.after < x
  BY DEF Cuts, o
<1>6. Paged(r, marked)
  BY <1>1, <1>3, <1>4, <1>5 DEF Paged
<1> QED BY <1>2, <1>6 DEF r

\* A listing that was given its page.
LEMMA GivenKept ==
  ASSUME InboxAssumption, TypeOK, NEW l \in Listers, list[l].at = "convert",
         Given(list[l], stored, marked), Paged(list[l], marked)
  PROVE  Given(WithGiven(l), stored, marked) /\ Paged(WithGiven(l), marked)
<1> DEFINE o == list[l]
           r == WithGiven(l)
<1>0. /\ o \in ListType /\ o.due \subseteq Items /\ o.after \in 0..MaxItems /\ MaxItems \in Nat /\ Items \subseteq Nat
      /\ o.given \in Seq(Items) /\ o.rest \in Seq(Items)
  BY DEF TypeOK, ListType, InboxAssumption, Items
<1>1. /\ r.at = (IF o.more THEN "page" ELSE "end") /\ r.given = o.given \o o.rest /\ r.rest = <<>>
      /\ r.after = (IF o.rest = <<>> THEN o.after ELSE Last(o.rest))
      /\ r.due = o.due /\ r.out = o.out /\ r.behind = o.behind
  BY <1>0 DEF WithGiven, ListType
<1>2. /\ Ascends(o.given) /\ (\A x \in ToSet(o.given) : x <= o.after)
      /\ Ascends(o.rest) /\ (\A x \in ToSet(o.rest) : o.after < x)
      /\ o.more => o.rest # <<>>
  BY DEF Given, Paged
<1>3. \A i \in o.due \ marked : /\ i <= o.after => i \in ToSet(o.given)
                                /\ (\E x \in ToSet(o.rest) : i <= x) \/ (~o.more /\ ~o.behind)
                                      => i \in ToSet(o.given) \/ i \in ToSet(o.rest)
  BY DEF Given, Paged
<1>4. /\ \A i \in o.due : i <= stored
      /\ o.out \subseteq marked
      /\ \A x \in o.out : x \notin ToSet(o.given) /\ x \notin ToSet(o.rest)
  BY DEF Given
<1> HIDE DEF o, r
<1>5. r.at \in {"page", "end"} /\ r.at # "idle" /\ r.at # "convert"
  BY <1>1
<1>6. Ascends(r.given)
  <2>1. o.after \in Nat
    BY <1>0
  <2> QED BY <1>0, <1>1, <1>2, <2>1, JoinedAscends
<1>7. ToSet(r.given) = ToSet(o.given) \cup ToSet(o.rest)
  BY <1>0, <1>1, Joined
<1>8. /\ r.after \in Nat /\ o.after <= r.after
      /\ \A x \in ToSet(o.rest) : x <= r.after
      /\ \A i \in Nat : i <= r.after => i <= o.after \/ \E x \in ToSet(o.rest) : i <= x
      /\ o.rest # <<>> => r.after # 0
  <2>0. ToSet(<<>>) = {} /\ o.after \in Nat
    BY <1>0 DEF ToSet
  <2>1. CASE o.rest = <<>>
    <3>1. r.after = o.after
      BY <1>1, <2>1
    <3> QED BY <2>0, <2>1, <3>1
  <2>2. CASE o.rest # <<>>
    <3>1. r.after = Last(o.rest)
      BY <1>1, <2>2
    <3>2. r.after \in ToSet(o.rest) /\ r.after \in Items /\ \A x \in ToSet(o.rest) : x <= r.after
      BY <1>0, <1>2, <2>2, <3>1, LastHas
    <3>3. o.after < r.after /\ r.after \in Nat /\ r.after # 0
      BY <1>0, <1>2, <3>2 DEF Items
    <3> QED BY <2>0, <3>2, <3>3
  <2> QED BY <2>1, <2>2
<1>9. ASSUME NEW x \in ToSet(r.given) PROVE x <= r.after
  <2>1. CASE x \in ToSet(o.rest)
    BY <1>8, <2>1
  <2>2. CASE x \in ToSet(o.given)
    <3>a. ToSet(o.given) \subseteq Items
      BY <1>0, SetOf
    <3>b. 0..MaxItems \subseteq Nat
      BY <1>0
    <3>1. x \in Nat /\ o.after \in Nat
      BY <1>0, <2>2, <3>a, <3>b, Zenon
    <3>2. x <= o.after /\ o.after <= r.after
      BY <1>2, <1>8, <2>2
    <3> QED BY <1>8, <3>1, <3>2
  <2> QED BY <1>7, <2>1, <2>2
<1>10. ASSUME NEW i \in o.due \ marked, i <= r.after \/ (r.at = "end" /\ ~o.behind)
       PROVE  i \in ToSet(r.given)
  <2>1. i \in Nat
    BY <1>0
  <2>2. CASE i <= r.after
    BY <1>3, <1>7, <1>8, <1>10, <2>1, <2>2
  <2>3. CASE r.at = "end" /\ ~o.behind
    <3>1. ~o.more
      BY <1>1, <2>3
    <3> QED BY <1>3, <1>7, <1>10, <2>3, <3>1
  <2> QED BY <1>10, <2>2, <2>3
<1>11. \A x \in o.out : x \notin ToSet(r.given) /\ x \notin ToSet(r.rest)
  <2>1. ToSet(<<>>) = {}
    BY DEF ToSet
  <2> QED BY <1>1, <1>4, <1>7, <2>1
<1>12. r.at = "page" => r.after # 0
  <2>1. r.at = "page" => o.more
    BY <1>1
  <2> QED BY <1>2, <1>8, <2>1
<1>13. Given(r, stored, marked)
  BY <1>1, <1>4, <1>5, <1>6, <1>9, <1>10, <1>11, <1>12 DEF Given
<1>14. Paged(r, marked)
  BY <1>5 DEF Paged
<1> QED BY <1>13, <1>14 DEF r

\* Every step keeps what is known of the pages.
LEMMA NextPages ==
  ASSUME InboxAssumption, TypeOK, Registered, Lists, Pages, Newer, [Next]_vars PROVE Pages'
<1>t. /\ stored \in Nat /\ MaxItems \in Nat /\ list \in [Listers -> ListType]
      /\ unread \in Seq(Items) /\ snapshot \in Seq(Items) /\ <<>> \in Seq(Items)
      /\ ToSet(unread) \subseteq Items
  BY SetOf DEF TypeOK, InboxAssumption
<1>1. CASE UNCHANGED <<list, snapshot>> /\ stored' \in Nat /\ stored <= stored' /\ marked \subseteq marked'
  BY <1>1, <1>t, Grown DEF Pages
<1>2. ASSUME NEW l \in Listers, ListAsked(l) \/ ListRead(l) \/ ListFails(l) \/ ListGiven(l) PROVE Pages'
  <2> DEFINE o == list[l]
             Fits(r) == Given(r, stored, marked) /\ Paged(r, marked)
  <2>0. o \in ListType /\ Given(o, stored, marked) /\ Paged(o, marked)
    BY <1>t DEF Pages
  <2>1. UNCHANGED <<unread, stored, written, marked>>
    BY <1>2, ListMoves
  <2>r. ASSUME NEW r, list' = [list EXCEPT ![l] = r], Fits(r) PROVE Pages'
    <3>1. \A k \in Listers : list'[k] = IF k = l THEN r ELSE list[k]
      BY <1>t, <2>r
    <3> QED BY <2>1, <2>r, <3>1 DEF Pages
  <2>e. ToSet(<<>>) = {} /\ Ascends(<<>>)
    BY DEF ToSet, Ascends
  <2>2. ASSUME o.at = "idle" PROVE Fits([o EXCEPT !.at = "end"])
    <3> DEFINE r == [o EXCEPT !.at = "end"]
    <3>1. /\ r.at = "end" /\ r.after = 0 /\ r.given = <<>> /\ r.due = {} /\ r.rest = <<>> /\ r.out = o.out
      BY <2>0, <2>2 DEF Given, ListType
    <3>2. o.out \subseteq marked
      BY <2>0 DEF Given
    <3> HIDE DEF r, o
    <3>3. Fits(r)
      BY <2>e, <3>1, <3>2 DEF Given, Paged
    <3> QED BY <3>3 DEF r
  <2>3. ASSUME NEW at \in {"failed", "read"} PROVE Fits([o EXCEPT !.at = at])
    <3> DEFINE r == [o EXCEPT !.at = at]
    <3>1. /\ r.at = at /\ r.after = o.after /\ r.given = o.given /\ r.due = o.due /\ r.rest = o.rest /\ r.out = o.out
      BY <2>0 DEF ListType
    <3> HIDE DEF r, o
    <3>2. Fits(r)
      BY <2>0, <3>1 DEF Given, Paged
    <3> QED BY <3>2 DEF r
  <2>4. ASSUME o.at = "idle" PROVE Fits(Begun(l))
    <3> DEFINE r == Begun(l)
    <3>1. /\ r.at = "read" /\ r.after = 0 /\ r.given = <<>> /\ r.rest = <<>> /\ r.due = ToSet(unread) \ marked
          /\ r.out = marked
      BY <2>0, <2>4 DEF Begun, Given, ListType
    <3>2. \A i \in r.due : i <= stored /\ ~(i <= 0)
      BY <1>t, <3>1 DEF Lists, Items
    <3> HIDE DEF r
    <3>3. Fits(r)
      BY <2>e, <3>1, <3>2 DEF Given, Paged
    <3> QED BY <3>3 DEF r
  <2>5. ASSUME o.at = "page", snapshot # <<>>, NEW page, NEW more, Cuts(l, snapshot, page, more)
        PROVE  Fits(WithPage(l, page, more, <<>>))
    <3>1. o.after # 0
      BY <2>0, <2>5 DEF Given
    <3>2. ~o.behind => o.due \ marked \subseteq ToSet(snapshot)
      BY <2>5, <3>1 DEF Newer
    <3>3. Sound(snapshot, stored, marked)
      BY DEF Lists
    <3> QED BY <1>t, <2>0, <2>5, <3>1, <3>2, <3>3, PagedKept
  <2>6. ASSUME o.at = "read", NEW page, NEW more, Cuts(l, unread, page, more)
        PROVE  Fits(WithPage(l, page, more, unread))
    <3>1. o.due \ marked \subseteq ToSet(unread)
      <4>1. o.due \subseteq Items /\ \A i \in o.due : i <= stored
        BY <2>0 DEF Given, ListType
      <4> QED BY <4>1 DEF Lists
    <3>2. Sound(unread, stored, marked)
      BY UnreadSound
    <3> QED BY <1>t, <2>0, <2>6, <3>1, <3>2, PagedKept
  <2>7. ASSUME o.at = "convert" PROVE Fits(WithGiven(l))
    BY <2>0, <2>7, GivenKept
  <2> HIDE DEF Fits
  <2> QED BY <1>2, <2>r, <2>2, <2>3, <2>4, <2>5, <2>6, <2>7, ListMoves
<1> QED BY <1>1, <1>2, PortSteps

\* What the next pages are cut from keeps all that is due.
LEMMA NextNewer ==
  ASSUME InboxAssumption, TypeOK, Registered, Lists, Pages, Newer, [Next]_vars PROVE Newer'
<1>t. /\ stored \in Nat /\ MaxItems \in Nat /\ list \in [Listers -> ListType]
  BY DEF TypeOK, InboxAssumption
<1>u. \A l \in Listers : list[l].due \ marked \subseteq ToSet(unread)
  <2> SUFFICES ASSUME NEW l \in Listers PROVE list[l].due \ marked \subseteq ToSet(unread)
    OBVIOUS
  <2>1. list[l].due \subseteq Items /\ \A i \in list[l].due : i <= stored
    BY <1>t DEF Pages, Given, ListType
  <2> QED BY <2>1 DEF Lists
<1>1. CASE UNCHANGED <<list, snapshot>> /\ stored' \in Nat /\ stored <= stored' /\ marked \subseteq marked'
  <2>1. \A l \in Listers : list'[l].due \ marked' \subseteq list[l].due \ marked
    BY <1>1
  <2> QED BY <1>1, <2>1 DEF Newer
<1>2. ASSUME NEW l \in Listers, ListAsked(l) \/ ListRead(l) \/ ListFails(l) \/ ListGiven(l) PROVE Newer'
  <2> DEFINE Open(at) == at \in {"read", "convert", "page"}
             Due(k) == list[k].due \ marked
             Holds(k, m) == list[m].at = "convert" /\ list[m].fresh # <<>> => Due(k) \subseteq ToSet(list[m].fresh)
             Keeps(k) == list[k].after # 0 => snapshot = <<>> \/ Due(k) \subseteq ToSet(snapshot)
  <2>0. \A k \in Listers : ~list[k].behind /\ Open(list[k].at) => (\A m \in Listers : Holds(k, m)) /\ Keeps(k)
    BY DEF Newer
  <2>1. UNCHANGED <<unread, stored, written, marked>>
    BY <1>2, ListMoves
  <2>o. list[l] \in ListType /\ Given(list[l], stored, marked) /\ Paged(list[l], marked)
    BY <1>t DEF Pages
  \* Steps that do not change the snapshot and give no page of their own reading.
  <2>2. ASSUME snapshot' = snapshot, NEW r, list' = [list EXCEPT ![l] = r],
               r.at # "convert" \/ r.fresh = <<>>,
               \/ ~Open(r.at)
               \/ /\ Open(list[l].at) /\ r.behind = list[l].behind
                  /\ r.due = list[l].due /\ r.after = list[l].after
        PROVE  Newer'
    <3>1. \A k \in Listers : list'[k] = IF k = l THEN r ELSE list[k]
      BY <1>t, <2>2
    <3> QED BY <2>0, <2>1, <2>2, <3>1 DEF Newer
  <2>3. CASE snapshot' = snapshot /\ list[l].at = "idle" /\ list' = [list EXCEPT ![l] = [list[l] EXCEPT !.at = "end"]]
    <3>1. [list[l] EXCEPT !.at = "end"].at = "end"
      BY <2>o DEF ListType
    <3> QED BY <2>2, <2>3, <3>1
  <2>4. CASE snapshot' = snapshot /\ list' = [list EXCEPT ![l] = [list[l] EXCEPT !.at = "failed"]]
    <3>1. [list[l] EXCEPT !.at = "failed"].at = "failed"
      BY <2>o DEF ListType
    <3> QED BY <2>2, <2>4, <3>1
  <2>5. CASE snapshot' = snapshot /\ list[l].at = "page" /\ list' = [list EXCEPT ![l] = [list[l] EXCEPT !.at = "read"]]
    <3> DEFINE r == [list[l] EXCEPT !.at = "read"]
    <3>1. r.at = "read" /\ r.behind = list[l].behind /\ r.due = list[l].due /\ r.after = list[l].after
      BY <2>o DEF ListType
    <3> HIDE DEF r
    <3>2. list' = [list EXCEPT ![l] = r]
      BY <2>5 DEF r
    <3> QED BY <2>2, <2>5, <3>1, <3>2
  <2>6. CASE snapshot' = snapshot /\ list[l].at = "idle" /\ list' = [list EXCEPT ![l] = Begun(l)]
    <3> DEFINE r == Begun(l)
    <3>1. /\ r.at = "read" /\ r.after = 0
          /\ r.behind = \E k \in Listers : list[k].at = "convert" /\ list[k].fresh # <<>>
      BY <2>o, <2>6 DEF Begun, Given, ListType
    <3> HIDE DEF r
    <3>2. \A k \in Listers : list'[k] = IF k = l THEN r ELSE list[k]
      BY <1>t, <2>6 DEF r
    <3>3. ASSUME NEW k \in Listers, ~list'[k].behind, Open(list'[k].at)
          PROVE  /\ \A m \in Listers : list'[m].at = "convert" /\ list'[m].fresh # <<>>
                       => list'[k].due \ marked \subseteq ToSet(list'[m].fresh)
                 /\ list'[k].after # 0 => snapshot = <<>> \/ list'[k].due \ marked \subseteq ToSet(snapshot)
      <4>1. CASE k = l
        BY <3>1, <3>2, <3>3, <4>1
      <4>2. CASE k # l
        BY <2>0, <3>1, <3>2, <3>3, <4>2
      <4> QED BY <4>1, <4>2
    <3> QED BY <2>1, <2>6, <3>3 DEF Newer
  <2>7. ASSUME snapshot' = snapshot, list[l].at \in {"page", "read"}, NEW page, NEW more,
               NEW fresh \in {<<>>, unread}, list' = [list EXCEPT ![l] = WithPage(l, page, more, fresh)]
        PROVE  Newer'
    <3> DEFINE r == WithPage(l, page, more, fresh)
    <3>1. r.at = "convert" /\ r.behind = list[l].behind /\ r.due = list[l].due /\ r.after = list[l].after /\ r.fresh = fresh
      BY <2>o DEF WithPage, ListType
    <3> HIDE DEF r
    <3>2. \A k \in Listers : list'[k] = IF k = l THEN r ELSE list[k]
      BY <1>t, <2>7 DEF r
    <3>3. ASSUME NEW k \in Listers, ~list'[k].behind, Open(list'[k].at)
          PROVE  /\ \A m \in Listers : list'[m].at = "convert" /\ list'[m].fresh # <<>>
                       => list'[k].due \ marked \subseteq ToSet(list'[m].fresh)
                 /\ list'[k].after # 0 => snapshot = <<>> \/ list'[k].due \ marked \subseteq ToSet(snapshot)
      <4>1. /\ list'[k].behind = list[k].behind /\ list'[k].due = list[k].due /\ list'[k].after = list[k].after
            /\ Open(list[k].at)
        BY <2>7, <3>1, <3>2, <3>3
      <4>2. (\A m \in Listers : Holds(k, m)) /\ Keeps(k)
        BY <2>0, <3>3, <4>1
      <4>3. ASSUME NEW m \in Listers, list'[m].at = "convert", list'[m].fresh # <<>>
            PROVE  list'[k].due \ marked \subseteq ToSet(list'[m].fresh)
        <5>1. CASE m = l
          <6>1. list'[m].fresh = unread
            BY <2>7, <3>1, <3>2, <4>3, <5>1
          <6> QED BY <1>u, <4>1, <6>1
        <5>2. CASE m # l
          BY <3>2, <4>1, <4>2, <4>3, <5>2
        <5> QED BY <5>1, <5>2
      <4> QED BY <4>1, <4>2, <4>3
    <3> QED BY <2>1, <2>7, <3>3 DEF Newer
  <2>8. CASE /\ list[l].at = "convert"
             /\ list' = [list EXCEPT ![l] = WithGiven(l)]
             /\ snapshot' = IF ~list[l].more THEN <<>>
                            ELSE IF list[l].fresh # <<>> THEN list[l].fresh ELSE snapshot
    <3> DEFINE r == WithGiven(l)
    <3>1. /\ r.at = (IF list[l].more THEN "page" ELSE "end") /\ r.behind = list[l].behind
          /\ r.due = list[l].due
      BY <2>o DEF WithGiven, ListType
    <3> HIDE DEF r
    <3>2. \A k \in Listers : list'[k] = IF k = l THEN r ELSE list[k]
      BY <1>t, <2>8 DEF r
    <3>3. ASSUME NEW k \in Listers, ~list'[k].behind, Open(list'[k].at)
          PROVE  /\ \A m \in Listers : list'[m].at = "convert" /\ list'[m].fresh # <<>>
                       => list'[k].due \ marked \subseteq ToSet(list'[m].fresh)
                 /\ list'[k].after # 0 => snapshot' = <<>> \/ list'[k].due \ marked \subseteq ToSet(snapshot')
      <4>1. list'[k].behind = list[k].behind /\ list'[k].due = list[k].due /\ Open(list[k].at)
        BY <2>8, <3>1, <3>2, <3>3
      <4>2. (\A m \in Listers : Holds(k, m)) /\ Keeps(k)
        BY <2>0, <3>3, <4>1
      <4>3. ASSUME NEW m \in Listers, list'[m].at = "convert", list'[m].fresh # <<>>
            PROVE  list'[k].due \ marked \subseteq ToSet(list'[m].fresh)
        <5>1. m # l
          BY <3>1, <3>2, <4>3
        <5> QED BY <3>2, <4>1, <4>2, <4>3, <5>1
      <4>4. ASSUME list'[k].after # 0 PROVE snapshot' = <<>> \/ list'[k].due \ marked \subseteq ToSet(snapshot')
        <5>1. CASE ~list[l].more
          BY <2>8, <5>1
        <5>2. CASE list[l].more /\ list[l].fresh # <<>>
          <6>1. snapshot' = list[l].fresh
            BY <2>8, <5>2
          <6>2. Due(k) \subseteq ToSet(list[l].fresh)
            BY <2>8, <4>2, <5>2
          <6> QED BY <4>1, <6>1, <6>2
        <5>3. CASE list[l].more /\ list[l].fresh = <<>>
          <6>1. snapshot' = snapshot
            BY <2>8, <5>3
          <6>2. list[l].after # 0
            BY <2>o, <2>8, <5>3 DEF Paged
          <6>3. list[k].after # 0
            BY <3>2, <4>4, <6>2
          <6> QED BY <4>1, <4>2, <6>1, <6>3
        <5> QED BY <5>1, <5>2, <5>3
      <4> QED BY <4>3, <4>4
    <3> QED BY <2>1, <3>3 DEF Newer
  <2> QED BY <1>2, <2>3, <2>4, <2>5, <2>6, <2>7, <2>8, ListMoves
<1> QED BY <1>1, <1>2, PortSteps

-----------------------------------------------------------------------------
(* Theorems about the inbox port                                           *)

\* The inductive invariant of the inbox port.
THEOREM PortInvariant == Spec => []PortInv
<1>1. Init => PortInv
  BY InboxAssumption, InitPort
<1>2. PortInv /\ [Next]_vars => PortInv'
  <2> SUFFICES ASSUME PortInv, [Next]_vars PROVE PortInv'
    OBVIOUS
  <2> USE InboxAssumption DEF PortInv
  <2>1. TypeOK'
    BY NextPortTypes
  <2>2. Registered' /\ Seen'
    BY NextRegistered, NextSeen
  <2>3. Lists'
    BY <2>1, NextLists
  <2>4. Pages' /\ Newer'
    BY NextPages, NextNewer
  <2> QED BY <2>1, <2>2, <2>3, <2>4
<1> QED BY <1>1, <1>2, PTL DEF Spec

\* A wait that sleeps with nothing to wake it misses no item, but for one that the feed
\* could not read after the last read of this wait (InboxPort::wait, ArrivalFeed::from_raw).
THEOREM WaitsMissNothing == Spec => []NoItemMissed
<1>1. ASSUME PortInv PROVE NoItemMissed
  <2> SUFFICES ASSUME NEW v \in Waiters, watch[v].at = "asleep", ~Wakes(v), ~RegistrationQueued, up
               PROVE  ToSet(unread) \ marked \subseteq ring \cup deaf[v]
    BY DEF NoItemMissed
  <2>1. watch[v].wakes = {} /\ ~(watch[v].waitsForIt /\ registration = "ended")
    BY DEF Wakes
  <2>2. registration \in {"none", "queued", "ended"}
    BY <1>1 DEF PortInv, TypeOK
  <2>3. ~watch[v].waitsForIt
    BY <1>1, <2>1, <2>2 DEF PortInv, Registered, RegistrationQueued
  <2> QED BY <1>1, <2>1, <2>3 DEF PortInv, Seen
<1> QED BY <1>1, PortInvariant, PTL

\* The pages of a listing are in order, with no item twice and no hole, and they are whole
\* unless another listing was behind (InboxPort::items).
THEOREM ListingsAreWhole == Spec => []ListingWhole
<1>1. ASSUME PortInv PROVE ListingWhole
  <2> SUFFICES ASSUME NEW l \in Listers
               PROVE  /\ \A i \in list[l].due \ marked :
                           \/ i <= list[l].after
                           \/ list[l].at = "end" /\ ~list[l].behind
                           => i \in ToSet(list[l].given)
                      /\ \A m, n \in DOMAIN list[l].given : m < n => list[l].given[m] < list[l].given[n]
                      /\ list[l].out \cap ToSet(list[l].given \o list[l].rest) = {}
    BY DEF ListingWhole
  <2>1. Given(list[l], stored, marked)
    BY <1>1 DEF PortInv, Pages
  <2>2. list[l].given \in Seq(Items) /\ list[l].rest \in Seq(Items)
    BY <1>1 DEF PortInv, TypeOK, ListType
  <2>3. ToSet(list[l].given \o list[l].rest) = ToSet(list[l].given) \cup ToSet(list[l].rest)
    BY <2>2, Joined
  <2> QED BY <2>1, <2>3 DEF Given, Ascends
<1> QED BY <1>1, PortInvariant, PTL

-----------------------------------------------------------------------------
(* The arrivals                                                            *)

\* A wait that was not told looks at the generation of its own time.
CutKept ==
    \A w \in Waits :
        /\ wait[w].at \in {"decide", "parked"} /\ (ends.kept \/ ends.generation # wait[w].generation)
              => cut[w]
        /\ wait[w].at # "done" => wait[w].told = NoOutcome
        /\ wait[w].told = <<"infra">> => cut[w]

\* What a wait was told, other than a failure, is the outcome of its child.
ToldKept ==
    /\ \A c \in Children : ends.outcomes[c] # NoOutcome =>
          ends.outcomes[c] \in {"end", "unreadable"} \X Notices /\ ChildOf[ends.outcomes[c][2]] = c
    /\ \A w \in Waits : wait[w].told \in {NoOutcome, <<"infra">>, <<"dropped">>}
                           \/ wait[w].told = ends.outcomes[WaitFor[w]]

\* An item that gives its child an outcome.
Decisive(i) == Form[i] \in {"end", "flawed", "bad"} /\ ChildOf[i] # NoChild
\* A note of it waits in the buffer of the task.
Held(i) == \E k \in DOMAIN buffer : buffer[k].arrival # "item" /\ buffer[k].of = i
\* The task has still to give it to the book.
OnItsWay(i) == i \in ToSet(bell) \/ resolving = i \/ Held(i)
\* An end that was stored and rung is known, or on its way to the book.
WayKept ==
    alive /\ task \in {"answered", "next"} =>
        \A i \in (ToSet(store) \cap rung) \ blind :
            Decisive(i) => ends.outcomes[ChildOf[i]] # NoOutcome \/ OnItsWay(i)

\* The inductive invariant of the arrivals.
EndInv == ArrivalTypeOK /\ NoLostWake /\ CutKept /\ ToldKept /\ WayKept
-----------------------------------------------------------------------------
(* Lists of arrivals                                                       *)

\* What the task gives to the book.
Arrival == [arrival : {"item", "end", "unreadable"}, of : Notices \cup {NoItem}]

\* A list over the stored items has what each of them gives.
LEMMA OverHas ==
  ASSUME store \in Seq(Notices), NEW S, NEW read \in [Notices -> Seq(S)]
  PROVE  /\ Over(read) \in Seq(S)
         /\ \A x : x \in ToSet(Over(read)) <=> \E i \in ToSet(store) : x \in ToSet(read[i])
<1> DEFINE p == [n \in DOMAIN store |-> read[store[n]]]
<1>1. p \in Seq(Seq(S)) /\ Len(p) = Len(store) /\ DOMAIN store = 1..Len(store)
  <2>1. DOMAIN store = 1..Len(store) /\ Len(store) \in Nat
    OBVIOUS
  <2>2. \A n \in 1..Len(store) : read[store[n]] \in Seq(S)
    OBVIOUS
  <2>3. p \in [1..Len(store) -> Seq(S)]
    BY <2>1, <2>2
  <2> HIDE DEF p
  <2>4. p \in Seq(Seq(S)) /\ Len(p) = Len(store)
    BY <2>1, <2>3, Numbered
  <2> QED BY <2>1, <2>4
<1>2. \A n \in 1..Len(store) : p[n] = read[store[n]]
  BY <1>1
<1> HIDE DEF p
<1>3. Over(read) = FlattenSeq(p)
  BY DEF Over, p
<1>4. /\ FlattenSeq(p) \in Seq(S)
      /\ \A x : x \in ToSet(FlattenSeq(p)) <=> \E n \in 1..Len(p) : x \in ToSet(p[n])
  BY <1>1, FlattenedHas
<1>5. ASSUME NEW x, NEW i \in ToSet(store), x \in ToSet(read[i])
      PROVE  \E n \in 1..Len(p) : x \in ToSet(p[n])
  <2>1. PICK n \in DOMAIN store : i = store[n]
    BY DEF ToSet
  <2> QED BY <1>1, <1>2, <1>5, <2>1
<1>6. ASSUME NEW x, NEW n \in 1..Len(p), x \in ToSet(p[n])
      PROVE  \E i \in ToSet(store) : x \in ToSet(read[i])
  <2>1. store[n] \in ToSet(store) /\ p[n] = read[store[n]]
    BY <1>1, <1>2 DEF ToSet
  <2> QED BY <1>6, <2>1
<1> QED BY <1>3, <1>4, <1>5, <1>6

\* What one item gives in a replay, and when it was rung for.
LEMMA Gives ==
  ASSUME ArrivalsAssumption, NEW i \in Notices, NEW e \in Notices
  PROVE  /\ ReplayOne(i) \in Seq(Arrival) /\ Resolved(i, e) \in Seq(Arrival)
         /\ Decisive(i) => /\ \E a \in ToSet(ReplayOne(i)) : a.arrival # "item" /\ a.of = i
                           /\ \E a \in ToSet(Resolved(i, i)) : a.arrival # "item" /\ a.of = i
<1>1. Item(i) \in Arrival /\ SyncEnd(i) \in Arrival /\ Unreadable(i) \in Arrival
  BY DEF Item, SyncEnd, Unreadable, Arrival
<1>2. EndsSync(i) \in {<<>>, <<SyncEnd(i)>>, <<Unreadable(i)>>}
  <2>1. CASE Form[i] = "end"
    BY <2>1 DEF EndsSync
  <2>2. CASE Form[i] = "flawed"
    BY <2>2 DEF EndsSync
  <2>3. CASE Form[i] \notin {"end", "flawed"}
    BY <2>3 DEF EndsSync
  <2> QED BY <2>1, <2>2, <2>3
<1>3. EndsSync(i) \in Seq(Arrival)
  <2>1. <<>> \in Seq(Arrival) /\ <<SyncEnd(i)>> \in Seq(Arrival) /\ <<Unreadable(i)>> \in Seq(Arrival)
    BY <1>1
  <2> QED BY <1>2, <2>1
<1>4. <<Item(i)>> \o EndsSync(i) \in Seq(Arrival)
  BY <1>1, <1>3
<1>5. ReplayOne(i) \in Seq(Arrival) /\ Resolved(i, e) \in Seq(Arrival)
  <2>1. <<Unreadable(i)>> \in Seq(Arrival) /\ <<>> \in Seq(Arrival)
    BY <1>1
  <2> QED BY <2>1, <1>3, <1>4 DEF ReplayOne, Resolved
<1>6. ASSUME Decisive(i), Form[i] = "bad"
      PROVE  /\ \E a \in ToSet(ReplayOne(i)) : a.arrival # "item" /\ a.of = i
             /\ \E a \in ToSet(Resolved(i, i)) : a.arrival # "item" /\ a.of = i
  <2>1. ReplayOne(i) = <<Unreadable(i)>> /\ Resolved(i, i) = <<Unreadable(i)>>
    BY <1>6 DEF ReplayOne, Resolved, IsBad
  <2>2. Unreadable(i) \in ToSet(<<Unreadable(i)>>)
    BY DEF ToSet
  <2> QED BY <2>1, <2>2 DEF Unreadable
<1>7. ASSUME Decisive(i), Form[i] # "bad"
      PROVE  /\ \E a \in ToSet(ReplayOne(i)) : a.arrival # "item" /\ a.of = i
             /\ \E a \in ToSet(Resolved(i, i)) : a.arrival # "item" /\ a.of = i
  <2>1. PICK a \in Arrival : EndsSync(i) = <<a>> /\ a.arrival # "item" /\ a.of = i
    BY <1>7, <1>1 DEF Decisive, EndsSync, SyncEnd, Unreadable
  <2>2. ReplayOne(i) = <<Item(i)>> \o <<a>> /\ Resolved(i, i) = <<a>>
    BY <1>7, <2>1 DEF ReplayOne, Resolved, IsBad, Decisive
  <2>3. <<Item(i)>> \in Seq(Arrival) /\ <<a>> \in Seq(Arrival) /\ a \in ToSet(<<a>>)
    BY <1>1 DEF ToSet
  <2> DEFINE p == <<Item(i)>>
             q == <<a>>
  <2> HIDE DEF p, q
  <2>4. ToSet(p \o q) = ToSet(p) \cup ToSet(q)
    <3>1. p \in Seq(Arrival) /\ q \in Seq(Arrival)
      BY <2>3 DEF p, q
    <3> QED BY <3>1, Joined
  <2>5. a \in ToSet(<<Item(i)>> \o <<a>>)
    <3>1. a \in ToSet(q)
      BY <2>3 DEF q
    <3>2. a \in ToSet(p \o q)
      BY <2>4, <3>1
    <3> QED BY <3>2 DEF p, q
  <2> QED BY <2>1, <2>2, <2>3, <2>5
<1> QED BY <1>5, <1>6, <1>7

-----------------------------------------------------------------------------
\* The types of the end store and of a wait.
EndType  == [outcomes : [Children -> Outcomes \cup {NoOutcome}], kept : BOOLEAN, generation : Nat]
WaitType == [at : {"none", "decide", "parked", "done"}, generation : Nat, changed : BOOLEAN,
             told : Outcomes \cup {NoOutcome}]

\* What a step of its own makes of a wait is a wait (EndStore, the poll of a wait).
LEMMA MovedHas ==
  ASSUME NEW v \in WaitType
  PROVE  /\ \A n \in Nat : [v EXCEPT !.at = "decide", !.generation = n] \in WaitType
         /\ \A o \in Outcomes : [v EXCEPT !.at = "done", !.told = o] \in WaitType
         /\ [v EXCEPT !.at = "decide", !.changed = FALSE] \in WaitType
<1>1. ASSUME NEW n \in Nat PROVE [v EXCEPT !.at = "decide", !.generation = n] \in WaitType
  BY DEF WaitType
<1>2. ASSUME NEW o \in Outcomes PROVE [v EXCEPT !.at = "done", !.told = o] \in WaitType
  BY DEF WaitType
<1>3. [v EXCEPT !.at = "decide", !.changed = FALSE] \in WaitType
  BY DEF WaitType
<1> QED BY <1>1, <1>2, <1>3

\* A signal changes nothing of a wait but that there is a change to see.
LEMMA SignalledHas ==
  ASSUME ArrivalTypeOK
  PROVE  /\ Signalled(wait) \in [Waits -> WaitType]
         /\ \A w \in Waits :
              /\ Signalled(wait)[w].at = wait[w].at /\ Signalled(wait)[w].told = wait[w].told
              /\ Signalled(wait)[w].generation = wait[w].generation
              /\ wait[w].at \in {"decide", "parked"} => Signalled(wait)[w].changed
<1>1. wait \in [Waits -> WaitType]
  BY DEF ArrivalTypeOK, WaitType
<1>2. ASSUME NEW w \in Waits
      PROVE  /\ Signalled(wait)[w] = [wait[w] EXCEPT !.changed = @ \/ wait[w].at \in {"decide", "parked"}]
             /\ Signalled(wait)[w] \in WaitType
  <2>1. wait[w] \in WaitType
    BY <1>1
  <2>2. Signalled(wait)[w] = [wait[w] EXCEPT !.changed = @ \/ wait[w].at \in {"decide", "parked"}]
    BY DEF Signalled
  <2> QED BY <2>1, <2>2 DEF WaitType
<1>3. Signalled(wait) \in [Waits -> WaitType]
  <2>1. Signalled(wait) = [w \in Waits |-> Signalled(wait)[w]]
    BY DEF Signalled
  <2> QED BY <2>1, <1>2
<1>4. ASSUME NEW w \in Waits
      PROVE  /\ Signalled(wait)[w].at = wait[w].at /\ Signalled(wait)[w].told = wait[w].told
             /\ Signalled(wait)[w].generation = wait[w].generation
             /\ wait[w].at \in {"decide", "parked"} => Signalled(wait)[w].changed
  BY <1>1, <1>2 DEF WaitType
<1> QED BY <1>3, <1>4

\* What the book does with an arrival: it keeps the outcome of a child that has none.
LEMMA Arrives ==
  ASSUME ArrivalsAssumption, ArrivalTypeOK, NEW a \in Arrival, BookArrival(a)
  PROVE  \/ /\ UNCHANGED <<ends, wait>>
            /\ a.arrival # "item" /\ ChildNamed(a) # NoChild =>
                 ends.outcomes[ChildNamed(a)] # NoOutcome
         \/ /\ a.arrival # "item" /\ a.of \in Notices /\ ChildOf[a.of] \in Children
            /\ ends.outcomes[ChildOf[a.of]] = NoOutcome
            /\ ends' = [ends EXCEPT !.outcomes[ChildOf[a.of]] = <<a.arrival, a.of>>]
            /\ wait' = Signalled(wait)
<1>1. CASE a.arrival # "item" /\ ChildNamed(a) # NoChild
  <2>1. a.of \in Notices /\ ChildNamed(a) = ChildOf[a.of] /\ ChildOf[a.of] \in Children
    BY <1>1 DEF ChildNamed, Arrival, ArrivalsAssumption
  <2> QED BY <1>1, <2>1 DEF BookArrival, Record
<1>2. CASE ~(a.arrival # "item" /\ ChildNamed(a) # NoChild)
  BY <1>2 DEF BookArrival
<1> QED BY <1>1, <1>2

\* An outcome that is kept is an outcome.
LEMMA KeptType ==
  ASSUME ArrivalTypeOK, NEW a \in Arrival, a.arrival # "item", a.of \in Notices,
         NEW c \in Children
  PROVE  /\ [ends EXCEPT !.outcomes[c] = <<a.arrival, a.of>>] \in EndType
         /\ <<a.arrival, a.of>> \in {"end", "unreadable"} \X Notices
<1>1. a.arrival \in {"end", "unreadable"}
  BY DEF Arrival
<1>2. <<a.arrival, a.of>> \in {"end", "unreadable"} \X Notices
  BY <1>1
<1> QED BY <1>2 DEF ArrivalTypeOK, EndType, Outcomes

\* What a look into the end store finds.
LEMMA DecideHas ==
  ASSUME ArrivalsAssumption, ArrivalTypeOK, NEW w \in Waits, NEW g
  PROVE  LET c == WaitFor[w]
             d == Decide(c, g) IN
         /\ d \in Outcomes \cup {NoOutcome}
         /\ ends.outcomes[c] # NoOutcome => d = ends.outcomes[c]
         /\ ends.outcomes[c] = NoOutcome /\ (ends.kept \/ ends.generation # g) => d = <<"infra">>
         /\ ends.outcomes[c] = NoOutcome /\ ~(ends.kept \/ ends.generation # g) => d = NoOutcome
<1> DEFINE c == WaitFor[w]
<1>0. c \in Children /\ ends.outcomes[c] \in Outcomes \cup {NoOutcome}
  BY DEF ArrivalsAssumption, ArrivalTypeOK
<1>1. CASE ends.outcomes[c] # NoOutcome
  BY <1>0, <1>1 DEF Decide
<1>2. CASE ends.outcomes[c] = NoOutcome /\ (ends.kept \/ ends.generation # g)
  <2>1. Decide(c, g) = <<"infra">>
    BY <1>2 DEF Decide
  <2> QED BY <1>2, <2>1 DEF Outcomes
<1>3. CASE ends.outcomes[c] = NoOutcome /\ ~(ends.kept \/ ends.generation # g)
  <2>1. Decide(c, g) = NoOutcome
    BY <1>3 DEF Decide
  <2> QED BY <1>3, <2>1
<1> QED BY <1>1, <1>2, <1>3

-----------------------------------------------------------------------------
(* Types                                                                   *)

\* The types, with the names of the parts.
Typed ==
    /\ store \in Seq(Notices) /\ rung \subseteq Notices
    /\ task \in {"open", "read", "answered", "next", "beat", "aborted"}
    /\ wasCut \in BOOLEAN /\ alive \in BOOLEAN /\ arrivalBreaks \in 0..MaxArrivalBreaks
    /\ bell \in Seq(Notices) /\ resolving \in Notices \cup {NoItem}
    /\ buffer \in Seq(Arrival) /\ ends \in EndType /\ wait \in [Waits -> WaitType]
    /\ cut \in [Waits -> BOOLEAN] /\ blind \subseteq Notices

\* They are the ones of TypeOK.
LEMMA TypesOf == (ArrivalTypeOK <=> Typed) /\ (ArrivalTypeOK' <=> Typed')
<1>1. ArrivalTypeOK <=> Typed
  BY DEF ArrivalTypeOK, Typed, Arrival, EndType, WaitType
<1>2. ArrivalTypeOK' <=> Typed'
  BY DEF ArrivalTypeOK, Typed, Arrival, EndType, WaitType
<1> QED BY <1>1, <1>2

\* The waits and the book are empty when a Run begins, and so is all that arrives.
LEMMA InitArrivals == ArrivalsAssumption /\ ArrivalInit => EndInv
<1> SUFFICES ASSUME ArrivalsAssumption, ArrivalInit PROVE EndInv
  OBVIOUS
<1>1. ArrivalTypeOK
  <2>1. ends \in EndType /\ wait \in [Waits -> WaitType]
    BY DEF ArrivalInit, EndType, WaitType
  <2>2. store \in Seq(Notices) /\ bell \in Seq(Notices) /\ buffer \in Seq(Arrival)
    BY DEF ArrivalInit
  <2>3. rung \subseteq Notices /\ blind \subseteq Notices /\ arrivalBreaks \in 0..MaxArrivalBreaks
    BY DEF ArrivalInit, ArrivalsAssumption
  <2>4. cut \in [Waits -> BOOLEAN] /\ wasCut \in BOOLEAN /\ alive \in BOOLEAN
    BY DEF ArrivalInit
  <2>5. task \in {"open", "read", "answered", "next", "beat", "aborted"} /\ resolving \in Notices \cup {NoItem}
    BY DEF ArrivalInit
  <2>6. Typed
    BY <2>1, <2>2, <2>3, <2>4, <2>5 DEF Typed
  <2> QED BY <2>6, TypesOf
<1>2. /\ \A w \in Waits : wait[w].at = "none" /\ wait[w].told = NoOutcome
      /\ \A c \in Children : ends.outcomes[c] = NoOutcome
  BY DEF ArrivalInit
<1>3. NoLostWake /\ CutKept
  <2>1. "none" \notin {"decide", "parked"} /\ NoOutcome # <<"infra">>
    BY DEF NoOutcome
  <2>2. NoLostWake
    BY <1>2 DEF NoLostWake
  <2>3. CutKept
    BY <1>2, <2>1, Zenon DEF CutKept
  <2> QED BY <2>2, <2>3
<1>4. ToldKept
  BY <1>2 DEF ToldKept
<1>5. WayKept
  BY DEF ArrivalInit, WayKept
<1> QED BY <1>1, <1>3, <1>4, <1>5 DEF EndInv

\* The steps of jobs and of the arrival task keep the types.
LEMMA NextTypes == ASSUME ArrivalsAssumption, ArrivalTypeOK, [ArrivalNext]_arrivalVars PROVE ArrivalTypeOK'
<1> SUFFICES Typed'
  BY TypesOf
<1> USE DEF Typed
<1>a. Typed
  BY TypesOf
<1> USE <1>a
<1>b. <<"dropped">> \in Outcomes
  BY DEF Outcomes
<1>1. ASSUME NEW i \in Notices, Stored(i) \/ RungFor(i) \/ RungAgain(i) PROVE Typed'
  <2>1. CASE Stored(i)
    BY <2>1 DEF Stored, arrivalFeed, arrivalBook
  <2>2. CASE RungFor(i)
    BY <2>2 DEF RungFor, arrivalBook
  <2>3. CASE RungAgain(i)
    BY <2>3 DEF RungAgain, ArrivalBreaks, arrivalJobs, arrivalBook, ArrivalsAssumption
  <2> QED BY <1>1, <2>1, <2>2, <2>3
<1>2. ASSUME NEW i \in Notices, Dropped(i) PROVE Typed'
  <2> DEFINE read == [j \in Notices |-> IF j = i THEN <<>> ELSE <<j>>]
  <2>1. read \in [Notices -> Seq(Notices)]
    OBVIOUS
  <2>2. Over(read) \in Seq(Notices)
    <3> HIDE DEF read
    <3> QED BY <2>1, OverHas
  <2>3. store' \in Seq(Notices)
    BY <1>2, <2>2 DEF Dropped
  <2> QED BY <1>2, <2>3 DEF Dropped, arrivalFeed, arrivalBook
<1>3. CASE OpenConsumer
  BY <1>3 DEF OpenConsumer, arrivalJobs, arrivalBook
<1>4. CASE ReadGiven
  <2> DEFINE read == [i \in Notices |-> ReplayOne(i)]
  <2>1. read \in [Notices -> Seq(Arrival)]
    BY Gives
  <2>2. Over(read) \in Seq(Arrival)
    <3> HIDE DEF read
    <3> QED BY <2>1, OverHas
  <2>3. buffer' \in Seq(Arrival)
    BY <1>4, <2>2 DEF ReadGiven
  <2> QED BY <1>4, <2>3 DEF ReadGiven, arrivalJobs, arrivalBook
<1>5. Unreadable(NoItem) \in Arrival /\ <<Unreadable(NoItem)>> \in Seq(Arrival)
  BY DEF Unreadable, Arrival
<1>6. CASE ReadUnreadable
  <2>1. ToSet(store) \subseteq Notices
    BY DEF ToSet
  <2>2. buffer' \in Seq(Arrival) /\ blind' \subseteq Notices
    BY <1>6, <1>5, <2>1 DEF ReadUnreadable
  <2> QED BY <1>6, <2>2 DEF ReadUnreadable, ArrivalBreaks, arrivalJobs, arrivalBook, ArrivalsAssumption
<1>7. CASE OpenAgain
  <2>1. ends' \in EndType
    BY <1>7 DEF OpenAgain, EndType
  <2> QED BY <1>7, <2>1 DEF OpenAgain, arrivalJobs
<1>8. ASSUME NEW error, ArrivalEnded(error)
      PROVE  ends' \in EndType /\ wait' \in [Waits -> WaitType] /\ cut' \in [Waits -> BOOLEAN]
  <2>1. ends' \in EndType
    <3>1. CASE error = "infra"
      <4>1. ends' = [ends EXCEPT !.kept = TRUE, !.generation = @ + 1]
        BY <1>8, <3>1 DEF ArrivalEnded
      <4>2. ends' = [outcomes |-> ends.outcomes, kept |-> TRUE, generation |-> ends.generation + 1]
        BY <4>1 DEF EndType
      <4>3. ends.generation + 1 \in Nat /\ ends.outcomes \in [Children -> Outcomes \cup {NoOutcome}]
        BY DEF EndType
      <4> QED BY <4>2, <4>3 DEF EndType
    <3>2. CASE error # "infra"
      BY <1>8, <3>2 DEF ArrivalEnded
    <3> QED BY <3>1, <3>2
  <2>2. wait' \in [Waits -> WaitType]
    BY <1>8, SignalledHas DEF ArrivalEnded
  <2>3. cut' \in [Waits -> BOOLEAN]
    BY <1>8 DEF ArrivalEnded
  <2> QED BY <2>1, <2>2, <2>3
<1>9. ASSUME NEW error, FeedEnds(error) PROVE Typed'
  BY <1>8, <1>9 DEF FeedEnds, ArrivalBreaks, arrivalJobs, ArrivalsAssumption
<1>10. CASE Panics
  BY <1>8, <1>10 DEF Panics, ArrivalBreaks, arrivalJobs, ArrivalsAssumption
<1>11. CASE NextBeat
  BY <1>11 DEF NextBeat, arrivalJobs, arrivalBook
<1>12. CASE Give
  <2>1. Head(buffer) \in Arrival /\ Tail(buffer) \in Seq(Arrival)
    BY <1>12 DEF Give
  <2> DEFINE a == Head(buffer)
  <2> HIDE DEF a
  <2>a. a \in Arrival /\ BookArrival(a)
    BY <1>12, <2>1 DEF Give, a
  <2>2. ends' \in EndType /\ wait' \in [Waits -> WaitType]
    <3>1. CASE UNCHANGED <<ends, wait>>
      BY <3>1
    <3>2. CASE /\ a.arrival # "item" /\ a.of \in Notices /\ ChildOf[a.of] \in Children
               /\ ends' = [ends EXCEPT !.outcomes[ChildOf[a.of]] = <<a.arrival, a.of>>]
               /\ wait' = Signalled(wait)
      <4>1. ends' \in EndType
        BY <2>a, <3>2, KeptType
      <4>2. wait' \in [Waits -> WaitType]
        BY <3>2, SignalledHas
      <4> QED BY <4>1, <4>2
    <3> QED BY <2>a, <3>1, <3>2, Arrives
  <2> QED BY <1>12, <2>1, <2>2 DEF Give, arrivalJobs
<1>13. CASE Pull
  <2>1. Head(bell) \in Notices /\ Tail(bell) \in Seq(Notices)
    BY <1>13 DEF Pull
  <2>2. <<Item(Head(bell))>> \in Seq(Arrival)
    BY <2>1 DEF Item, Arrival
  <2>3. buffer' \in Seq(Arrival)
    <3>1. CASE Form[Head(bell)] = "foreign"
      BY <1>13, <3>1 DEF Pull
    <3>2. CASE Form[Head(bell)] = "garbled"
      BY <1>13, <1>5, <3>2 DEF Pull
    <3>3. CASE Form[Head(bell)] \notin {"foreign", "garbled"}
      BY <1>13, <2>2, <3>3 DEF Pull
    <3> QED BY <3>1, <3>2, <3>3
  <2> QED BY <1>13, <2>1, <2>3 DEF Pull, arrivalJobs, arrivalBook
<1>14. CASE Resolve
  <2> DEFINE read == [i \in Notices |-> Resolved(i, resolving)]
  <2>1. read \in [Notices -> Seq(Arrival)]
    BY <1>14, Gives DEF Resolve
  <2>2. Over(read) \in Seq(Arrival)
    <3> HIDE DEF read
    <3> QED BY <2>1, OverHas
  <2>3. buffer' \in Seq(Arrival)
    BY <1>14, <2>2 DEF Resolve
  <2> QED BY <1>14, <2>3 DEF Resolve, arrivalJobs, arrivalBook
<1>15. CASE ResolveUnreadable
  BY <1>15, <1>5 DEF ResolveUnreadable, ArrivalBreaks, arrivalJobs, arrivalBook, ArrivalsAssumption
<1>16. CASE BookDropped
  <2>1. store' \in Seq(Notices) /\ bell' \in Seq(Notices) /\ buffer' \in Seq(Arrival)
    BY <1>16 DEF BookDropped, arrivalJobs
  <2>2. task' \in {"open", "read", "answered", "next", "beat", "aborted"} /\ alive' \in BOOLEAN
    BY <1>16 DEF BookDropped
  <2> QED BY <1>16, <2>1, <2>2 DEF BookDropped, arrivalJobs
<1>17. ASSUME NEW w \in Waits, WaitMade(w) PROVE Typed'
  <2>1. wait' \in [Waits -> WaitType]
    <3>1. CASE alive
      <4>1. wait' = [wait EXCEPT ![w] = [@ EXCEPT !.at = "decide", !.generation = ends.generation]]
        BY <1>17, <3>1 DEF WaitMade
      <4>2. ends.generation \in Nat
        BY DEF EndType
      <4>3. [wait[w] EXCEPT !.at = "decide", !.generation = ends.generation] \in WaitType
        BY <4>2, MovedHas
      <4> QED BY <4>1, <4>3
    <3>2. CASE ~alive
      <4>1. wait' = [wait EXCEPT ![w] = [@ EXCEPT !.at = "done", !.told = <<"dropped">>]]
        BY <1>17, <3>2 DEF WaitMade
      <4>2. [wait[w] EXCEPT !.at = "done", !.told = <<"dropped">>] \in WaitType
        BY <1>b, MovedHas
      <4> QED BY <4>1, <4>2
    <3> QED BY <3>1, <3>2
  <2>2. cut' \in [Waits -> BOOLEAN]
    BY <1>17 DEF WaitMade, EndType
  <2> QED BY <1>17, <2>1, <2>2 DEF WaitMade, arrivalJobs, arrivalFeed, arrivalBook
<1>18. ASSUME NEW w \in Waits, Polled(w) PROVE Typed'
  <2> DEFINE told == IF alive THEN Decide(WaitFor[w], wait[w].generation) ELSE <<"dropped">>
  <2>1. told \in Outcomes \cup {NoOutcome}
    BY DecideHas DEF Outcomes
  <2>2. wait' = [wait EXCEPT ![w] = IF told = NoOutcome
                                   THEN [@ EXCEPT !.at = "parked"]
                                   ELSE [@ EXCEPT !.at = "done", !.told = told, !.changed = FALSE]]
    BY <1>18 DEF Polled
  <2> HIDE DEF told
  <2>a. wait[w] \in WaitType /\ NoOutcome \in Outcomes \cup {NoOutcome}
    OBVIOUS
  <2> DEFINE x == IF told = NoOutcome
                  THEN [wait[w] EXCEPT !.at = "parked"]
                  ELSE [wait[w] EXCEPT !.at = "done", !.told = told, !.changed = FALSE]
  <2>b. x \in WaitType
    <3>1. CASE told = NoOutcome
      BY <2>a, <3>1 DEF WaitType
    <3>2. CASE told # NoOutcome
      BY <2>1, <2>a, <3>2 DEF WaitType
    <3> QED BY <3>1, <3>2
  <2>c. wait' = [wait EXCEPT ![w] = x]
    BY <2>2
  <2> HIDE DEF x
  <2>3. wait' \in [Waits -> WaitType]
    BY <2>b, <2>c
  <2> QED BY <1>18, <2>3 DEF Polled, arrivalJobs, arrivalFeed, arrivalBook
<1>19. ASSUME NEW w \in Waits, WaitWoken(w) PROVE Typed'
  <2>1. wait' \in [Waits -> WaitType]
    <3>1. CASE wait[w].changed
      <4>1. wait' = [wait EXCEPT ![w] = [@ EXCEPT !.at = "decide", !.changed = FALSE]]
        BY <1>19, <3>1 DEF WaitWoken
      <4>2. [wait[w] EXCEPT !.at = "decide", !.changed = FALSE] \in WaitType
        BY MovedHas
      <4> QED BY <4>1, <4>2
    <3>2. CASE ~wait[w].changed
      <4>1. wait' = [wait EXCEPT ![w] = [@ EXCEPT !.at = "done", !.told = <<"dropped">>]]
        BY <1>19, <3>2 DEF WaitWoken
      <4>2. [wait[w] EXCEPT !.at = "done", !.told = <<"dropped">>] \in WaitType
        BY <1>b, MovedHas
      <4> QED BY <4>1, <4>2
    <3> QED BY <3>1, <3>2
  <2> QED BY <1>19, <2>1 DEF WaitWoken, arrivalJobs, arrivalFeed, arrivalBook
<1>20. CASE UNCHANGED arrivalVars
  BY <1>20 DEF arrivalVars, arrivalJobs, arrivalFeed, arrivalBook
<1> QED
  BY <1>1, <1>2, <1>3, <1>4, <1>6, <1>7, <1>9, <1>10, <1>11, <1>12, <1>13, <1>14, <1>15,
     <1>16, <1>17, <1>18, <1>19, <1>20 DEF ArrivalNext, TaskStep

-----------------------------------------------------------------------------
(* Waits                                                                   *)

\* What a step does to the waits and to the end store: the feed opens again or ends,
\* the book is given an arrival, a wait takes a step, or none of it.
LEMMA BookSteps ==
  ASSUME ArrivalsAssumption, ArrivalTypeOK, [ArrivalNext]_arrivalVars
  PROVE  \/ UNCHANGED <<ends, wait, cut>> /\ alive' \in {alive, FALSE}
         \/ ends' = [ends EXCEPT !.kept = @ /\ ~wasCut] /\ UNCHANGED <<wait, cut, alive>>
         \/ \E error : ArrivalEnded(error) /\ UNCHANGED alive
         \/ \E a \in Arrival : BookArrival(a) /\ UNCHANGED <<cut, alive>>
         \/ \E w \in Waits : /\ UNCHANGED <<ends, alive>>
                             /\ \/ WaitMade(w)
                                \/ Polled(w) /\ UNCHANGED cut
                                \/ WaitWoken(w) /\ UNCHANGED cut
<1>1. ASSUME NEW i \in Notices, Stored(i) \/ RungFor(i) \/ RungAgain(i) \/ Dropped(i)
      PROVE  UNCHANGED <<ends, wait, cut, alive>>
  BY <1>1 DEF Stored, RungFor, RungAgain, Dropped, arrivalBook
<1>2. CASE OpenConsumer \/ ReadGiven \/ NextBeat \/ Pull \/ Resolve \/ ReadUnreadable \/ ResolveUnreadable
  <2>1. UNCHANGED <<ends, wait, cut, alive>>
    BY <1>2 DEF OpenConsumer, ReadGiven, NextBeat, Pull, Resolve, ReadUnreadable, ResolveUnreadable, arrivalBook
  <2> QED BY <2>1
<1>3. CASE OpenAgain
  BY <1>3 DEF OpenAgain
<1>4. CASE Give
  <2>1. Head(buffer) \in Arrival
    <3>1. buffer \in Seq(Arrival) /\ buffer # <<>>
      BY <1>4, TypesOf DEF Give, Typed
    <3> QED BY <3>1
  <2> QED BY <1>4, <2>1 DEF Give
<1>5. ASSUME NEW error, FeedEnds(error) PROVE ArrivalEnded(error) /\ UNCHANGED alive
  BY <1>5 DEF FeedEnds
<1>6. CASE Panics
  BY <1>6 DEF Panics
<1>7. CASE BookDropped
  BY <1>7 DEF BookDropped
<1>8. ASSUME NEW w \in Waits, WaitMade(w) \/ Polled(w) \/ WaitWoken(w)
      PROVE  UNCHANGED <<ends, alive>> /\ (WaitMade(w) \/ UNCHANGED cut)
  BY <1>8 DEF WaitMade, Polled, WaitWoken, arrivalBook
<1>9. CASE UNCHANGED arrivalVars
  BY <1>9 DEF arrivalVars, arrivalBook
<1>10. ASSUME NEW i \in Notices, Stored(i) \/ RungFor(i) \/ RungAgain(i) \/ Dropped(i)
       PROVE  UNCHANGED <<ends, wait, cut>> /\ alive' \in {alive, FALSE}
  BY <1>1, <1>10
<1>11. CASE \E i \in Notices : Stored(i) \/ RungFor(i) \/ RungAgain(i) \/ Dropped(i)
  BY <1>10, <1>11
<1>12. CASE \E error \in {"infra", "lost"} : FeedEnds(error)
  BY <1>5, <1>12
<1>13. CASE \E w \in Waits : WaitMade(w) \/ Polled(w) \/ WaitWoken(w)
  BY <1>8, <1>13
<1> QED BY <1>2, <1>3, <1>4, <1>6, <1>7, <1>9, <1>11, <1>12, <1>13 DEF ArrivalNext, TaskStep

\* A sleeping wait with no change to see, by what the end store holds.
Quiet ==
    \A w \in Waits : alive /\ wait[w].at = "parked" /\ ~wait[w].changed
                        => /\ ends.outcomes[WaitFor[w]] = NoOutcome
                           /\ ~ends.kept /\ ends.generation = wait[w].generation

\* No outcome that is kept, or told for a failure, is the empty one.
LEMMA Outcome ==
  ASSUME NEW x \in {"end", "unreadable"} \X Notices
  PROVE  x # <<"infra">> /\ x # <<"dropped">> /\ x # NoOutcome /\ Len(x) = 2
  BY DEF NoOutcome

\* The look into the store finds nothing exactly when there is nothing.
LEMMA QuietOf ==
  ASSUME ArrivalsAssumption, ArrivalTypeOK PROVE NoLostWake <=> Quiet
<1>1. <<"infra">> # NoOutcome
  BY DEF NoOutcome
<1>2. ASSUME NEW w \in Waits
      PROVE  Decide(WaitFor[w], wait[w].generation) = NoOutcome
               <=> /\ ends.outcomes[WaitFor[w]] = NoOutcome
                   /\ ~ends.kept /\ ends.generation = wait[w].generation
  BY <1>1, DecideHas
<1> QED BY <1>2 DEF NoLostWake, Quiet

\* So it is after a step.
LEMMA QuietNext ==
  ASSUME ArrivalsAssumption, ArrivalTypeOK', Quiet' PROVE NoLostWake'
<1> SUFFICES ASSUME NEW w \in Waits, alive', wait'[w].at = "parked", ~wait'[w].changed
             PROVE  Decide(WaitFor[w], wait[w].generation)' = NoOutcome
  BY DEF NoLostWake
<1>1. ends'.outcomes[WaitFor[w]] = NoOutcome /\ ~ends'.kept /\ ends'.generation = wait'[w].generation
  BY DEF Quiet
<1> QED BY <1>1 DEF Decide

\* A wait that is told nothing sleeps; what it is told is an outcome of its child, or a
\* failure of its own time.
LEMMA PolledHas ==
  ASSUME ArrivalsAssumption, ArrivalTypeOK, NEW w \in Waits, Polled(w)
  PROVE  /\ \A v \in Waits : v # w => wait'[v] = wait[v]
         /\ wait'[w].generation = wait[w].generation
         /\ \/ /\ wait'[w].at = "parked" /\ wait'[w].told = wait[w].told
               /\ alive => /\ ends.outcomes[WaitFor[w]] = NoOutcome
                           /\ ~ends.kept /\ ends.generation = wait[w].generation
            \/ /\ wait'[w].at = "done"
               /\ \/ wait'[w].told = <<"dropped">>
                  \/ ends.outcomes[WaitFor[w]] # NoOutcome /\ wait'[w].told = ends.outcomes[WaitFor[w]]
                  \/ wait'[w].told = <<"infra">> /\ (ends.kept \/ ends.generation # wait[w].generation)
<1> DEFINE told == IF alive THEN Decide(WaitFor[w], wait[w].generation) ELSE <<"dropped">>
           o == ends.outcomes[WaitFor[w]]
           c == ends.kept \/ ends.generation # wait[w].generation
<1>1. wait' = [wait EXCEPT ![w] = IF told = NoOutcome
                                  THEN [@ EXCEPT !.at = "parked"]
                                  ELSE [@ EXCEPT !.at = "done", !.told = told, !.changed = FALSE]]
  BY DEF Polled
<1>2. wait \in [Waits -> WaitType]
  BY DEF ArrivalTypeOK, WaitType
<1>3. \/ told = <<"dropped">> /\ ~alive
      \/ alive /\ o # NoOutcome /\ told = o
      \/ alive /\ o = NoOutcome /\ c /\ told = <<"infra">>
      \/ alive /\ o = NoOutcome /\ ~c /\ told = NoOutcome
  BY DecideHas
<1>4. <<"infra">> # NoOutcome /\ <<"dropped">> # NoOutcome
  BY DEF NoOutcome
<1> HIDE DEF told, o, c
<1>5. CASE told = NoOutcome
  <2>1. wait'[w] = [wait[w] EXCEPT !.at = "parked"] /\ \A v \in Waits : v # w => wait'[v] = wait[v]
    BY <1>1, <1>2, <1>5
  <2>2. alive => o = NoOutcome /\ ~c
    BY <1>3, <1>4, <1>5
  <2>3. wait'[w].at = "parked" /\ wait'[w].told = wait[w].told /\ wait'[w].generation = wait[w].generation
    BY <1>2, <2>1 DEF WaitType
  <2> QED BY <2>1, <2>2, <2>3 DEF o, c
<1>6. CASE told # NoOutcome
  <2>1. /\ wait'[w] = [wait[w] EXCEPT !.at = "done", !.told = told, !.changed = FALSE]
        /\ \A v \in Waits : v # w => wait'[v] = wait[v]
    BY <1>1, <1>2, <1>6
  <2>2. wait'[w].at = "done" /\ wait'[w].told = told /\ wait'[w].generation = wait[w].generation
    BY <1>2, <2>1 DEF WaitType
  <2> QED BY <2>1, <2>2, <1>3, <1>6 DEF o, c
<1> QED BY <1>5, <1>6

\* What a wait is when it was made or is woken.
LEMMA WaitHas ==
  ASSUME ArrivalsAssumption, ArrivalTypeOK, NEW w \in Waits, WaitMade(w) \/ WaitWoken(w)
  PROVE  /\ \A v \in Waits : v # w => wait'[v] = wait[v]
         /\ \/ wait'[w].at = "decide" /\ wait'[w].told = wait[w].told
            \/ wait'[w].at = "done" /\ wait'[w].told = <<"dropped">>
         /\ WaitMade(w) => /\ wait[w].at = "none"
                           /\ wait'[w].at = "decide" => wait'[w].generation = ends.generation
                           /\ cut'[w] = ends.kept /\ \A v \in Waits : v # w => cut'[v] = cut[v]
         /\ WaitWoken(w) => wait[w].at = "parked" /\ wait'[w].generation = wait[w].generation
<1>1. wait \in [Waits -> WaitType] /\ cut \in [Waits -> BOOLEAN]
  BY DEF ArrivalTypeOK, WaitType
<1>2. CASE WaitMade(w)
  <2>1. cut'[w] = ends.kept /\ \A v \in Waits : v # w => cut'[v] = cut[v]
    BY <1>1, <1>2 DEF WaitMade
  <2>2. wait[w].at = "none" /\ ~WaitWoken(w)
    BY <1>2 DEF WaitMade, WaitWoken
  <2>3. CASE alive
    <3>1. /\ wait'[w] = [wait[w] EXCEPT !.at = "decide", !.generation = ends.generation]
          /\ \A v \in Waits : v # w => wait'[v] = wait[v]
      BY <1>1, <1>2, <2>3 DEF WaitMade
    <3>2. wait'[w].at = "decide" /\ wait'[w].told = wait[w].told /\ wait'[w].generation = ends.generation
      BY <1>1, <3>1 DEF WaitType
    <3> QED BY <2>1, <2>2, <3>1, <3>2
  <2>4. CASE ~alive
    <3>1. /\ wait'[w] = [wait[w] EXCEPT !.at = "done", !.told = <<"dropped">>]
          /\ \A v \in Waits : v # w => wait'[v] = wait[v]
      BY <1>1, <1>2, <2>4 DEF WaitMade
    <3>2. wait'[w].at = "done" /\ wait'[w].told = <<"dropped">>
      BY <1>1, <3>1 DEF WaitType
    <3> QED BY <2>1, <2>2, <3>1, <3>2
  <2> QED BY <2>3, <2>4
<1>3. CASE WaitWoken(w)
  <2>1. wait[w].at = "parked" /\ ~WaitMade(w)
    BY <1>3 DEF WaitMade, WaitWoken
  <2>2. CASE wait[w].changed
    <3>1. /\ wait'[w] = [wait[w] EXCEPT !.at = "decide", !.changed = FALSE]
          /\ \A v \in Waits : v # w => wait'[v] = wait[v]
      BY <1>1, <1>3, <2>2 DEF WaitWoken
    <3>2. wait'[w].at = "decide" /\ wait'[w].told = wait[w].told /\ wait'[w].generation = wait[w].generation
      BY <1>1, <3>1 DEF WaitType
    <3> QED BY <2>1, <3>1, <3>2
  <2>3. CASE ~wait[w].changed
    <3>1. /\ wait'[w] = [wait[w] EXCEPT !.at = "done", !.told = <<"dropped">>]
          /\ \A v \in Waits : v # w => wait'[v] = wait[v]
      BY <1>1, <1>3, <2>3 DEF WaitWoken
    <3>2. wait'[w].at = "done" /\ wait'[w].told = <<"dropped">> /\ wait'[w].generation = wait[w].generation
      BY <1>1, <3>1 DEF WaitType
    <3> QED BY <2>1, <3>1, <3>2
  <2> QED BY <2>2, <2>3
<1> QED BY <1>2, <1>3

\* What the end of the feed does: a missing infrastructure makes a new generation, cuts
\* every wait that was made and wakes the ones that wait.
LEMMA EndedHas ==
  ASSUME ArrivalsAssumption, ArrivalTypeOK, NEW error, ArrivalEnded(error)
  PROVE  /\ \A w \in Waits : /\ wait'[w].at = wait[w].at /\ wait'[w].told = wait[w].told
                             /\ wait'[w].generation = wait[w].generation
                             /\ cut[w] => cut'[w]
         /\ ends'.outcomes = ends.outcomes
         /\ \/ ends' = ends /\ wait' = wait
            \/ \A w \in Waits : /\ wait[w].at # "none" => cut'[w]
                                /\ wait[w].at \in {"decide", "parked"} => wait'[w].changed
<1>1. cut' = [w \in Waits |-> cut[w] \/ (error = "infra" /\ wait[w].at # "none")]
  BY DEF ArrivalEnded
<1>2. CASE error = "infra"
  <2>1. ends' = [ends EXCEPT !.kept = TRUE, !.generation = @ + 1] /\ wait' = Signalled(wait)
    BY <1>2 DEF ArrivalEnded
  <2>2. ends'.outcomes = ends.outcomes
    BY <2>1 DEF ArrivalTypeOK
  <2> QED BY <1>1, <1>2, <2>1, <2>2, SignalledHas
<1>3. CASE error # "infra"
  <2>1. ends' = ends /\ wait' = wait
    BY <1>3 DEF ArrivalEnded
  <2> QED BY <1>1, <2>1
<1> QED BY <1>2, <1>3

\* What an arrival does to the end store: it keeps an outcome of its child, or nothing.
LEMMA ArrivalHas ==
  ASSUME ArrivalsAssumption, ArrivalTypeOK, NEW a \in Arrival, BookArrival(a)
  PROVE  /\ ends'.kept = ends.kept /\ ends'.generation = ends.generation
         /\ \A c \in Children :
              \/ ends'.outcomes[c] = ends.outcomes[c]
              \/ /\ ends.outcomes[c] = NoOutcome
                 /\ ends'.outcomes[c] \in {"end", "unreadable"} \X Notices
                 /\ ChildOf[ends'.outcomes[c][2]] = c
         /\ \A w \in Waits : /\ wait'[w].at = wait[w].at /\ wait'[w].told = wait[w].told
                             /\ wait'[w].generation = wait[w].generation
         /\ \/ ends' = ends /\ wait' = wait
            \/ \A w \in Waits : wait[w].at \in {"decide", "parked"} => wait'[w].changed
         /\ a.arrival # "item" /\ a.of \in Notices /\ ChildOf[a.of] # NoChild
              => ends'.outcomes[ChildOf[a.of]] # NoOutcome
<1>1. CASE /\ UNCHANGED <<ends, wait>>
           /\ a.arrival # "item" /\ ChildNamed(a) # NoChild =>
                ends.outcomes[ChildNamed(a)] # NoOutcome
  <2>1. a.of \in Notices => ChildNamed(a) = ChildOf[a.of]
    BY DEF ChildNamed, ArrivalsAssumption
  <2> QED BY <1>1, <2>1
<1>2. CASE /\ a.arrival # "item" /\ a.of \in Notices /\ ChildOf[a.of] \in Children
           /\ ends.outcomes[ChildOf[a.of]] = NoOutcome
           /\ ends' = [ends EXCEPT !.outcomes[ChildOf[a.of]] = <<a.arrival, a.of>>]
           /\ wait' = Signalled(wait)
  <2> DEFINE x == <<a.arrival, a.of>>
             d == ChildOf[a.of]
  <2>1. x \in {"end", "unreadable"} \X Notices /\ x[2] = a.of
    BY <1>2, KeptType
  <2>2. x # NoOutcome
    BY <2>1, Outcome
  <2>3. /\ ends'.kept = ends.kept /\ ends'.generation = ends.generation
        /\ ends'.outcomes = [ends.outcomes EXCEPT ![d] = x]
    BY <1>2 DEF ArrivalTypeOK
  <2> HIDE DEF x
  <2>4. \A c \in Children : ends'.outcomes[c] = IF c = d THEN x ELSE ends.outcomes[c]
    BY <2>3 DEF ArrivalTypeOK
  <2>5. ChildOf[x[2]] = d
    BY <2>1
  <2>6. \A w \in Waits : /\ wait'[w].at = wait[w].at /\ wait'[w].told = wait[w].told
                         /\ wait'[w].generation = wait[w].generation
                         /\ wait[w].at \in {"decide", "parked"} => wait'[w].changed
    BY <1>2, SignalledHas
  <2> QED BY <1>2, <2>1, <2>2, <2>3, <2>4, <2>5, <2>6
<1> QED BY <1>1, <1>2, Arrives

\* No wake is lost: what slips in before the sleep is a change to see.
LEMMA NextWake ==
  ASSUME ArrivalsAssumption, ArrivalTypeOK, ArrivalTypeOK', NoLostWake, [ArrivalNext]_arrivalVars PROVE NoLostWake'
<1>0. Quiet
  BY QuietOf
<1> SUFFICES ASSUME NEW v \in Waits, alive', wait'[v].at = "parked", ~wait'[v].changed
             PROVE  /\ ends'.outcomes[WaitFor[v]] = NoOutcome
                    /\ ~ends'.kept /\ ends'.generation = wait'[v].generation
  <2>1. Quiet' => NoLostWake'
    BY QuietNext
  <2> QED BY <2>1 DEF Quiet
<1>1. CASE UNCHANGED <<ends, wait, cut>> /\ alive' \in {alive, FALSE}
  BY <1>0, <1>1 DEF Quiet
<1>2. CASE ends' = [ends EXCEPT !.kept = @ /\ ~wasCut] /\ UNCHANGED <<wait, cut, alive>>
  <2>1. /\ ends'.outcomes = ends.outcomes /\ ends'.generation = ends.generation
        /\ ~ends.kept => ~ends'.kept
    BY <1>2 DEF ArrivalTypeOK
  <2> QED BY <1>0, <1>2, <2>1 DEF Quiet
<1>3. ASSUME NEW error, ArrivalEnded(error), UNCHANGED alive
      PROVE  /\ ends'.outcomes[WaitFor[v]] = NoOutcome
             /\ ~ends'.kept /\ ends'.generation = wait'[v].generation
  BY <1>0, <1>3, EndedHas DEF Quiet
<1>4. ASSUME NEW a \in Arrival, BookArrival(a), UNCHANGED <<cut, alive>>
      PROVE  /\ ends'.outcomes[WaitFor[v]] = NoOutcome
             /\ ~ends'.kept /\ ends'.generation = wait'[v].generation
  <2>1. /\ wait'[v].at = wait[v].at
        /\ \/ ends' = ends /\ wait' = wait
           \/ wait[v].at \in {"decide", "parked"} => wait'[v].changed
    BY <1>4, ArrivalHas
  <2>2. ends' = ends /\ wait' = wait
    BY <2>1
  <2> QED BY <1>0, <1>4, <2>2 DEF Quiet
<1>5. ASSUME NEW w \in Waits, UNCHANGED <<ends, alive>>, WaitMade(w) \/ Polled(w) \/ WaitWoken(w)
      PROVE  /\ ends'.outcomes[WaitFor[v]] = NoOutcome
             /\ ~ends'.kept /\ ends'.generation = wait'[v].generation
  <2>1. CASE v # w
    <3>1. wait'[v] = wait[v]
      BY <1>5, <2>1, PolledHas, WaitHas
    <3> QED BY <1>0, <1>5, <3>1 DEF Quiet
  <2>2. CASE v = w
    <3>1. Polled(w)
      BY <1>5, <2>2, WaitHas
    <3> QED BY <1>5, <2>2, <3>1, PolledHas
  <2> QED BY <2>1, <2>2
<1> QED BY <1>1, <1>2, <1>3, <1>4, <1>5, BookSteps

\* A wait is failed for a break of its own time.
LEMMA NextCut ==
  ASSUME ArrivalsAssumption, ArrivalTypeOK, CutKept, ToldKept, [ArrivalNext]_arrivalVars PROVE CutKept'
<1>0. <<"infra">> # NoOutcome /\ <<"infra">> # <<"dropped">>
  BY DEF NoOutcome
<1> DEFINE Kept(v) ==
             /\ wait[v].at \in {"decide", "parked"} /\ (ends.kept \/ ends.generation # wait[v].generation)
                   => cut[v]
             /\ wait[v].at # "done" => wait[v].told = NoOutcome
             /\ wait[v].told = <<"infra">> => cut[v]
           KeptNext(v) ==
             /\ wait'[v].at \in {"decide", "parked"} /\ (ends'.kept \/ ends'.generation # wait'[v].generation)
                   => cut'[v]
             /\ wait'[v].at # "done" => wait'[v].told = NoOutcome
             /\ wait'[v].told = <<"infra">> => cut'[v]
<1>k. \A v \in Waits : Kept(v)
  BY DEF CutKept
<1> SUFFICES ASSUME NEW v \in Waits PROVE KeptNext(v)
  BY DEF CutKept
<1>1. CASE UNCHANGED <<ends, wait, cut>> /\ alive' \in {alive, FALSE}
  BY <1>k, <1>1
<1>2. CASE ends' = [ends EXCEPT !.kept = @ /\ ~wasCut] /\ UNCHANGED <<wait, cut, alive>>
  <2>1. /\ ends'.outcomes = ends.outcomes /\ ends'.generation = ends.generation
        /\ ~ends.kept => ~ends'.kept
    BY <1>2 DEF ArrivalTypeOK
  <2> QED BY <1>k, <1>2, <2>1
<1>3. ASSUME NEW error, ArrivalEnded(error) PROVE KeptNext(v)
  <2>1. /\ wait'[v].at = wait[v].at /\ wait'[v].told = wait[v].told
        /\ wait'[v].generation = wait[v].generation /\ (cut[v] => cut'[v])
        /\ (ends' = ends) \/ (wait[v].at # "none" => cut'[v])
    BY <1>3, EndedHas
  <2> QED BY <1>k, <2>1
<1>4. ASSUME NEW a \in Arrival, BookArrival(a), UNCHANGED cut PROVE KeptNext(v)
  <2>1. /\ wait'[v].at = wait[v].at /\ wait'[v].told = wait[v].told
        /\ wait'[v].generation = wait[v].generation
        /\ ends'.kept = ends.kept /\ ends'.generation = ends.generation
    BY <1>4, ArrivalHas
  <2> QED BY <1>k, <1>4, <2>1
<1>5. ASSUME NEW w \in Waits, UNCHANGED ends, WaitMade(w) PROVE KeptNext(v)
  <2>1. CASE v # w
    <3>1. wait'[v] = wait[v] /\ cut'[v] = cut[v]
      BY <1>5, <2>1, WaitHas
    <3> QED BY <1>k, <1>5, <3>1
  <2>2. CASE v = w
    <3>1. /\ \/ wait'[v].at = "decide" /\ wait'[v].told = wait[v].told /\ wait'[v].generation = ends.generation
             \/ wait'[v].at = "done" /\ wait'[v].told = <<"dropped">>
          /\ wait[v].at = "none" /\ cut'[v] = ends.kept
      BY <1>5, <2>2, WaitHas
    <3> QED BY <1>0, <1>k, <1>5, <3>1
  <2> QED BY <2>1, <2>2
<1>6. ASSUME NEW w \in Waits, UNCHANGED <<ends, cut>>, WaitWoken(w) PROVE KeptNext(v)
  <2>1. CASE v # w
    <3>1. wait'[v] = wait[v]
      BY <1>6, <2>1, WaitHas
    <3> QED BY <1>k, <1>6, <3>1
  <2>2. CASE v = w
    <3>1. /\ \/ wait'[v].at = "decide" /\ wait'[v].told = wait[v].told
             \/ wait'[v].at = "done" /\ wait'[v].told = <<"dropped">>
          /\ wait[v].at = "parked" /\ wait'[v].generation = wait[v].generation
      BY <1>6, <2>2, WaitHas
    <3> QED BY <1>0, <1>k, <1>6, <3>1
  <2> QED BY <2>1, <2>2
<1>7. ASSUME NEW w \in Waits, UNCHANGED <<ends, cut>>, Polled(w) PROVE KeptNext(v)
  <2>1. CASE v # w
    <3>1. wait'[v] = wait[v]
      BY <1>7, <2>1, PolledHas
    <3> QED BY <1>k, <1>7, <3>1
  <2>2. CASE v = w
    <3>1. wait[v].at = "decide"
      BY <1>7, <2>2 DEF Polled
    <3>2. WaitFor[v] \in Children
      BY DEF ArrivalsAssumption
    <3>3. ends.outcomes[WaitFor[v]] # NoOutcome => ends.outcomes[WaitFor[v]] # <<"infra">>
      BY <3>2, Outcome DEF ToldKept
    <3>4. wait'[v].generation = wait[v].generation
      BY <1>7, <2>2, PolledHas
    <3>5. \/ wait'[v].at = "parked" /\ wait'[v].told = wait[v].told
          \/ /\ wait'[v].at = "done"
             /\ \/ wait'[v].told # <<"infra">>
                \/ ends.kept \/ ends.generation # wait[v].generation
      BY <1>0, <1>7, <2>2, <3>3, PolledHas
    <3> QED BY <1>k, <1>7, <3>1, <3>4, <3>5
  <2> QED BY <2>1, <2>2
<1> HIDE DEF Kept, KeptNext
<1> QED BY <1>1, <1>2, <1>3, <1>4, <1>5, <1>6, <1>7, BookSteps

\* What was told is true: an outcome is never replaced.
LEMMA NextTold ==
  ASSUME ArrivalsAssumption, ArrivalTypeOK, ToldKept, CutKept, [ArrivalNext]_arrivalVars PROVE ToldKept'
<1> DEFINE Fails == {NoOutcome, <<"infra">>, <<"dropped">>}
           OfChild(x, c) == x \in {"end", "unreadable"} \X Notices /\ ChildOf[x[2]] = c
<1>a. \A c \in Children : ends.outcomes[c] # NoOutcome => OfChild(ends.outcomes[c], c)
  BY DEF ToldKept
<1>b. \A w \in Waits : wait[w].told \in Fails \/ wait[w].told = ends.outcomes[WaitFor[w]]
  BY DEF ToldKept
<1>c. \A w \in Waits : WaitFor[w] \in Children
  BY DEF ArrivalsAssumption
<1>1. \A c \in Children : \/ ends'.outcomes[c] = ends.outcomes[c]
                          \/ ends.outcomes[c] = NoOutcome /\ OfChild(ends'.outcomes[c], c)
  <2> HIDE DEF Fails
  <2>1. CASE UNCHANGED ends
    BY <2>1
  <2>2. CASE ends' = [ends EXCEPT !.kept = @ /\ ~wasCut]
    BY <2>2 DEF ArrivalTypeOK
  <2>3. ASSUME NEW error, ArrivalEnded(error) PROVE ends'.outcomes = ends.outcomes
    BY <2>3, EndedHas
  <2>4. ASSUME NEW a \in Arrival, BookArrival(a), NEW c \in Children
        PROVE  \/ ends'.outcomes[c] = ends.outcomes[c]
               \/ ends.outcomes[c] = NoOutcome /\ OfChild(ends'.outcomes[c], c)
    BY <2>4, ArrivalHas
  <2> HIDE DEF OfChild
  <2> QED BY <2>1, <2>2, <2>3, <2>4, BookSteps
<1>2. \A w \in Waits : \/ wait'[w].told = wait[w].told
                       \/ wait'[w].told \in {<<"infra">>, <<"dropped">>}
                       \/ wait'[w].told = ends.outcomes[WaitFor[w]] /\ ends' = ends
  <2> SUFFICES ASSUME NEW w \in Waits
               PROVE  \/ wait'[w].told = wait[w].told
                      \/ wait'[w].told \in {<<"infra">>, <<"dropped">>}
                      \/ wait'[w].told = ends.outcomes[WaitFor[w]] /\ ends' = ends
    OBVIOUS
  <2>1. CASE UNCHANGED wait
    BY <2>1
  <2>2. ASSUME NEW error, ArrivalEnded(error) PROVE wait'[w].told = wait[w].told
    BY <2>2, EndedHas
  <2>3. ASSUME NEW a \in Arrival, BookArrival(a) PROVE wait'[w].told = wait[w].told
    BY <2>3, ArrivalHas
  <2>4. ASSUME NEW v \in Waits, WaitMade(v) \/ WaitWoken(v)
        PROVE  wait'[w].told = wait[w].told \/ wait'[w].told = <<"dropped">>
    <3>1. CASE v = w
      BY <2>4, <3>1, WaitHas
    <3>2. CASE v # w
      BY <2>4, <3>2, WaitHas
    <3> QED BY <3>1, <3>2
  <2>5. ASSUME NEW v \in Waits, Polled(v)
        PROVE  \/ wait'[w].told = wait[w].told
               \/ wait'[w].told \in {<<"infra">>, <<"dropped">>}
               \/ wait'[w].told = ends.outcomes[WaitFor[w]]
    <3>1. CASE v = w
      BY <2>5, <3>1, PolledHas
    <3>2. CASE v # w
      BY <2>5, <3>2, PolledHas
    <3> QED BY <3>1, <3>2
  <2> QED BY <2>1, <2>2, <2>3, <2>4, <2>5, BookSteps
<1>3. \A c \in Children : ends'.outcomes[c] # NoOutcome => OfChild(ends'.outcomes[c], c)
  BY <1>a, <1>1
<1>4. ASSUME NEW w \in Waits
      PROVE  wait'[w].told \in Fails \/ wait'[w].told = ends'.outcomes[WaitFor[w]]
  <2>1. CASE wait'[w].told = wait[w].told
    BY <1>b, <1>c, <1>1, <2>1
  <2>2. CASE wait'[w].told \in {<<"infra">>, <<"dropped">>}
    BY <2>2
  <2>3. CASE wait'[w].told = ends.outcomes[WaitFor[w]] /\ ends' = ends
    BY <2>3
  <2> QED BY <1>2, <2>1, <2>2, <2>3
<1> QED BY <1>3, <1>4 DEF ToldKept

-----------------------------------------------------------------------------
(* Ends                                                                    *)

\* A read over the stored items holds the end of each one that gives it.
LEMMA HeldOf ==
  ASSUME store \in Seq(Notices), NEW read \in [Notices -> Seq(Arrival)], buffer' = Over(read),
         NEW i \in ToSet(store), \E a \in ToSet(read[i]) : a.arrival # "item" /\ a.of = i
  PROVE  Held(i)'
<1>1. PICK a \in ToSet(read[i]) : a.arrival # "item" /\ a.of = i
  OBVIOUS
<1>2. a \in ToSet(Over(read))
  BY <1>1, OverHas
<1>3. PICK k \in DOMAIN buffer' : buffer'[k] = a
  BY <1>2 DEF ToSet
<1> QED BY <1>1, <1>3 DEF Held

\* An end that is stored and rung stays known or on its way.
LEMMA NextWay ==
  ASSUME ArrivalsAssumption, ArrivalTypeOK, WayKept, [ArrivalNext]_arrivalVars PROVE WayKept'
<1>t. /\ store \in Seq(Notices) /\ bell \in Seq(Notices) /\ buffer \in Seq(Arrival)
      /\ resolving \in Notices \cup {NoItem} /\ rung \subseteq Notices /\ blind \subseteq Notices
  BY TypesOf DEF Typed
<1>u. ToSet(store) \subseteq Notices
  BY <1>t, SetOf
<1> DEFINE Known(i) == ends.outcomes[ChildOf[i]] # NoOutcome
           KnownNext(i) == ends'.outcomes[ChildOf[i]] # NoOutcome
           Due == (ToSet(store) \cap rung) \ blind
           DueNext == (ToSet(store') \cap rung') \ blind'
<1>a. alive /\ task \in {"answered", "next"} => \A i \in Due : Decisive(i) => Known(i) \/ OnItsWay(i)
  BY DEF WayKept
<1> SUFFICES ASSUME alive', task' \in {"answered", "next"}, NEW j \in DueNext, Decisive(j)
             PROVE  KnownNext(j) \/ OnItsWay(j)'
  BY DEF WayKept, Decisive
<1> HIDE DEF Due, DueNext, Known, KnownNext
<1>0. /\ Held(j)' = \E k \in DOMAIN buffer' : buffer'[k].arrival # "item" /\ buffer'[k].of = j
      /\ OnItsWay(j)' = (j \in ToSet(bell') \/ resolving' = j \/ Held(j)')
      /\ OnItsWay(j) = (j \in ToSet(bell) \/ resolving = j \/ Held(j))
  BY DEF OnItsWay, Held
\* Steps that change nothing but what is stored, rung or told.
<1>b. ASSUME UNCHANGED <<ends, buffer, resolving>>, alive, task \in {"answered", "next"},
             j \in Due, ToSet(bell) \subseteq ToSet(bell')
      PROVE  KnownNext(j) \/ OnItsWay(j)'
  <2>1. Known(j) \/ OnItsWay(j)
    BY <1>a, <1>b
  <2>2. Held(j)' = Held(j)
    BY <1>b DEF Held
  <2> QED BY <1>0, <1>b, <2>1, <2>2 DEF Known, KnownNext
<1>1. ASSUME NEW i \in Notices, Stored(i) PROVE KnownNext(j) \/ OnItsWay(j)'
  <2>1. ToSet(store') = ToSet(store) \cup {i} /\ i \notin rung
    BY <1>t, <1>1, SetOf DEF Stored
  <2>2. UNCHANGED <<ends, buffer, resolving, bell, rung, blind, task, alive>>
    BY <1>1 DEF Stored, arrivalFeed, arrivalBook
  <2>3. j \in Due
    BY <2>1, <2>2 DEF Due, DueNext
  <2> QED BY <1>b, <2>2, <2>3
<1>2. ASSUME NEW i \in Notices, RungFor(i) PROVE KnownNext(j) \/ OnItsWay(j)'
  <2>1. UNCHANGED <<ends, buffer, resolving, store, blind, task, alive>> /\ rung' = rung \cup {i}
    BY <1>2 DEF RungFor, arrivalBook
  <2>2. HasConsumer
    BY <2>1 DEF HasConsumer
  <2>3. ToSet(bell') = ToSet(bell) \cup {i}
    BY <1>t, <1>2, <2>2, SetOf DEF RungFor
  <2>4. CASE j = i
    BY <1>0, <2>3, <2>4
  <2>5. CASE j # i
    <3>1. j \in Due
      BY <2>1, <2>5 DEF Due, DueNext
    <3> QED BY <1>b, <2>1, <2>3, <3>1
  <2> QED BY <2>4, <2>5
<1>3. ASSUME NEW i \in Notices, RungAgain(i) PROVE KnownNext(j) \/ OnItsWay(j)'
  <2>1. UNCHANGED <<ends, buffer, resolving, store, rung, blind, task, alive>>
    BY <1>3 DEF RungAgain, arrivalJobs, arrivalBook
  <2>2. ToSet(bell') = ToSet(bell) \cup {i}
    BY <1>t, <1>3, SetOf DEF RungAgain
  <2>3. j \in Due
    BY <2>1 DEF Due, DueNext
  <2> QED BY <1>b, <2>1, <2>2, <2>3
<1>4. ASSUME NEW i \in Notices, Dropped(i) PROVE KnownNext(j) \/ OnItsWay(j)'
  <2> DEFINE read == [n \in Notices |-> IF n = i THEN <<>> ELSE <<n>>]
  <2>1. read \in [Notices -> Seq(Notices)] /\ store' = Over(read)
    BY <1>4 DEF Dropped
  <2>2. \A n \in Notices : \A x : x \in ToSet(read[n]) => x = n
    BY DEF ToSet
  <2> HIDE DEF read
  <2>3. ToSet(store') \subseteq ToSet(store)
    <3>1. \A x : x \in ToSet(Over(read)) <=> \E n \in ToSet(store) : x \in ToSet(read[n])
      BY <1>t, <2>1, OverHas
    <3> QED BY <1>u, <2>1, <2>2, <3>1
  <2>4. UNCHANGED <<ends, buffer, resolving, rung, blind, bell, task, alive>>
    BY <1>4 DEF Dropped, arrivalFeed, arrivalBook
  <2>5. j \in Due
    BY <2>3, <2>4 DEF Due, DueNext
  <2> QED BY <1>b, <2>4, <2>5
<1>5. CASE OpenConsumer \/ NextBeat \/ BookDropped \/ Panics
  BY <1>5 DEF OpenConsumer, NextBeat, BookDropped, Panics
<1>6. ASSUME NEW error, FeedEnds(error) PROVE FALSE
  BY <1>6 DEF FeedEnds
<1>7. CASE ReadGiven
  <2> DEFINE read == [i \in Notices |-> ReplayOne(i)]
  <2>1. buffer' = Over(read) /\ store' = store
    BY <1>7 DEF ReadGiven, arrivalJobs
  <2>2. j \in ToSet(store) /\ j \in Notices
    BY <1>u, <2>1 DEF DueNext
  <2>3. read \in [Notices -> Seq(Arrival)] /\ read[j] = ReplayOne(j)
    BY <2>2, Gives
  <2> HIDE DEF read
  <2>4. \E a \in ToSet(read[j]) : a.arrival # "item" /\ a.of = j
    BY <2>2, <2>3, Gives
  <2>5. Held(j)'
    BY <1>t, <2>1, <2>2, <2>3, <2>4, HeldOf
  <2> QED BY <1>0, <2>5
<1>8. CASE ReadUnreadable
  <2>1. /\ blind' = blind \cup {i \in ToSet(store) : i \in rung /\ i \notin ToSet(bell)}
        /\ UNCHANGED <<store, rung, bell>>
    BY <1>8 DEF ReadUnreadable, arrivalJobs
  <2>2. j \in ToSet(bell')
    BY <2>1 DEF DueNext
  <2> QED BY <1>0, <2>2
<1>9. CASE OpenAgain
  <2>1. UNCHANGED <<store, rung, blind, bell, buffer, resolving, alive>> /\ task = "answered"
    BY <1>9 DEF OpenAgain, arrivalJobs
  <2>2. ends'.outcomes = ends.outcomes
    BY <1>9 DEF OpenAgain, ArrivalTypeOK
  <2>3. j \in Due
    BY <2>1 DEF Due, DueNext
  <2>4. Known(j) \/ OnItsWay(j)
    BY <1>a, <2>1, <2>3
  <2>5. Held(j)' = Held(j)
    BY <2>1 DEF Held
  <2> QED BY <1>0, <2>1, <2>2, <2>4, <2>5 DEF Known, KnownNext
<1>10. CASE Give
  <2>1. /\ UNCHANGED <<store, rung, blind, bell, resolving, alive, task>> /\ task = "next" /\ buffer # <<>>
        /\ buffer' = Tail(buffer) /\ BookArrival(Head(buffer))
    BY <1>10 DEF Give, arrivalJobs
  <2>2. Head(buffer) \in Arrival
    BY <1>t, <2>1, SetOf
  <2>3. j \in Due /\ j \in Notices
    BY <1>u, <2>1 DEF Due, DueNext
  <2>4. ChildOf[j] \in Children /\ ChildOf[j] # NoChild
    BY <2>3 DEF Decisive, ArrivalsAssumption
  <2>5. Known(j) => KnownNext(j)
    <3>1. \/ ends'.outcomes[ChildOf[j]] = ends.outcomes[ChildOf[j]]
          \/ ends.outcomes[ChildOf[j]] = NoOutcome
      BY <2>1, <2>2, <2>4, ArrivalHas
    <3> QED BY <3>1 DEF Known, KnownNext
  <2>6. ASSUME Held(j) PROVE KnownNext(j) \/ Held(j)'
    <3>1. PICK k \in DOMAIN buffer : buffer[k].arrival # "item" /\ buffer[k].of = j
      BY <2>6 DEF Held
    <3>2. CASE k = 1
      <4>1. Head(buffer) = buffer[1]
        BY <1>t, <2>1
      <4>2. Head(buffer).arrival # "item" /\ Head(buffer).of = j
        BY <3>1, <3>2, <4>1
      <4> QED BY <2>1, <2>2, <2>3, <2>4, <4>2, ArrivalHas DEF KnownNext
    <3>3. CASE k # 1
      <4>1. k - 1 \in DOMAIN buffer' /\ buffer'[k - 1] = buffer[k]
        BY <1>t, <2>1, <3>3, SetOf
      <4> QED BY <1>0, <3>1, <4>1
    <3> QED BY <3>2, <3>3
  <2>7. Known(j) \/ OnItsWay(j)
    BY <1>a, <2>1, <2>3
  <2> QED BY <1>0, <2>1, <2>5, <2>6, <2>7
<1>11. CASE Pull
  <2>1. /\ UNCHANGED <<store, rung, blind, ends, alive, task>> /\ task = "next" /\ buffer = <<>>
        /\ resolving = NoItem /\ bell # <<>> /\ bell' = Tail(bell)
        /\ resolving' = IF IsRunLevelNotice(Head(bell)) THEN Head(bell) ELSE NoItem
    BY <1>11 DEF Pull, arrivalJobs, arrivalBook
  <2>2. j \in Due /\ j \in Notices /\ j # NoItem
    BY <1>u, <2>1 DEF Due, DueNext, ArrivalsAssumption
  <2>3. ~Held(j)
    BY <2>1 DEF Held
  <2>4. Known(j) \/ j \in ToSet(bell)
    BY <1>0, <1>a, <2>1, <2>2, <2>3
  <2>5. j \in ToSet(bell) => j = Head(bell) \/ j \in ToSet(bell')
    BY <1>t, <2>1, SetOf
  <2>6. IsRunLevelNotice(j)
    BY DEF Decisive, IsRunLevelNotice
  <2> QED BY <1>0, <2>1, <2>4, <2>5, <2>6 DEF Known, KnownNext
<1>12. CASE Resolve
  <2> DEFINE read == [i \in Notices |-> Resolved(i, resolving)]
  <2>1. /\ UNCHANGED <<store, rung, blind, bell, ends, alive, task>> /\ task = "next" /\ buffer = <<>>
        /\ resolving # NoItem /\ buffer' = Over(read)
    BY <1>12 DEF Resolve, arrivalJobs, arrivalBook
  <2>2. j \in Due /\ j \in ToSet(store) /\ j \in Notices
    BY <1>u, <2>1 DEF Due, DueNext
  <2>3. ~Held(j)
    BY <2>1 DEF Held
  <2>4. Known(j) \/ j \in ToSet(bell) \/ resolving = j
    BY <1>0, <1>a, <2>1, <2>2, <2>3
  <2>5. ASSUME resolving = j PROVE Held(j)'
    <3>1. read \in [Notices -> Seq(Arrival)] /\ read[j] = Resolved(j, j)
      BY <2>2, <2>5, Gives
    <3> HIDE DEF read
    <3>2. \E a \in ToSet(read[j]) : a.arrival # "item" /\ a.of = j
      BY <2>2, <3>1, Gives
    <3> QED BY <1>t, <2>1, <2>2, <3>1, <3>2, HeldOf
  <2> QED BY <1>0, <2>1, <2>4, <2>5 DEF Known, KnownNext
<1>13. CASE ResolveUnreadable
  <2>1. /\ UNCHANGED <<store, rung, bell, ends, alive, task>> /\ task = "next" /\ buffer = <<>>
        /\ blind' = blind \cup {resolving}
    BY <1>13 DEF ResolveUnreadable, arrivalJobs, arrivalBook
  <2>2. j \in Due /\ j # resolving
    BY <2>1 DEF Due, DueNext
  <2>3. ~Held(j)
    BY <2>1 DEF Held
  <2>4. Known(j) \/ j \in ToSet(bell)
    BY <1>0, <1>a, <2>1, <2>2, <2>3
  <2> QED BY <1>0, <2>1, <2>4 DEF Known, KnownNext
<1>14. ASSUME NEW w \in Waits, WaitMade(w) \/ Polled(w) \/ WaitWoken(w) PROVE KnownNext(j) \/ OnItsWay(j)'
  <2>1. UNCHANGED <<ends, buffer, resolving, store, rung, blind, bell, task, alive>>
    BY <1>14 DEF WaitMade, Polled, WaitWoken, arrivalJobs, arrivalFeed, arrivalBook
  <2>2. j \in Due
    BY <2>1 DEF Due, DueNext
  <2> QED BY <1>b, <2>1, <2>2
<1>15. CASE UNCHANGED arrivalVars
  <2>1. UNCHANGED <<ends, buffer, resolving, store, rung, blind, bell, task, alive>>
    BY <1>15 DEF arrivalVars, arrivalJobs, arrivalFeed, arrivalBook
  <2>2. j \in Due
    BY <2>1 DEF Due, DueNext
  <2> QED BY <1>b, <2>1, <2>2
<1> QED
  BY <1>1, <1>2, <1>3, <1>4, <1>5, <1>6, <1>7, <1>8, <1>9, <1>10, <1>11, <1>12, <1>13, <1>14, <1>15
     DEF ArrivalNext, TaskStep

-----------------------------------------------------------------------------
(* Theorems about the arrivals                                             *)

\* The inductive invariant of the arrivals.
THEOREM ArrivalsInvariant == ArrivalSpec => []EndInv
<1>1. ArrivalInit => EndInv
  BY ArrivalsAssumption, InitArrivals
<1>2. EndInv /\ [ArrivalNext]_arrivalVars => EndInv'
  <2> SUFFICES ASSUME EndInv, [ArrivalNext]_arrivalVars PROVE EndInv'
    OBVIOUS
  <2> USE ArrivalsAssumption DEF EndInv
  <2>1. ArrivalTypeOK'
    BY NextTypes
  <2>2. NoLostWake' /\ CutKept' /\ ToldKept' /\ WayKept'
    BY <2>1, NextWake, NextCut, NextTold, NextWay
  <2> QED BY <2>1, <2>2
<1> QED BY <1>1, <1>2, PTL DEF ArrivalSpec

\* A wait that sleeps with no change to see has nothing to be told (watch_store).
THEOREM WakesAreNotLost == ArrivalSpec => []NoLostWake
<1>1. EndInv => NoLostWake
  BY DEF EndInv
<1> QED BY <1>1, ArrivalsInvariant, PTL

\* A wait is failed only for a break of its own time, and all the waits of one child that
\* are told an outcome are told the same one (EndStore::decide, EndStore::record).
THEOREM ToldOfItsTime == ArrivalSpec => []NotFailedForThePast
<1>1. ASSUME EndInv PROVE NotFailedForThePast
  <2> SUFFICES ASSUME NEW v \in Waits, NEW w \in Waits
               PROVE  /\ wait[w].told = <<"infra">> => cut[w]
                      /\ Len(wait[w].told) = 2 =>
                           /\ ChildOf[wait[w].told[2]] = WaitFor[w]
                           /\ WaitFor[v] = WaitFor[w] /\ Len(wait[v].told) = 2
                                => wait[v].told = wait[w].told
    BY DEF NotFailedForThePast
  <2>1. wait[w].told = <<"infra">> => cut[w]
    BY <1>1 DEF EndInv, CutKept
  <2>2. Len(NoOutcome) # 2 /\ Len(<<"infra">>) # 2 /\ Len(<<"dropped">>) # 2
    BY DEF NoOutcome
  <2>3. ASSUME NEW u \in Waits, Len(wait[u].told) = 2
        PROVE  wait[u].told = ends.outcomes[WaitFor[u]] /\ ends.outcomes[WaitFor[u]] # NoOutcome
    BY <1>1, <2>2, <2>3 DEF EndInv, ToldKept
  <2>4. WaitFor[w] \in Children
    BY ArrivalsAssumption
  <2>5. ASSUME Len(wait[w].told) = 2 PROVE ChildOf[wait[w].told[2]] = WaitFor[w]
    BY <1>1, <2>3, <2>4, <2>5 DEF EndInv, ToldKept
  <2> QED BY <2>1, <2>3, <2>5
<1> QED BY <1>1, ArrivalsInvariant, PTL

\* No end is lost between the replay, the events that follow and a break of the feed
\* (ArrivalFeed::open, ArrivalFeed::next).
THEOREM EndsAreKnown == ArrivalSpec => []EndKnown
<1>1. ASSUME EndInv PROVE EndKnown
  <2> SUFFICES ASSUME alive, task = "next", buffer = <<>>, bell = <<>>, resolving = NoItem,
                      NEW i \in (ToSet(store) \cap rung) \ blind, Decisive(i)
               PROVE  ends.outcomes[ChildOf[i]] # NoOutcome
    BY DEF EndKnown, Decisive
  <2>1. i \in Notices
    BY <1>1 DEF EndInv, ArrivalTypeOK
  <2>2. i \notin ToSet(bell) /\ ~Held(i)
    BY DEF ToSet, Held
  <2>3. resolving # i
    BY <2>1, ArrivalsAssumption
  <2> QED BY <1>1, <2>2, <2>3 DEF EndInv, WayKept, OnItsWay
<1> QED BY <1>1, ArrivalsInvariant, PTL
=============================================================================
