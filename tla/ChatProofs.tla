----------------------------- MODULE ChatProofs -----------------------------
(***************************************************************************)
(* The cache, the restored channels and the screen of Chat, for any users, *)
(* any limits, and any number of messages, reconnects and failures.        *)
(***************************************************************************)
EXTENDS Chat, FiniteSetTheorems, SequenceTheorems, WellFoundedInduction, TLAPS

-----------------------------------------------------------------------------
(* Lists.                                                                  *)

\* The least-number principle, for sets.
LEMMA LeastNumber ==
  ASSUME NEW S \in SUBSET Nat, S # {}
  PROVE  \E m \in S : \A k \in S : m <= k
<1>1. PICK m \in S : \A k \in S : ~(<<k, m>> \in OpToRel(<, Nat))
  BY WFMin, NatLessThanWellFounded
<1>2. \A k \in S : ~ (k < m)
  BY <1>1 DEF OpToRel
<1>3. QED
  BY <1>2

\* What Recent leaves of a list, place by place.
LEMMA RecentIsSuffix ==
  ASSUME NEW T, NEW list \in Seq(T)
  PROVE  /\ Recent(list) \in Seq(T)
         /\ Len(Recent(list)) \in Nat /\ Len(Recent(list)) <= Len(list)
         /\ Len(list) > Limit => Len(Recent(list)) = Limit
         /\ Len(list) <= Limit => Len(Recent(list)) = Len(list)
         /\ \A i \in 1..Len(Recent(list)) :
              /\ Len(list) - Len(Recent(list)) + i \in 1..Len(list)
              /\ Recent(list)[i] = list[Len(list) - Len(Recent(list)) + i]
<1> Limit \in Nat \ {0} /\ Len(list) \in Nat
  BY BoundsAssumption
<1>1. CASE Len(list) > Limit
  <2>1. Recent(list) = SubSeq(list, Len(list) - Limit + 1, Len(list))
    BY <1>1 DEF Recent
  <2>2. Len(Recent(list)) = Limit
    BY <1>1, <2>1
  <2>3. Recent(list) \in Seq(T)
    BY <1>1, <2>1
  <2>4. ASSUME NEW i \in 1..Limit
        PROVE  Recent(list)[i] = list[Len(list) - Limit + i]
    BY <1>1, <2>1
  <2>5. QED
    BY <1>1, <2>2, <2>3, <2>4
<1>2. CASE ~(Len(list) > Limit)
  <2>1. Recent(list) = SubSeq(list, 1, Len(list))
    BY <1>2 DEF Recent
  <2>2. Recent(list) = list
    BY <2>1
  <2>3. QED
    BY <1>2, <2>2
<1>3. QED
  BY <1>1, <1>2

\* The members of a sequence are the values at its places.
LEMMA Members ==
  ASSUME NEW T, NEW list \in Seq(T)
  PROVE  /\ ToSet(list) \subseteq T
         /\ \A m : m \in ToSet(list) <=> \E i \in 1..Len(list) : list[i] = m
BY DEF ToSet

LEMMA MembersOfAppend ==
  ASSUME NEW T, NEW list \in Seq(T), NEW x \in T
  PROVE  /\ Append(list, x) \in Seq(T) /\ Len(Append(list, x)) = Len(list) + 1
         /\ ToSet(Append(list, x)) = ToSet(list) \cup {x}
<1>1. Append(list, x) \in Seq(T) /\ Len(Append(list, x)) = Len(list) + 1
  OBVIOUS
<1>2. ASSUME NEW i \in 1..Len(list) PROVE Append(list, x)[i] = list[i]
  OBVIOUS
<1>3. Append(list, x)[Len(list) + 1] = x
  OBVIOUS
<1>4. ASSUME NEW m \in ToSet(Append(list, x)) PROVE m \in ToSet(list) \cup {x}
  <2>1. PICK i \in 1..Len(Append(list, x)) : Append(list, x)[i] = m
    BY <1>1, Members
  <2>2. QED
    BY <1>1, <1>2, <1>3, <2>1, Members
<1>5. ASSUME NEW m \in ToSet(list) PROVE m \in ToSet(Append(list, x))
  <2>1. PICK i \in 1..Len(list) : list[i] = m
    BY Members
  <2>2. i \in 1..Len(Append(list, x)) /\ Append(list, x)[i] = m
    BY <1>1, <1>2, <2>1
  <2>3. QED
    BY <1>1, <2>2, Members
<1>6. x \in ToSet(Append(list, x))
  <2>1. Len(list) + 1 \in 1..Len(Append(list, x))
    BY <1>1
  <2>2. QED
    BY <1>1, <1>3, <2>1, Members
<1>7. QED
  BY <1>1, <1>4, <1>5, <1>6

LEMMA MembersOfTail ==
  ASSUME NEW T, NEW list \in Seq(T), list # <<>>
  PROVE  ToSet(list) = {Head(list)} \cup ToSet(Tail(list))
<1>1. ASSUME NEW i \in 1..Len(list) PROVE list[i] \in {Head(list)} \cup ToSet(Tail(list))
  <2>1. CASE i = 1
    BY <2>1
  <2>2. CASE i # 1
    <3>1. i - 1 \in 1..Len(Tail(list)) /\ Tail(list)[i - 1] = list[i]
      BY <2>2
    <3>2. QED
      BY <3>1 DEF ToSet
  <2>3. QED
    BY <2>1, <2>2
<1>2. Head(list) \in ToSet(list)
  BY DEF ToSet
<1>3. ASSUME NEW i \in 1..Len(Tail(list)) PROVE Tail(list)[i] \in ToSet(list)
  <2>1. i + 1 \in 1..Len(list) /\ Tail(list)[i] = list[i + 1]
    OBVIOUS
  <2>2. QED
    BY <2>1 DEF ToSet
<1>4. QED
  BY <1>1, <1>2, <1>3 DEF ToSet

\* A list holds the last of the kept messages, in the order of their numbers.
Holds(list, kept) ==
  /\ \A i, j \in 1..Len(list) : i < j => list[i] < list[j]
  /\ ToSet(list) \subseteq kept
  /\ \A m \in kept \ ToSet(list) :
       Len(list) >= Limit /\ \A i \in 1..Len(list) : m < list[i]

\* Trimming keeps the last.
LEMMA RecentHolds ==
  ASSUME NEW list \in Seq(Nat), NEW kept \in SUBSET Nat, Holds(list, kept)
  PROVE  Holds(Recent(list), kept)
<1> DEFINE rest == Recent(list)
           cut == Len(list) - Len(rest)
<1>1. /\ rest \in Seq(Nat) /\ Len(rest) \in Nat /\ Len(list) \in Nat
      /\ cut \in Nat /\ Limit \in Nat
      /\ Len(list) > Limit => Len(rest) = Limit
      /\ Len(list) <= Limit => cut = 0
      /\ \A i \in 1..Len(rest) : cut + i \in 1..Len(list) /\ rest[i] = list[cut + i]
  BY RecentIsSuffix, BoundsAssumption
<1>2. \A i, j \in 1..Len(list) : i < j => list[i] < list[j]
  BY DEF Holds
<1>3. \A i \in 1..Len(list) : list[i] \in kept
  BY Members DEF Holds
<1> HIDE DEF rest
<1>4. ASSUME NEW i \in 1..Len(rest), NEW j \in 1..Len(rest), i < j
      PROVE  rest[i] < rest[j]
  <2>1. cut + i < cut + j
    BY <1>1, <1>4
  <2>2. list[cut + i] < list[cut + j]
    BY <1>1, <1>2, <2>1
  <2>3. QED
    BY <1>1, <2>2
<1>5. ToSet(rest) \subseteq kept
  <2>1. ASSUME NEW m \in ToSet(rest) PROVE m \in kept
    <3>1. PICK i \in 1..Len(rest) : rest[i] = m
      BY <1>1, Members
    <3>2. QED
      BY <1>1, <1>3, <3>1
  <2>2. QED
    BY <2>1
<1>6. ASSUME NEW m \in kept \ ToSet(rest)
      PROVE  Len(rest) >= Limit /\ \A i \in 1..Len(rest) : m < rest[i]
  <2>1. CASE m \notin ToSet(list)
    <3>1. Len(list) >= Limit /\ \A i \in 1..Len(list) : m < list[i]
      BY <2>1 DEF Holds
    <3>2. Len(rest) >= Limit
      BY <1>1, <3>1
    <3>3. \A i \in 1..Len(rest) : m < rest[i]
      BY <1>1, <3>1
    <3>4. QED
      BY <3>2, <3>3
  <2>2. CASE m \in ToSet(list)
    <3>1. PICK k \in 1..Len(list) : list[k] = m
      BY <2>2, Members
    <3>2. k <= cut
      <4>1. SUFFICES ASSUME k > cut PROVE FALSE
        BY <1>1
      <4>2. k - cut \in 1..Len(rest) /\ cut + (k - cut) = k
        BY <1>1, <4>1
      <4>3. rest[k - cut] = m
        BY <1>1, <3>1, <4>2
      <4>4. m \in ToSet(rest)
        BY <1>1, <4>2, <4>3, Members
      <4>5. QED
        BY <1>6, <4>4
    <3>3. Len(rest) = Limit
      BY <1>1, <3>2
    <3>4. ASSUME NEW i \in 1..Len(rest) PROVE m < rest[i]
      <4>1. k < cut + i /\ cut + i \in 1..Len(list)
        BY <1>1, <3>2
      <4>2. QED
        BY <1>1, <1>2, <3>1, <4>1
    <3>5. QED
      BY <1>1, <3>3, <3>4
  <2>3. QED
    BY <2>1, <2>2
<1>7. QED
  BY <1>4, <1>5, <1>6 DEF Holds, rest

\* A push of a newer message keeps the last.
LEMMA AppendHolds ==
  ASSUME NEW list \in Seq(Nat), NEW kept \in SUBSET Nat, Holds(list, kept),
         NEW m \in Nat, \A k \in kept : k < m
  PROVE  Holds(Append(list, m), kept \cup {m})
<1> DEFINE more == Append(list, m)
<1>1. /\ more \in Seq(Nat) /\ Len(more) = Len(list) + 1 /\ Len(list) \in Nat
      /\ ToSet(more) = ToSet(list) \cup {m}
  BY MembersOfAppend
<1>2. \A i \in 1..Len(list) : more[i] = list[i] /\ list[i] \in kept /\ list[i] < m
  BY Members DEF Holds
<1>3. more[Len(list) + 1] = m
  OBVIOUS
<1> HIDE DEF more
<1>4. ASSUME NEW i \in 1..Len(more), NEW j \in 1..Len(more), i < j
      PROVE  more[i] < more[j]
  <2>1. CASE j = Len(list) + 1
    BY <1>1, <1>2, <1>3, <1>4, <2>1
  <2>2. CASE j # Len(list) + 1
    <3>a. Len(more) = Len(list) + 1 /\ Len(list) \in Nat
      BY <1>1
    <3>1. i \in 1..Len(list) /\ j \in 1..Len(list)
      BY <3>a, <1>4, <2>2
    <3>2. list[i] < list[j]
      BY <1>4, <3>1 DEF Holds
    <3>3. QED
      BY <1>2, <3>1, <3>2
  <2>3. QED
    BY <2>1, <2>2
<1>5. ToSet(more) \subseteq kept \cup {m}
  BY <1>1 DEF Holds
<1>6. ASSUME NEW k \in (kept \cup {m}) \ ToSet(more)
      PROVE  Len(more) >= Limit /\ \A i \in 1..Len(more) : k < more[i]
  <2>1. k \in kept \ ToSet(list) /\ k < m
    BY <1>1, <1>6
  <2>2. Len(list) >= Limit /\ \A i \in 1..Len(list) : k < list[i]
    BY <2>1 DEF Holds
  <2>3. \A i \in 1..Len(more) : k < more[i]
    BY <1>1, <1>2, <1>3, <2>1, <2>2
  <2>4. QED
    BY <1>1, <2>2, <2>3, BoundsAssumption
<1>7. QED
  BY <1>4, <1>5, <1>6 DEF Holds, more

-----------------------------------------------------------------------------
(* The client's list.                                                      *)

\* What is shown is known, is shown once, and fits the screen.
Good(v, S) ==
  /\ v \in [known : SUBSET S, shown : Seq(S)]
  /\ ToSet(v.shown) \subseteq v.known
  /\ Len(v.shown) <= ScreenLimit
  /\ IsInjective(v.shown)

LEMMA AddChatMessageKeeps ==
  ASSUME NEW S, NEW v, Good(v, S), NEW m \in S
  PROVE  /\ Good(AddChatMessage(v, m), S)
         /\ AddChatMessage(v, m).known = v.known \cup {m}
<1>1. CASE m \in v.known
  BY <1>1 DEF AddChatMessage
<1>2. CASE m \notin v.known
  <2> DEFINE old == v.shown
             all == <<m>> \o old
             n == IF Len(old) < ScreenLimit THEN Len(old) + 1 ELSE ScreenLimit
             new == SubSeq(all, 1, n)
  <2>1. /\ AddChatMessage(v, m) = [known |-> v.known \cup {m}, shown |-> new]
        /\ v.known \in SUBSET S /\ old \in Seq(S)
    BY <1>2 DEF AddChatMessage, Good
  <2>2. /\ all \in Seq(S) /\ Len(all) = Len(old) + 1 /\ all[1] = m
        /\ \A i \in 2..Len(all) : all[i] = old[i - 1]
    BY <2>1
  <2>3. n \in 1..Len(all) /\ n <= ScreenLimit /\ Len(old) \in Nat
    BY <2>1, <2>2, BoundsAssumption DEF Good
  <2> HIDE DEF all, n
  <2>4. new \in Seq(S) /\ Len(new) = n /\ \A i \in 1..n : new[i] = all[i]
    BY <2>2, <2>3
  <2>5. \A i \in 1..Len(old) : old[i] \in v.known
    BY <2>1, Members DEF Good
  <2> HIDE DEF new
  <2>a. n \in Nat /\ n >= 1 /\ n <= Len(old) + 1 /\ Len(all) = Len(old) + 1
    BY <2>2, <2>3
  <2>b. new[1] = m
    BY <2>2, <2>a, <2>4
  <2>c. ASSUME NEW i \in 2..n
        PROVE  i - 1 \in 1..Len(old) /\ new[i] = old[i - 1]
    <3>1. i \in 1..n /\ i \in 2..Len(all) /\ i - 1 \in 1..Len(old)
      BY <2>a, <2>3
    <3>2. QED
      BY <3>1, <2>2, <2>4
  <2>6. new[1] = m /\ \A i \in 2..n : i - 1 \in 1..Len(old) /\ new[i] = old[i - 1]
    BY <2>b, <2>c
  <2>7. ToSet(new) \subseteq v.known \cup {m}
    <3>1. ASSUME NEW k \in ToSet(new) PROVE k \in v.known \cup {m}
      <4>1. PICK i \in 1..n : new[i] = k
        BY <2>4, Members
      <4>2. CASE i = 1
        BY <4>1, <4>2, <2>6
      <4>3. CASE i # 1
        <5>1. i \in 2..n
          BY <4>3, <2>3
        <5>2. QED
          BY <4>1, <5>1, <2>5, <2>6
      <4>4. QED
        BY <4>2, <4>3
    <3>2. QED
      BY <3>1
  <2>8. ASSUME NEW i \in 1..n, NEW j \in 1..n, new[i] = new[j]
        PROVE  i = j
    <3>1. CASE i = 1 \/ j = 1
      BY <3>1, <2>8, <2>5, <2>6, <2>3, <1>2
    <3>2. CASE i # 1 /\ j # 1
      <4>1. /\ i - 1 \in 1..Len(old) /\ j - 1 \in 1..Len(old)
            /\ old[i - 1] = old[j - 1]
        BY <3>2, <2>8, <2>6, <2>3
      <4>2. DOMAIN old = 1..Len(old)
        BY <2>1
      <4>3. i - 1 = j - 1
        BY <4>1, <4>2 DEF Good, IsInjective
      <4>4. QED
        BY <4>3
    <3>3. QED
      BY <3>1, <3>2
  <2>9. IsInjective(new)
    <3>1. DOMAIN new = 1..n
      BY <2>4, <2>3
    <3>2. QED
      BY <3>1, <2>8 DEF IsInjective
  <2>10. QED
    BY <2>1, <2>3, <2>4, <2>7, <2>9 DEF Good
<1>3. QED
  BY <1>1, <1>2

\* Adding many is adding one after the other.
Adding(v, messages, n, f) ==
  f = [k \in 0..n |-> IF k = 0 THEN v ELSE AddChatMessage(f[k - 1], messages[k])]

LEMMA AddingExists ==
  ASSUME NEW v, NEW messages, NEW n \in Nat
  PROVE  \E f : Adding(v, messages, n, f)
<1> DEFINE Bad == {k \in Nat : ~ \E f : Adding(v, messages, k, f)}
<1>1. SUFFICES ASSUME Bad # {} PROVE FALSE
  BY <1>1
<1>2. PICK k \in Bad : \A i \in Bad : k <= i
  BY <1>1, LeastNumber
<1>3. CASE k = 0
  <2>1. Adding(v, messages, 0, [i \in 0..0 |-> v])
    BY DEF Adding
  <2>2. QED
    BY <1>2, <1>3, <2>1
<1>4. CASE k # 0
  <2>1. k - 1 \in Nat /\ k - 1 \notin Bad
    BY <1>2, <1>4
  <2>2. PICK f : Adding(v, messages, k - 1, f)
    BY <2>1
  <2> DEFINE g == [i \in 0..k |-> IF i = k THEN AddChatMessage(f[k - 1], messages[k])
                                  ELSE f[i]]
  <2>3. ASSUME NEW i \in 0..k
        PROVE  g[i] = IF i = 0 THEN v ELSE AddChatMessage(g[i - 1], messages[i])
    <3>1. CASE i = 0
      BY <3>1, <1>4, <2>1, <2>2 DEF Adding
    <3>2. CASE i = k
      BY <3>2, <1>4, <2>1
    <3>3. CASE i # 0 /\ i # k
      <4>1. i \in 0..(k - 1) /\ i - 1 \in 0..k /\ i - 1 # k
        BY <3>3, <2>1
      <4>2. f[i] = AddChatMessage(f[i - 1], messages[i])
        BY <4>1, <3>3, <2>2 DEF Adding
      <4>3. g[i] = f[i] /\ g[i - 1] = f[i - 1]
        BY <4>1, <3>3
      <4>4. QED
        BY <3>3, <4>2, <4>3
    <3>4. QED
      BY <3>1, <3>2, <3>3
  <2>4. Adding(v, messages, k, g)
    BY <2>3 DEF Adding
  <2>5. QED
    BY <1>2, <2>4
<1>5. QED
  BY <1>3, <1>4

\* A list of messages adds those messages and leaves the view in order.
LEMMA AddAllKeeps ==
  ASSUME NEW S, NEW v, Good(v, S), NEW messages \in Seq(S)
  PROVE  /\ Good(AddAll(v, messages), S)
         /\ AddAll(v, messages).known = v.known \cup ToSet(messages)
<1> DEFINE n == Len(messages)
           f == CHOOSE f : Adding(v, messages, n, f)
<1>1. n \in Nat
  OBVIOUS
<1>2. Adding(v, messages, n, f)
  BY <1>1, AddingExists
<1>3. AddAll(v, messages) = f[n]
  BY DEF AddAll, Adding
<1> HIDE DEF f
<1>4. f[0] = v /\ \A k \in 1..n : f[k] = AddChatMessage(f[k - 1], messages[k])
  BY <1>1, <1>2 DEF Adding
<1> DEFINE Right(k) == /\ Good(f[k], S)
                       /\ f[k].known = v.known \cup {messages[i] : i \in 1..k}
           Bad == {k \in 0..n : ~ Right(k)}
<1>5. Bad = {}
  <2>1. SUFFICES ASSUME Bad # {} PROVE FALSE
    BY <2>1
  <2>a. Bad \in SUBSET Nat
    BY <1>1
  <2>2. PICK k \in Bad : \A i \in Bad : k <= i
    <3> HIDE DEF Bad
    <3>1. QED
      BY <2>1, <2>a, LeastNumber
  <2>3. CASE k = 0
    <3>1. Right(0)
      BY <1>4
    <3>2. QED
      BY <2>2, <2>3, <3>1
  <2>4. CASE k # 0
    <3>1. k - 1 \in 0..n /\ k \in 1..n /\ Right(k - 1)
      BY <2>2, <2>4
    <3>2. messages[k] \in S /\ f[k] = AddChatMessage(f[k - 1], messages[k])
      BY <3>1, <1>4
    <3>3. Good(f[k], S) /\ f[k].known = f[k - 1].known \cup {messages[k]}
      BY <3>1, <3>2, AddChatMessageKeeps
    <3>4. {messages[i] : i \in 1..k} = {messages[i] : i \in 1..(k - 1)} \cup {messages[k]}
      <4>1. 1..k = 1..(k - 1) \cup {k}
        BY <3>1
      <4>2. QED
        BY <4>1
    <3>5. Right(k)
      BY <3>1, <3>3, <3>4
    <3>6. QED
      BY <2>2, <3>5
  <2>5. QED
    BY <2>3, <2>4
<1>6. Right(n)
  BY <1>1, <1>5
<1>7. ToSet(messages) = {messages[i] : i \in 1..n}
  BY DEF ToSet
<1>8. QED
  BY <1>3, <1>6, <1>7

-----------------------------------------------------------------------------
(* The invariant.                                                          *)

\* The messages of a channel, and those that `me` may read.
Of(c) == {m \in 1..Len(sent) : sent[m] = c}
Concerns(c) == (c = "MAFIA" => me \in Mafia) /\ (c = "GHOST" => me \in dead)
Readable == {m \in 1..Len(sent) : Concerns(sent[m])}

Chats == [Channels -> Seq(Readable)]
Mail == ({"chat"} \X Readable) \cup ({"state"} \X Chats)

\* A list holds messages of its channel, and whatever is on its way to the client
\* or has come there he may read.
TypeInv ==
  /\ me \in Users
  /\ phase \in {"WAITING", "NIGHT", "DAY_DISCUSSION", "FINISHED"}
  /\ dead \subseteq Users
  /\ sent \in Seq(Channels) /\ Len(sent) <= MaxMessages
  /\ lost \subseteq 1..Len(sent)
  /\ drops \in 0..MaxDrops /\ failures \in 0..MaxFailures
  /\ pc \in {"down", "joinedUser", "joinedRoom", "reading", "up"}
  /\ reading \subseteq Channels /\ restored \subseteq Channels
  /\ \A c \in reading \cup restored : Concerns(c)
  /\ pc # "reading" => reading = {}
  /\ underway \subseteq 1..Len(sent)
  /\ cache \in [Channels -> Seq(1..Len(sent))]
  /\ \A c \in Channels : cache[c] \in Seq(Of(c))
  /\ snapshot \in Chats
  /\ inbox \in Seq(Mail)
  /\ Good(view, Readable)

\* One message is under way, the last; it goes to recipients it was meant for, and
\* the first of them has it cached.
JobInv ==
  \/ job = NoJob
  \/ /\ job \in [msg : {Len(sent)}, to : SUBSET Recipients(sent[Len(sent)]),
                 step : {"emit", "push", "trim"}, cached : BOOLEAN]
     /\ Len(sent) >= 1
     /\ job.step # "emit" => ~ job.cached

\* The message that has still to be pushed.
Unpushed == {m \in {job.msg} : job.step \in {"emit", "push"} /\ ~ job.cached}

\* A list holds the last messages that were pushed, and is at most as long as its
\* limit, the calls that have failed and the push that is not yet trimmed.
CacheInv ==
  /\ Unpushed \cap lost = {}
  /\ \A c \in Channels :
       /\ Holds(cache[c], (Of(c) \ lost) \ Unpushed)
       /\ Len(cache[c]) <= Limit + failures + 1
       /\ Len(cache[c]) > Limit + failures => job.step = "trim" /\ c = sent[job.msg]

\* A message has come, was under way when the connection joined, is in the mail, or
\* has still to be sent to a room the socket is in.
InMail(box, m) ==
  \E i \in 1..Len(box) :
    \/ box[i] = <<"chat", m>>
    \/ box[i][1] = "state" /\ \E c \in Channels : m \in ToSet(box[i][2][c])

Heard ==
  {m \in 1..Len(sent) :
     \/ m \in view.known \cup underway
     \/ InMail(inbox, m)
     \/ m = job.msg /\ \E r \in job.to : IHear(r)}

\* The channels whose messages are sent to a room the socket is in.
Hearable == {c \in Channels : Concerns(c) /\ IF c \in RoomChannels THEN HearsRoom ELSE HearsUser}

\* The message under way is heard by whom it concerns, once he has joined; and a
\* channel that has been read holds nothing recent that is not heard.
MissInv ==
  /\ job # NoJob /\ sent[job.msg] \in Hearable => job.msg \in Heard
  /\ pc \in {"reading", "up"} =>
       \A c \in restored \ reading : \A m \in ToSet(Recent(cache[c])) :
         m \in Heard \/ (pc = "reading" /\ m \in ToSet(snapshot[c]))

Inv == TypeInv /\ JobInv /\ CacheInv /\ MissInv

-----------------------------------------------------------------------------
(* Types and readers.                                                      *)

LEMMA SeqWider ==
  ASSUME NEW S, NEW T, S \subseteq T
  PROVE  Seq(S) \subseteq Seq(T)
<1>1. ASSUME NEW s \in Seq(S) PROVE s \in Seq(T)
  <2>1. s \in [1..Len(s) -> T] /\ Len(s) \in Nat
    OBVIOUS
  <2>2. QED
    BY <2>1, SeqDef
<1>2. QED
  BY <1>1

LEMMA SeqOfMembers ==
  ASSUME NEW S, NEW T, NEW s \in Seq(S), ToSet(s) \subseteq T
  PROVE  s \in Seq(T)
<1>1. Len(s) \in Nat /\ DOMAIN s = 1..Len(s) /\ \A i \in 1..Len(s) : s[i] \in T
  BY Members
<1>2. s \in [1..Len(s) -> T]
  BY <1>1
<1>3. QED
  BY <1>1, <1>2, SeqDef

\* Nothing that could be read becomes unreadable.
LEMMA ReadableGrows ==
  ASSUME TypeInv, me' = me, dead \subseteq dead', sent' \in Seq(Channels),
         Len(sent) <= Len(sent'), \A m \in 1..Len(sent) : sent'[m] = sent[m]
  PROVE  /\ 1..Len(sent) \subseteq 1..Len(sent')
         /\ Readable \subseteq Readable'
         /\ \A c : Of(c) \subseteq Of(c)' /\ (Concerns(c) => Concerns(c)')
         /\ Seq(1..Len(sent)) \subseteq Seq(1..Len(sent'))
         /\ \A c : Seq(Of(c)) \subseteq Seq(Of(c)')
         /\ Chats \subseteq Chats'
         /\ Seq(Mail) \subseteq Seq(Mail')
         /\ Good(view, Readable) => Good(view, Readable')
<1>1. 1..Len(sent) \subseteq 1..Len(sent')
  BY DEF TypeInv
<1>2. \A c : Concerns(c) => Concerns(c)'
  BY DEF Concerns
<1>3. Readable \subseteq Readable'
  BY <1>1, <1>2 DEF Readable
<1>4. \A c : Of(c) \subseteq Of(c)'
  BY <1>1 DEF Of
<1>5. Seq(Readable) \subseteq Seq(Readable')
  BY <1>3, SeqWider
<1>6. Chats \subseteq Chats'
  BY <1>5 DEF Chats
<1>7. Mail \subseteq Mail'
  BY <1>3, <1>6 DEF Mail
<1>8. Seq(Mail) \subseteq Seq(Mail')
  BY <1>7, SeqWider
<1>9. Good(view, Readable) => Good(view, Readable')
  BY <1>3, <1>5 DEF Good
<1>10. \A c : Seq(Of(c)) \subseteq Seq(Of(c)')
  BY <1>4, SeqWider
<1>11. Seq(1..Len(sent)) \subseteq Seq(1..Len(sent'))
  BY <1>1, SeqWider
<1>12. QED
  BY <1>1, <1>2, <1>3, <1>4, <1>6, <1>8, <1>9, <1>10, <1>11

\* Who hears the message under way may read it.
LEMMA HearersMayRead ==
  ASSUME TypeInv, JobInv, NEW r \in job.to, IHear(r)
  PROVE  job.msg \in Readable
<1>1. /\ job.msg = Len(sent) /\ Len(sent) \in 1..Len(sent)
      /\ r \in Recipients(sent[Len(sent)]) /\ sent[Len(sent)] \in Channels
  BY DEF JobInv, TypeInv, NoJob
<1>2. Concerns(sent[Len(sent)])
  <2>1. CASE sent[Len(sent)] \in RoomChannels
    BY <2>1 DEF Concerns, RoomChannels
  <2>2. CASE sent[Len(sent)] = "MAFIA"
    <3>1. r \in Mafia \cap Alive
      BY <1>1, <2>2 DEF Recipients, RoomChannels
    <3>2. r = me
      BY <3>1, UsersAssumption DEF IHear, Alive
    <3>3. QED
      BY <3>1, <3>2, <2>2 DEF Concerns
  <2>3. CASE sent[Len(sent)] = "GHOST"
    <3>1. r \in dead
      BY <1>1, <2>3 DEF Recipients, RoomChannels
    <3>2. r = me
      BY <3>1, UsersAssumption DEF IHear, TypeInv
    <3>3. QED
      BY <3>1, <3>2, <2>3 DEF Concerns
  <2>4. QED
    BY <1>1, <2>1, <2>2, <2>3 DEF Channels, RoomChannels
<1>3. QED
  BY <1>1, <1>2 DEF Readable

LEMMA TypeInit == Init => TypeInv
<1> SUFFICES ASSUME Init PROVE TypeInv
  OBVIOUS
<1>1. /\ sent = <<>> /\ lost = {} /\ inbox = <<>>
      /\ reading = {} /\ restored = {} /\ underway = {}
  BY DEF Init
<1>2. cache \in [Channels -> Seq(1..Len(sent))] /\ \A c \in Channels : cache[c] \in Seq(Of(c))
  BY DEF Init, NoChats
<1>3. snapshot \in Chats
  BY DEF Init, NoChats, Chats
<1>4. Good(view, Readable)
  BY BoundsAssumption DEF Init, NewView, Good, IsInjective, ToSet
<1>5. QED
  BY <1>1, <1>2, <1>3, <1>4, BoundsAssumption DEF TypeInv, Init, Messages

\* Every step keeps what has been sent.
LEMMA SentGrows ==
  ASSUME TypeInv, [Next]_vars
  PROVE  /\ me' = me /\ dead \subseteq dead'
         /\ sent' \in Seq(Channels) /\ Len(sent) <= Len(sent') /\ Len(sent') <= MaxMessages
         /\ \A m \in 1..Len(sent) : sent'[m] = sent[m]
<1>1. ASSUME NEW u \in Users, NEW c \in Channels, SendChatMessage(u, c)
      PROVE  /\ sent' \in Seq(Channels) /\ Len(sent) <= Len(sent') /\ Len(sent') <= MaxMessages
             /\ \A m \in 1..Len(sent) : sent'[m] = sent[m]
  BY <1>1, BoundsAssumption DEF SendChatMessage, TypeInv
<1>2. ASSUME NEW u \in Users, NEW c \in Channels, SendChatMessage(u, c)
      PROVE  me' = me /\ dead' = dead
  BY <1>2 DEF SendChatMessage, game
<1>3. ASSUME NEW u \in Users, Dies(u)
      PROVE  me' = me /\ dead \subseteq dead' /\ sent' = sent
  BY <1>3 DEF Dies, server
<1>4. ASSUME \/ PhaseChanges \/ Emit \/ Push \/ Trim \/ AppendFails \/ Drop \/ JoinUserRoom
             \/ JoinPreviousRoom \/ ReadSession \/ (\E c \in Channels : GetRecent(c))
             \/ EmitReconnectState \/ RestoreFails \/ Handle \/ UNCHANGED vars
      PROVE  me' = me /\ dead' = dead /\ sent' = sent
  BY <1>4 DEF PhaseChanges, Emit, Push, Trim, AppendFails, Drop, JoinUserRoom,
    JoinPreviousRoom, ReadSession, GetRecent, EmitReconnectState, RestoreFails, Handle, vars,
    game, server
<1>5. Len(sent) \in Nat /\ sent \in Seq(Channels) /\ Len(sent) <= MaxMessages
  BY DEF TypeInv
<1>6. CASE \E u \in Users, c \in Channels : SendChatMessage(u, c)
  BY <1>1, <1>2, <1>6
<1>7. CASE \E u \in Users : Dies(u)
  BY <1>3, <1>5, <1>7
<1>8. QED
  BY <1>4, <1>5, <1>6, <1>7 DEF Next

\* The next effect is the same message's, for the same recipients.
LEMMA NextEffectOfMessage ==
  ASSUME job \in [msg : Nat, to : SUBSET (Users \cup {"room"}),
                  step : {"idle", "emit", "push", "trim"}, cached : BOOLEAN]
  PROVE  \/ job.to = {} /\ NextEffect = NoJob
         \/ NextEffect = [msg |-> job.msg, to |-> job.to, step |-> "emit", cached |-> TRUE]
BY DEF NextEffect

LEMMA JobTyped ==
  ASSUME TypeInv, JobInv
  PROVE  /\ job \in [msg : Nat, to : SUBSET (Users \cup {"room"}),
                     step : {"idle", "emit", "push", "trim"}, cached : BOOLEAN]
         /\ job # NoJob => /\ job.msg = Len(sent) /\ job.msg \in 1..Len(sent)
                           /\ sent[job.msg] \in Channels
                           /\ job.to \subseteq Recipients(sent[job.msg])
                           /\ job.step \in {"emit", "push", "trim"}
                           /\ job.step # "emit" => ~ job.cached
         /\ job = NoJob <=> job.step = "idle"
         /\ job = NoJob => job.msg = 0 /\ job.to = {} /\ job.step = "idle" /\ ~ job.cached
<1>1. \A c \in Channels : Recipients(c) \subseteq Users \cup {"room"}
  BY MafiaAssumption DEF Recipients, Channels, RoomChannels, Alive, TypeInv
<1>2. Len(sent) \in Nat /\ (Len(sent) >= 1 => sent[Len(sent)] \in Channels)
  BY DEF TypeInv
<1>3. CASE job = NoJob
  BY <1>3 DEF NoJob
<1>4. CASE job # NoJob
  <2>1. /\ job \in [msg : {Len(sent)}, to : SUBSET Recipients(sent[Len(sent)]),
                    step : {"emit", "push", "trim"}, cached : BOOLEAN]
        /\ Len(sent) >= 1 /\ (job.step # "emit" => ~ job.cached)
    BY <1>4 DEF JobInv
  <2>2. Recipients(sent[Len(sent)]) \subseteq Users \cup {"room"}
    BY <1>1, <1>2, <2>1
  <2>3. job \in [msg : Nat, to : SUBSET (Users \cup {"room"}),
                 step : {"idle", "emit", "push", "trim"}, cached : BOOLEAN]
    BY <1>2, <2>1, <2>2
  <2>4. job.step \in {"emit", "push", "trim"} /\ job.msg = Len(sent)
        /\ job.to \subseteq Recipients(sent[Len(sent)])
    BY <2>1
  <2>5. QED
    BY <1>2, <1>4, <2>1, <2>3, <2>4
<1>5. QED
  BY <1>3, <1>4

\* reconnect:state adds the messages of every channel it brings.
LEMMA AddRecentChatsKeeps ==
  ASSUME NEW S, NEW v, Good(v, S), NEW chats \in [Channels -> Seq(S)]
  PROVE  /\ Good(AddRecentChats(v, chats), S)
         /\ v.known \subseteq AddRecentChats(v, chats).known
         /\ \A c \in Channels : ToSet(chats[c]) \subseteq AddRecentChats(v, chats).known
<1> DEFINE v1 == AddAll(v, chats["LOBBY"])
           v2 == AddAll(v1, chats["DAY"])
           v3 == AddAll(v2, chats["MAFIA"])
           v4 == AddAll(v3, chats["GHOST"])
<1>1. /\ chats["LOBBY"] \in Seq(S) /\ chats["DAY"] \in Seq(S) /\ chats["MAFIA"] \in Seq(S)
      /\ chats["GHOST"] \in Seq(S)
  BY DEF Channels
<1>2. AddRecentChats(v, chats) = v4
  BY DEF AddRecentChats
<1> HIDE DEF v1, v2, v3, v4
<1>3. Good(v1, S) /\ v1.known = v.known \cup ToSet(chats["LOBBY"])
  BY <1>1, AddAllKeeps DEF v1
<1>4. Good(v2, S) /\ v2.known = v1.known \cup ToSet(chats["DAY"])
  BY <1>1, <1>3, AddAllKeeps DEF v2
<1>5. Good(v3, S) /\ v3.known = v2.known \cup ToSet(chats["MAFIA"])
  BY <1>1, <1>4, AddAllKeeps DEF v3
<1>6. Good(v4, S) /\ v4.known = v3.known \cup ToSet(chats["GHOST"])
  BY <1>1, <1>5, AddAllKeeps DEF v4
<1>7. \A c \in Channels : ToSet(chats[c]) \subseteq v4.known
  BY <1>3, <1>4, <1>5, <1>6 DEF Channels
<1>8. QED
  BY <1>2, <1>3, <1>4, <1>5, <1>6, <1>7

\* The types, and who may read what, step by step.
LEMMA TypeStep == TypeInv /\ JobInv /\ [Next]_vars => TypeInv'
<1> SUFFICES ASSUME TypeInv, JobInv, [Next]_vars PROVE TypeInv'
  OBVIOUS
<1>a. /\ me' = me /\ dead \subseteq dead'
      /\ sent' \in Seq(Channels) /\ Len(sent) <= Len(sent') /\ Len(sent') <= MaxMessages
      /\ 1..Len(sent) \subseteq 1..Len(sent')
      /\ Readable \subseteq Readable'
      /\ \A c : Of(c) \subseteq Of(c)' /\ (Concerns(c) => Concerns(c)')
      /\ Seq(1..Len(sent)) \subseteq Seq(1..Len(sent'))
      /\ \A c : Seq(Of(c)) \subseteq Seq(Of(c)')
      /\ Chats \subseteq Chats'
      /\ Seq(Mail) \subseteq Seq(Mail')
      /\ Good(view, Readable) => Good(view, Readable')
  BY SentGrows, ReadableGrows
<1>b. /\ failures \in 0..MaxFailures /\ MaxFailures \in Nat
      /\ drops \in 0..MaxDrops /\ MaxDrops \in Nat
  BY BoundsAssumption DEF TypeInv
\* What each part of the invariant needs of a step.
<1>c. ASSUME UNCHANGED cache
      PROVE  /\ cache' \in [Channels -> Seq(1..Len(sent'))]
             /\ \A c \in Channels : cache'[c] \in Seq(Of(c)')
  BY <1>a, <1>c DEF TypeInv
<1>d. ASSUME UNCHANGED view PROVE Good(view', Readable')
  BY <1>a, <1>d DEF TypeInv
<1>e. ASSUME UNCHANGED <<pc, reading, restored, underway, snapshot, drops>>
      PROVE  /\ pc' \in {"down", "joinedUser", "joinedRoom", "reading", "up"}
             /\ reading' \subseteq Channels /\ restored' \subseteq Channels
             /\ \A c \in reading' \cup restored' : Concerns(c)'
             /\ pc' # "reading" => reading' = {}
             /\ underway' \subseteq 1..Len(sent') /\ snapshot' \in Chats' /\ drops' \in 0..MaxDrops
  BY <1>a, <1>e DEF TypeInv
<1>f. ASSUME UNCHANGED inbox PROVE inbox' \in Seq(Mail')
  BY <1>a, <1>f DEF TypeInv
<1>1. CASE PhaseChanges
  BY <1>1, <1>a, <1>c, <1>d, <1>e, <1>f DEF TypeInv, PhaseChanges, server, connecting, Good
<1>2. ASSUME NEW u \in Users, Dies(u) PROVE TypeInv'
  BY <1>2, <1>a, <1>c, <1>d, <1>e, <1>f DEF TypeInv, Dies, server, connecting, Good, Alive
<1>3. ASSUME NEW u \in Users, NEW c \in Channels, SendChatMessage(u, c) PROVE TypeInv'
  BY <1>3, <1>a, <1>c, <1>d, <1>e, <1>f DEF TypeInv, SendChatMessage, game, connecting, Good
<1>4. CASE Emit
  <2>1. inbox' \in Seq(Mail')
    <3>1. PICK r \in job.to :
            inbox' = IF IHear(r) THEN Append(inbox, <<"chat", job.msg>>) ELSE inbox
      BY <1>4 DEF Emit
    <3>2. CASE IHear(r)
      <4>1. <<"chat", job.msg>> \in Mail
        BY <3>2, HearersMayRead DEF Mail
      <4>2. inbox' \in Seq(Mail)
        BY <3>1, <3>2, <4>1 DEF TypeInv
      <4>3. QED
        BY <4>2, <1>a
    <3>3. CASE ~IHear(r)
      BY <3>1, <3>3, <1>f
    <3>4. QED
      BY <3>2, <3>3
  <2>2. QED
    BY <1>4, <2>1, <1>a, <1>c, <1>d, <1>e DEF TypeInv, Emit, game, connecting, Good
<1>5. CASE Push
  <2>1. sent' = sent
    BY <1>5 DEF Push
  <2>2. job.msg \in Of(sent[job.msg]) /\ job.msg \in 1..Len(sent)
    BY <1>5, JobTyped DEF Push, NoJob, Of
  <2>3. ASSUME NEW c \in Channels
        PROVE  cache'[c] \in Seq(Of(c)) /\ cache'[c] \in Seq(1..Len(sent))
    <3>1. /\ cache[c] \in Seq(Of(c)) /\ cache[c] \in Seq(1..Len(sent))
          /\ cache \in [Channels -> Seq(1..Len(sent))]
      BY DEF TypeInv
    <3>2. CASE c = sent[job.msg]
      <4>1. cache'[c] = Append(cache[c], job.msg)
        BY <1>5, <3>1, <3>2 DEF Push
      <4>2. QED
        BY <4>1, <3>1, <3>2, <2>2, MembersOfAppend
    <3>3. CASE c # sent[job.msg]
      BY <1>5, <3>1, <3>3 DEF Push
    <3>4. QED
      BY <3>2, <3>3
  <2>4. cache' \in [Channels -> Seq(1..Len(sent))]
    BY <1>5, <2>3 DEF TypeInv, Push
  <2>5. /\ cache' \in [Channels -> Seq(1..Len(sent'))]
        /\ \A c \in Channels : cache'[c] \in Seq(Of(c)')
    BY <2>1, <2>3, <2>4, <1>a
  <2>6. QED
    BY <1>5, <2>5, <1>a, <1>d, <1>e, <1>f DEF TypeInv, Push, game, connecting, Good
<1>6. CASE Trim
  <2>1. sent' = sent
    BY <1>6 DEF Trim
  <2>3. ASSUME NEW c \in Channels
        PROVE  cache'[c] \in Seq(Of(c)) /\ cache'[c] \in Seq(1..Len(sent))
    <3>1. cache[c] \in Seq(Of(c)) /\ cache[c] \in Seq(1..Len(sent))
      BY DEF TypeInv
    <3>2. Recent(cache[c]) \in Seq(Of(c)) /\ Recent(cache[c]) \in Seq(1..Len(sent))
      BY <3>1, RecentIsSuffix
    <3>3. QED
      BY <1>6, <3>1, <3>2 DEF TypeInv, Trim
  <2>4. cache' \in [Channels -> Seq(1..Len(sent))]
    BY <1>6, <2>3 DEF TypeInv, Trim
  <2>5. /\ cache' \in [Channels -> Seq(1..Len(sent'))]
        /\ \A c \in Channels : cache'[c] \in Seq(Of(c)')
    BY <2>1, <2>3, <2>4, <1>a
  <2>6. QED
    BY <1>6, <2>5, <1>a, <1>d, <1>e, <1>f DEF TypeInv, Trim, game, connecting, Good
<1>7. CASE AppendFails
  <2>1. lost' \subseteq 1..Len(sent')
    BY <1>7, <1>a, JobTyped DEF AppendFails, TypeInv, NoJob
  <2>2. failures' \in 0..MaxFailures
    BY <1>7, <1>b DEF AppendFails
  <2>3. QED
    BY <1>7, <2>1, <2>2, <1>a, <1>c, <1>d, <1>e, <1>f
    DEF TypeInv, AppendFails, game, connecting, Good
<1>8. CASE Drop
  <2>1. Good(view', Readable')
    <3>1. Good(NewView, Readable')
      BY BoundsAssumption DEF NewView, Good, IsInjective, ToSet
    <3>2. QED
      BY <1>8, <3>1, <1>d DEF Drop
  <2>2. snapshot' \in Chats'
    BY <1>8 DEF Drop, NoChats, Chats
  <2>3. drops' \in 0..MaxDrops
    BY <1>8, <1>b DEF Drop
  <2>4. QED
    BY <1>8, <2>1, <2>2, <2>3, <1>a, <1>c DEF TypeInv, Drop, game, server, Good
<1>9. ASSUME NEW channels PROVE UnderwayIn(channels) \subseteq 1..Len(sent)
  BY JobTyped DEF UnderwayIn
<1>10. CASE JoinUserRoom
  BY <1>10, <1>9, <1>a, <1>c, <1>d, <1>f DEF TypeInv, JoinUserRoom, Step, game, server, Good
<1>11. CASE JoinPreviousRoom
  BY <1>11, <1>9, <1>a, <1>c, <1>d, <1>f
  DEF TypeInv, JoinPreviousRoom, Step, game, server, Good
<1>12. CASE ReadSession
  <2>1. reading' \subseteq Channels /\ restored' = reading' /\ \A c \in reading' : Concerns(c)
    BY <1>12 DEF ReadSession, ChannelsOf, Channels, RoomChannels, Concerns
  <2>2. \A c \in reading' \cup restored' : Concerns(c)'
    BY <2>1, <1>a
  <2>3. QED
    BY <1>12, <2>1, <2>2, <1>a, <1>c, <1>d, <1>f
    DEF TypeInv, ReadSession, Step, game, server, Good
<1>13. ASSUME NEW c \in Channels, GetRecent(c) PROVE TypeInv'
  <2>1. Recent(cache[c]) \in Seq(Readable)
    <3>1. Of(c) \subseteq Readable
      BY <1>13 DEF GetRecent, TypeInv, Of, Readable
    <3>2. cache[c] \in Seq(Readable)
      BY <3>1, SeqWider DEF TypeInv
    <3>3. QED
      BY <3>2, RecentIsSuffix
  <2>2. snapshot' \in Chats
    BY <1>13, <2>1 DEF GetRecent, TypeInv, Chats
  <2>3. QED
    BY <1>13, <2>2, <1>a, <1>c, <1>d, <1>f DEF TypeInv, GetRecent, game, server, Good
<1>14. CASE EmitReconnectState
  <2>1. inbox' \in Seq(Mail)
    BY <1>14 DEF EmitReconnectState, TypeInv, Mail
  <2>2. snapshot' \in Chats'
    BY <1>14 DEF EmitReconnectState, NoChats, Chats
  <2>3. QED
    BY <1>14, <2>1, <2>2, <1>a, <1>c, <1>d
    DEF TypeInv, EmitReconnectState, Step, game, server, Good
<1>r. CASE RestoreFails
  <2>1. NoChats \in Chats /\ NoChats' = NoChats
    BY DEF NoChats, Chats
  <2>2. inbox' \in Seq(Mail)
    BY <1>r, <2>1 DEF RestoreFails, TypeInv, Mail
  <2>3. snapshot' \in Chats' /\ failures' \in 0..MaxFailures
    BY <1>r, <1>a, <1>b, <2>1 DEF RestoreFails
  <2>4. QED
    BY <1>r, <2>2, <2>3, <1>a, <1>c, <1>d DEF TypeInv, RestoreFails, game, Good
<1>15. CASE Handle
  <2>1. Head(inbox) \in Mail /\ inbox' \in Seq(Mail)
    BY <1>15 DEF Handle, TypeInv
  <2>2. Good(view', Readable)
    <3>1. view' = IF Head(inbox)[1] = "chat" THEN AddChatMessage(view, Head(inbox)[2])
                  ELSE AddRecentChats(view, Head(inbox)[2])
      BY <1>15 DEF Handle
    <3>2. Good(view, Readable)
      BY DEF TypeInv
    <3>3. CASE Head(inbox)[1] = "chat"
      <4>1. Head(inbox)[2] \in Readable
        BY <2>1, <3>3 DEF Mail
      <4>2. QED
        BY <3>1, <3>2, <3>3, <4>1, AddChatMessageKeeps
    <3>4. CASE Head(inbox)[1] # "chat"
      <4>1. Head(inbox)[2] \in [Channels -> Seq(Readable)]
        BY <2>1, <3>4 DEF Mail, Chats
      <4>2. QED
        BY <3>1, <3>2, <3>4, <4>1, AddRecentChatsKeeps
    <3>5. QED
      BY <3>3, <3>4
  <2>3. Good(view', Readable')
    BY <2>2, <1>15, <1>a DEF Handle, game, server, Good, Readable, Concerns
  <2>4. QED
    BY <1>15, <2>1, <2>3, <1>a, <1>c, <1>e DEF TypeInv, Handle, game, server, connecting, Good
<1>16. CASE UNCHANGED vars
  BY <1>16, <1>a, <1>c, <1>d, <1>e, <1>f DEF TypeInv, vars, game, server, connecting, Good
<1>17. QED
  BY <1>1, <1>2, <1>3, <1>4, <1>5, <1>6, <1>7, <1>8, <1>10, <1>11, <1>12, <1>13, <1>14, <1>r,
    <1>15, <1>16 DEF Next

\* The message under way, step by step.
LEMMA JobStep == TypeInv /\ JobInv /\ [Next]_vars => JobInv'
<1> SUFFICES ASSUME TypeInv, JobInv, [Next]_vars PROVE JobInv'
  OBVIOUS
<1> Len(sent) \in Nat
  BY DEF TypeInv
<1>a. ASSUME UNCHANGED <<dead, sent, job>> PROVE JobInv'
  BY <1>a DEF JobInv, NoJob, Recipients, Alive
<1>b. ASSUME job.step \in {"push", "trim"}, job' = NextEffect, UNCHANGED <<dead, sent>>
      PROVE  JobInv'
  <2>1. /\ job # NoJob /\ job.msg = Len(sent) /\ Len(sent) >= 1
        /\ job.to \subseteq Recipients(sent[Len(sent)])
    BY <1>b, JobTyped
  <2>2. \/ job' = NoJob
        \/ job' = [msg |-> Len(sent), to |-> job.to, step |-> "emit", cached |-> TRUE]
    BY <1>b, <2>1, JobTyped, NextEffectOfMessage
  <2>3. NoJob' = NoJob /\ Recipients(sent[Len(sent)])' = Recipients(sent[Len(sent)])
    BY <1>b DEF NoJob, Recipients, Alive
  <2>4. CASE job' = NoJob
    BY <2>3, <2>4 DEF JobInv
  <2>5. CASE job' = [msg |-> Len(sent), to |-> job.to, step |-> "emit", cached |-> TRUE]
    <3>1. sent' = sent
      BY <1>b
    <3>2. job' \in [msg : {Len(sent)}, to : SUBSET Recipients(sent[Len(sent)]),
                   step : {"emit", "push", "trim"}, cached : BOOLEAN]
      BY <2>1, <2>5
    <3>3. job'.step = "emit"
      BY <2>5
    <3>4. QED
      BY <2>1, <2>3, <3>1, <3>2, <3>3 DEF JobInv
  <2>6. QED
    BY <2>2, <2>4, <2>5
<1>1. ASSUME NEW u \in Users, Dies(u) PROVE JobInv'
  BY <1>1 DEF Dies, JobInv, NoJob, server
<1>2. ASSUME NEW u \in Users, NEW c \in Channels, SendChatMessage(u, c) PROVE JobInv'
  <2>1. /\ sent' = Append(sent, c) /\ dead' = dead
        /\ job' = [msg |-> Len(sent) + 1, to |-> Recipients(c), step |-> "emit", cached |-> FALSE]
    BY <1>2 DEF SendChatMessage, game
  <2>2. Len(sent') = Len(sent) + 1 /\ sent'[Len(sent')] = c /\ Len(sent') >= 1
    BY <2>1 DEF TypeInv
  <2>3. Recipients(sent[Len(sent)])' = Recipients(c)
    BY <2>1, <2>2 DEF Recipients, Alive
  <2>4. QED
    BY <2>1, <2>2, <2>3 DEF JobInv
<1>3. CASE Emit
  <2>1. PICK r \in job.to :
          job' = IF ~job.cached THEN [job EXCEPT !.to = @ \ {r}, !.step = "push"]
                 ELSE IF job.to = {r} THEN NoJob ELSE [job EXCEPT !.to = @ \ {r}]
    BY <1>3 DEF Emit
  <2>2. /\ job # NoJob /\ Len(sent) >= 1 /\ job.step = "emit"
        /\ job \in [msg : {Len(sent)}, to : SUBSET Recipients(sent[Len(sent)]),
                    step : {"emit", "push", "trim"}, cached : BOOLEAN]
    BY <1>3 DEF Emit, JobInv, NoJob
  <2>3. /\ NoJob' = NoJob /\ sent' = sent
        /\ Recipients(sent[Len(sent)])' = Recipients(sent[Len(sent)])
    BY <1>3 DEF Emit, game, NoJob, Recipients, Alive
  <2>4. CASE ~ job.cached
    BY <2>1, <2>2, <2>3, <2>4 DEF JobInv
  <2>5. CASE job.cached
    BY <2>1, <2>2, <2>3, <2>5 DEF JobInv
  <2>6. QED
    BY <2>4, <2>5
<1>4. CASE Push
  <2>1. /\ job # NoJob /\ Len(sent) >= 1 /\ job.step = "push" /\ ~ job.cached
        /\ job \in [msg : {Len(sent)}, to : SUBSET Recipients(sent[Len(sent)]),
                    step : {"emit", "push", "trim"}, cached : BOOLEAN]
    BY <1>4 DEF Push, JobInv, NoJob
  <2>2. /\ NoJob' = NoJob /\ sent' = sent
        /\ Recipients(sent[Len(sent)])' = Recipients(sent[Len(sent)])
    BY <1>4 DEF Push, game, NoJob, Recipients, Alive
  <2>3. job' = [job EXCEPT !.step = "trim"]
    BY <1>4 DEF Push
  <2>4. QED
    BY <2>1, <2>2, <2>3 DEF JobInv
<1>5. CASE Trim
  BY <1>5, <1>b DEF Trim, game
<1>6. CASE AppendFails
  BY <1>6, <1>b DEF AppendFails, game
<1>7. CASE \/ PhaseChanges \/ Drop \/ JoinUserRoom \/ JoinPreviousRoom \/ ReadSession
           \/ (\E c \in Channels : GetRecent(c)) \/ EmitReconnectState \/ RestoreFails
           \/ Handle \/ UNCHANGED vars
  BY <1>7, <1>a DEF PhaseChanges, Drop, JoinUserRoom, JoinPreviousRoom, ReadSession, GetRecent,
    EmitReconnectState, RestoreFails, Handle, vars, game, server
<1>8. QED
  BY <1>1, <1>2, <1>3, <1>4, <1>5, <1>6, <1>7 DEF Next

-----------------------------------------------------------------------------
(* The cache, step by step.                                                *)

LEMMA CacheStep == TypeInv /\ JobInv /\ CacheInv /\ [Next]_vars => CacheInv'
<1> SUFFICES ASSUME TypeInv, JobInv, CacheInv, [Next]_vars PROVE CacheInv'
  OBVIOUS
<1> Len(sent) \in Nat /\ Limit \in Nat \ {0} /\ failures \in Nat
  BY BoundsAssumption DEF TypeInv
<1>a. ASSUME NEW c \in Channels
      PROVE  /\ cache[c] \in Seq(Nat) /\ Of(c) \in SUBSET Nat /\ \A m \in Of(c) : m <= Len(sent)
             /\ Len(cache[c]) \in Nat
             /\ (Of(c) \ lost) \ Unpushed \in SUBSET Nat
             /\ Holds(cache[c], (Of(c) \ lost) \ Unpushed)
             /\ Len(cache[c]) <= Limit + failures + 1
             /\ Len(cache[c]) > Limit + failures => job.step = "trim" /\ c = sent[job.msg]
  <2>1. Of(c) \in SUBSET Nat /\ \A m \in Of(c) : m <= Len(sent)
    BY DEF Of
  <2>2. cache[c] \in Seq(Nat)
    BY <2>1, SeqWider DEF TypeInv
  <2>3. Len(cache[c]) \in Nat /\ (Of(c) \ lost) \ Unpushed \in SUBSET Nat
    BY <2>1, <2>2
  <2>4. Holds(cache[c], (Of(c) \ lost) \ Unpushed)
    BY DEF CacheInv
  <2>5. /\ Len(cache[c]) <= Limit + failures + 1
        /\ Len(cache[c]) > Limit + failures => job.step = "trim" /\ c = sent[job.msg]
    BY DEF CacheInv
  <2>6. QED
    BY <2>1, <2>2, <2>3, <2>4, <2>5
\* A step that neither touches the cache nor says that something is in it.
<1>b. ASSUME UNCHANGED <<sent, cache, lost, failures>>, Unpushed' = Unpushed,
             job.step = "trim" => job'.step = "trim" /\ job'.msg = job.msg
      PROVE  CacheInv'
  <2>1. ASSUME NEW c \in Channels
        PROVE  /\ Holds(cache'[c], (Of(c)' \ lost') \ Unpushed')
               /\ Len(cache'[c]) <= Limit + failures' + 1
               /\ Len(cache'[c]) > Limit + failures' => job'.step = "trim" /\ c = sent'[job'.msg]
    <3>1. Of(c)' = Of(c)
      BY <1>b DEF Of
    <3>2. QED
      BY <1>a, <1>b, <3>1
  <2>2. Unpushed' \cap lost' = {}
    BY <1>b DEF CacheInv
  <2>3. QED
    BY <2>1, <2>2 DEF CacheInv, Holds
<1>c. ASSUME job.step \in {"push", "trim"}, job' = NextEffect
      PROVE  Unpushed' = {} /\ job'.step # "trim"
  BY <1>c, JobTyped, NextEffectOfMessage DEF Unpushed, NoJob
<1>1. ASSUME NEW u \in Users, NEW c \in Channels, SendChatMessage(u, c) PROVE CacheInv'
  <2>1. /\ sent' = Append(sent, c) /\ UNCHANGED <<lost, cache, failures>> /\ job = NoJob
        /\ job' = [msg |-> Len(sent) + 1, to |-> Recipients(c), step |-> "emit", cached |-> FALSE]
    BY <1>1 DEF SendChatMessage
  <2>2. Unpushed = {} /\ Unpushed' = {Len(sent) + 1} /\ job'.step # "trim" /\ job.step # "trim"
    BY <2>1 DEF Unpushed, NoJob
  <2>3. Unpushed' \cap lost' = {}
    BY <2>1, <2>2 DEF TypeInv
  <2>4. ASSUME NEW d \in Channels
        PROVE  /\ Holds(cache'[d], (Of(d)' \ lost') \ Unpushed')
               /\ Len(cache'[d]) <= Limit + failures' + 1
               /\ Len(cache'[d]) > Limit + failures' => job'.step = "trim" /\ d = sent'[job'.msg]
    <3>1. Of(d)' \ {Len(sent) + 1} = Of(d)
      BY <2>1 DEF Of, TypeInv
    <3>2. (Of(d)' \ lost') \ Unpushed' = (Of(d) \ lost) \ Unpushed
      BY <2>1, <2>2, <3>1
    <3>3. QED
      BY <1>a, <2>1, <2>2, <3>2
  <2>5. QED
    BY <2>3, <2>4 DEF CacheInv, Holds
<1>2. CASE Emit
  <2>1. PICK r \in job.to :
          job' = IF ~job.cached THEN [job EXCEPT !.to = @ \ {r}, !.step = "push"]
                 ELSE IF job.to = {r} THEN NoJob ELSE [job EXCEPT !.to = @ \ {r}]
    BY <1>2 DEF Emit
  <2>2. Unpushed' = Unpushed
    BY <1>2, <2>1, JobTyped DEF Emit, Unpushed, NoJob
  <2>3. QED
    BY <1>2, <1>b, <2>2 DEF Emit
<1>3. CASE Push
  <2>1. /\ UNCHANGED <<sent, lost, failures>> /\ job.step = "push" /\ ~ job.cached
        /\ cache' = [cache EXCEPT ![sent[job.msg]] = Append(@, job.msg)]
        /\ job' = [job EXCEPT !.step = "trim"] /\ job # NoJob
    BY <1>3, JobTyped DEF Push, NoJob
  <2>2. /\ Unpushed = {job.msg} /\ Unpushed' = {} /\ job'.step = "trim" /\ job'.msg = job.msg
        /\ job.msg \notin lost
    BY <2>1, JobTyped DEF Unpushed, CacheInv
  <2>3. ASSUME NEW d \in Channels
        PROVE  /\ Holds(cache'[d], (Of(d)' \ lost') \ Unpushed')
               /\ Len(cache'[d]) <= Limit + failures' + 1
               /\ Len(cache'[d]) > Limit + failures' => job'.step = "trim" /\ d = sent'[job'.msg]
    <3> DEFINE kept == (Of(d) \ lost) \ Unpushed
    <3>1. Of(d)' = Of(d)
      BY <2>1 DEF Of
    <3>2. CASE d = sent[job.msg]
      <4>1. cache'[d] = Append(cache[d], job.msg)
        BY <2>1, <3>2 DEF TypeInv
      <4>2. job.msg \in Of(d) /\ job.msg \in Nat /\ job.msg = Len(sent)
        BY <2>1, <3>2, JobTyped DEF Of
      <4>3. (Of(d)' \ lost') \ Unpushed' = kept \cup {job.msg}
        BY <2>1, <2>2, <3>1, <4>2
      <4>a. /\ cache[d] \in Seq(Nat) /\ Len(cache[d]) \in Nat /\ kept \in SUBSET Nat
            /\ Holds(cache[d], kept)
        BY <1>a
      <4>4. \A m \in kept : m < job.msg
        <5>1. ASSUME NEW m \in kept PROVE m < job.msg
          <6>1. m \in Nat /\ m <= Len(sent) /\ m # job.msg
            BY <1>a, <2>2
          <6>2. QED
            BY <6>1, <4>2
        <5>2. QED
          BY <5>1
      <4>5. Holds(cache'[d], kept \cup {job.msg})
        <5> HIDE DEF kept
        <5>1. QED
          BY <4>a, <4>1, <4>2, <4>4, AppendHolds
      <4>6. Len(cache'[d]) = Len(cache[d]) + 1
        BY <4>1, <4>2, <4>a, MembersOfAppend
      <4>7. Len(cache'[d]) <= Limit + failures + 1
        <5>1. Len(cache[d]) <= Limit + failures
          <6>1. Len(cache[d]) > Limit + failures => job.step = "trim"
            BY <1>a
          <6>2. QED
            BY <6>1, <2>1, <4>a
        <5>2. QED
          BY <4>a, <4>6, <5>1
      <4>8. QED
        BY <2>1, <2>2, <3>2, <4>3, <4>5, <4>7
    <3>3. CASE d # sent[job.msg]
      <4>1. cache'[d] = cache[d]
        BY <2>1, <3>3 DEF TypeInv
      <4>2. job.msg \notin Of(d)
        BY <3>3 DEF Of
      <4>3. (Of(d)' \ lost') \ Unpushed' = kept
        BY <2>1, <2>2, <3>1, <4>2
      <4>4. QED
        BY <1>a, <2>1, <2>2, <3>3, <4>1, <4>3
    <3>4. QED
      BY <3>2, <3>3
  <2>4. QED
    BY <2>2, <2>3 DEF CacheInv, Holds
<1>4. CASE Trim
  <2>1. /\ UNCHANGED <<sent, lost, failures>> /\ job.step = "trim"
        /\ cache' = [cache EXCEPT ![sent[job.msg]] = Recent(@)]
        /\ Unpushed' = {} /\ job'.step # "trim" /\ Unpushed = {}
    BY <1>4, <1>c DEF Trim, Unpushed
  <2>2. ASSUME NEW d \in Channels
        PROVE  /\ Holds(cache'[d], (Of(d)' \ lost') \ Unpushed')
               /\ Len(cache'[d]) <= Limit + failures' + 1
               /\ ~ (Len(cache'[d]) > Limit + failures')
    <3>1. Of(d)' = Of(d)
      BY <2>1 DEF Of
    <3>2. CASE d = sent[job.msg]
      <4>1. cache'[d] = Recent(cache[d])
        BY <2>1, <3>2 DEF TypeInv
      <4>2. Len(Recent(cache[d])) <= Limit
        <5>1. cache[d] \in Seq(Nat) /\ Len(cache[d]) \in Nat
          BY <1>a
        <5>2. QED
          BY <5>1, RecentIsSuffix
      <4>3. Holds(Recent(cache[d]), (Of(d) \ lost) \ Unpushed)
        BY <1>a, RecentHolds
      <4>4. Len(Recent(cache[d])) \in Nat
        BY <1>a, RecentIsSuffix
      <4>5. QED
        BY <2>1, <3>1, <4>1, <4>2, <4>3, <4>4
    <3>3. CASE d # sent[job.msg]
      <4>1. cache'[d] = cache[d]
        BY <2>1, <3>3 DEF TypeInv
      <4>2. QED
        BY <1>a, <2>1, <3>1, <3>3, <4>1
    <3>4. QED
      BY <3>2, <3>3
  <2>3. QED
    BY <2>1, <2>2 DEF CacheInv, Holds
<1>5. CASE AppendFails
  <2>1. /\ UNCHANGED <<sent, cache>> /\ job.step \in {"push", "trim"} /\ failures' = failures + 1
        /\ lost' = IF job.step = "push" THEN lost \cup {job.msg} ELSE lost
        /\ Unpushed' = {} /\ job'.step # "trim" /\ ~ job.cached
    BY <1>5, <1>c, JobTyped DEF AppendFails, NoJob
  <2>2. lost' = lost \cup Unpushed
    BY <2>1 DEF Unpushed
  <2>3. ASSUME NEW d \in Channels
        PROVE  /\ Holds(cache'[d], (Of(d)' \ lost') \ Unpushed')
               /\ Len(cache'[d]) <= Limit + failures' + 1
               /\ ~ (Len(cache'[d]) > Limit + failures')
    <3>1. (Of(d)' \ lost') \ Unpushed' = (Of(d) \ lost) \ Unpushed
      BY <2>1, <2>2 DEF Of
    <3>2. /\ Len(cache[d]) \in Nat /\ Len(cache[d]) <= Limit + failures + 1
          /\ Holds(cache[d], (Of(d) \ lost) \ Unpushed)
      BY <1>a
    <3>3. Holds(cache'[d], (Of(d)' \ lost') \ Unpushed')
      BY <2>1, <3>1, <3>2
    <3>4. Len(cache'[d]) <= Limit + failures' + 1 /\ ~ (Len(cache'[d]) > Limit + failures')
      <4>1. cache'[d] = cache[d] /\ failures' = failures + 1
        BY <2>1
      <4>2. QED
        BY <4>1, <3>2
    <3>5. QED
      BY <3>3, <3>4
  <2>4. QED
    BY <2>1, <2>3 DEF CacheInv, Holds
<1>r. CASE RestoreFails
  <2>1. UNCHANGED <<sent, lost, job, cache>> /\ Unpushed' = Unpushed /\ failures' = failures + 1
    BY <1>r DEF RestoreFails, Unpushed
  <2>2. ASSUME NEW d \in Channels
        PROVE  /\ Holds(cache'[d], (Of(d)' \ lost') \ Unpushed')
               /\ Len(cache'[d]) <= Limit + failures' + 1
               /\ ~ (Len(cache'[d]) > Limit + failures')
    <3>1. (Of(d)' \ lost') \ Unpushed' = (Of(d) \ lost) \ Unpushed
      BY <2>1 DEF Of
    <3>2. /\ Len(cache[d]) \in Nat /\ Len(cache[d]) <= Limit + failures + 1
          /\ Holds(cache[d], (Of(d) \ lost) \ Unpushed)
      BY <1>a
    <3>3. Holds(cache'[d], (Of(d)' \ lost') \ Unpushed')
      BY <2>1, <3>1, <3>2
    <3>4. cache'[d] = cache[d] /\ failures' = failures + 1
      BY <2>1
    <3>5. QED
      BY <3>2, <3>3, <3>4
  <2>3. QED
    BY <2>1, <2>2 DEF CacheInv, Holds
<1>6. CASE \/ PhaseChanges \/ (\E u \in Users : Dies(u)) \/ Drop \/ JoinUserRoom
           \/ JoinPreviousRoom \/ ReadSession \/ (\E c \in Channels : GetRecent(c))
           \/ EmitReconnectState \/ Handle \/ UNCHANGED vars
  <2>1. UNCHANGED server
    BY <1>6 DEF PhaseChanges, Dies, Drop, JoinUserRoom, JoinPreviousRoom, ReadSession, GetRecent,
      EmitReconnectState, Handle, vars
  <2>2. UNCHANGED <<sent, lost, job, cache, failures>> /\ Unpushed' = Unpushed
    BY <2>1 DEF server, Unpushed
  <2>3. QED
    BY <2>2, <1>b
<1>7. QED
  BY <1>1, <1>2, <1>3, <1>4, <1>5, <1>r, <1>6 DEF Next

-----------------------------------------------------------------------------
(* What is heard, step by step.                                            *)

\* What is still kept after a push and a trim was kept before, or is the new one.
LEMMA RecentOfAppend ==
  ASSUME NEW list \in Seq(Nat), NEW x \in Nat, NEW m \in ToSet(Recent(Append(list, x)))
  PROVE  m \in ToSet(Recent(list)) \/ m = x
<1> DEFINE more == Append(list, x)
           rest == Recent(list)
           rest2 == Recent(more)
<1>1. /\ more \in Seq(Nat) /\ Len(more) = Len(list) + 1 /\ Len(list) \in Nat
      /\ more[Len(list) + 1] = x /\ \A i \in 1..Len(list) : more[i] = list[i]
  OBVIOUS
<1> HIDE DEF more
<1>2. /\ rest \in Seq(Nat) /\ Len(rest) \in Nat /\ Len(rest) <= Len(list) /\ Limit \in Nat
      /\ Len(list) > Limit => Len(rest) = Limit
      /\ Len(list) <= Limit => Len(rest) = Len(list)
      /\ \A i \in 1..Len(rest) : rest[i] = list[Len(list) - Len(rest) + i]
  BY RecentIsSuffix, BoundsAssumption
<1>3. /\ rest2 \in Seq(Nat) /\ Len(rest2) \in Nat /\ Len(rest2) <= Len(more)
      /\ Len(more) > Limit => Len(rest2) = Limit
      /\ Len(more) <= Limit => Len(rest2) = Len(more)
      /\ \A i \in 1..Len(rest2) : rest2[i] = more[Len(more) - Len(rest2) + i]
  BY <1>1, RecentIsSuffix
<1>a. m \in ToSet(rest2)
  BY DEF more
<1> HIDE DEF rest, rest2
<1>4. PICK i \in 1..Len(rest2) : rest2[i] = m
  BY <1>3, <1>a, Members
<1> DEFINE k == Len(more) - Len(rest2) + i
<1>5. k \in 1..Len(more) /\ more[k] = m
  BY <1>1, <1>3, <1>4
<1>6. CASE k = Len(list) + 1
  BY <1>1, <1>5, <1>6
<1>7. CASE k # Len(list) + 1
  <2> DEFINE j == k - (Len(list) - Len(rest))
  <2>a. k \in 1..Len(list)
    BY <1>1, <1>5, <1>7
  <2>1. j \in 1..Len(rest)
    <3>1. /\ Len(list) \in Nat /\ Len(rest) \in Nat /\ Len(rest2) \in Nat /\ Limit \in Nat
          /\ Len(more) = Len(list) + 1 /\ k \in Nat /\ i \in Nat
          /\ k = Len(more) - Len(rest2) + i /\ 1 <= i /\ 1 <= k /\ k <= Len(list)
      BY <2>a, <1>1, <1>2, <1>3, <1>4
    <3>2. /\ Len(list) > Limit => Len(rest) = Limit
          /\ Len(list) <= Limit => Len(rest) = Len(list)
          /\ Len(more) > Limit => Len(rest2) = Limit
      BY <1>2, <1>3
    <3> HIDE DEF k
    <3>3. CASE Len(list) > Limit
      BY <3>1, <3>2, <3>3
    <3>4. CASE ~ (Len(list) > Limit)
      BY <3>1, <3>2, <3>4
    <3>5. QED
      BY <3>3, <3>4
  <2>2. rest[j] = list[k]
    BY <2>1, <2>a, <1>1, <1>2
  <2>3. rest[j] = m
    BY <2>2, <2>a, <1>1, <1>5
  <2>4. QED
    BY <2>1, <2>3, <1>2, Members DEF rest
<1>8. QED
  BY <1>6, <1>7

LEMMA RecentOfRecent ==
  ASSUME NEW list \in Seq(Nat), NEW m \in ToSet(Recent(Recent(list)))
  PROVE  m \in ToSet(Recent(list))
<1> DEFINE rest == Recent(list)
           rest2 == Recent(rest)
<1>1. rest \in Seq(Nat) /\ Len(rest) \in Nat
  BY RecentIsSuffix
<1>a. m \in ToSet(rest2)
  OBVIOUS
<1> HIDE DEF rest
<1>2. /\ rest2 \in Seq(Nat)
      /\ \A i \in 1..Len(rest2) : /\ Len(rest) - Len(rest2) + i \in 1..Len(rest)
                                  /\ rest2[i] = rest[Len(rest) - Len(rest2) + i]
  BY <1>1, RecentIsSuffix
<1> HIDE DEF rest2
<1>3. PICK i \in 1..Len(rest2) : rest2[i] = m
  BY <1>2, <1>a, Members
<1>4. m \in ToSet(rest)
  BY <1>1, <1>2, <1>3, Members
<1>5. QED
  BY <1>4 DEF rest

\* A message in the mail stays there until the event is handled.
LEMMA MailOfAppend ==
  ASSUME NEW T, NEW box \in Seq(T), NEW e \in T, NEW m
  PROVE  /\ InMail(box, m) => InMail(Append(box, e), m)
         /\ e = <<"chat", m>> => InMail(Append(box, e), m)
         /\ e[1] = "state" => \A c \in Channels : m \in ToSet(e[2][c]) => InMail(Append(box, e), m)
<1> DEFINE more == Append(box, e)
<1>1. /\ Len(box) \in Nat /\ Len(more) = Len(box) + 1 /\ more[Len(box) + 1] = e
      /\ \A i \in 1..Len(box) : more[i] = box[i] /\ i \in 1..Len(more)
  OBVIOUS
<1> HIDE DEF more
<1>2. Len(box) + 1 \in 1..Len(more)
  BY <1>1
<1>3. ASSUME InMail(box, m) PROVE InMail(more, m)
  <2>1. PICK i \in 1..Len(box) :
          \/ box[i] = <<"chat", m>>
          \/ box[i][1] = "state" /\ \E c \in Channels : m \in ToSet(box[i][2][c])
    BY <1>3 DEF InMail
  <2>2. i \in 1..Len(more) /\ more[i] = box[i]
    BY <1>1
  <2>3. QED
    BY <2>1, <2>2 DEF InMail
<1>4. ASSUME e = <<"chat", m>> PROVE InMail(more, m)
  BY <1>1, <1>2, <1>4 DEF InMail
<1>5. ASSUME e[1] = "state", NEW c \in Channels, m \in ToSet(e[2][c]) PROVE InMail(more, m)
  BY <1>1, <1>2, <1>5 DEF InMail
<1>6. QED
  BY <1>3, <1>4, <1>5 DEF more

LEMMA MailOfTail ==
  ASSUME NEW T, NEW box \in Seq(T), box # <<>>, NEW m, InMail(box, m)
  PROVE  \/ Head(box) = <<"chat", m>>
         \/ Head(box)[1] = "state" /\ \E c \in Channels : m \in ToSet(Head(box)[2][c])
         \/ InMail(Tail(box), m)
<1>1. PICK i \in 1..Len(box) :
        \/ box[i] = <<"chat", m>>
        \/ box[i][1] = "state" /\ \E c \in Channels : m \in ToSet(box[i][2][c])
  BY DEF InMail
<1>2. CASE i = 1
  <2>1. box[i] = Head(box)
    BY <1>2
  <2>2. QED
    BY <1>1, <2>1
<1>3. CASE i # 1
  <2>1. i - 1 \in 1..Len(Tail(box)) /\ Tail(box)[i - 1] = box[i]
    BY <1>3
  <2>2. QED
    BY <1>1, <2>1 DEF InMail
<1>4. QED
  BY <1>2, <1>3

\* A message goes to everybody it concerns: there is one mafia.
LEMMA ConcernedHear ==
  ASSUME TypeInv, NEW u \in Users, NEW c \in Channels, CanSay(u, c), c \in Hearable
  PROVE  \E r \in Recipients(c) : IHear(r)
<1>1. CASE c \in RoomChannels
  <2>1. Recipients(c) = {"room"}
    BY <1>1 DEF Recipients, RoomChannels
  <2>2. IHear("room")
    BY <1>1 DEF IHear, Hearable
  <2>3. QED
    BY <2>1, <2>2
<1>2. CASE c = "MAFIA"
  <2>1. u \in Mafia /\ u \in Alive /\ me \in Mafia
    BY <1>2 DEF CanSay, Hearable, Concerns
  <2>2. PICK x : Mafia = {x}
    BY MafiaAssumption, FS_Singleton, FS_Subset, UsersAssumption
  <2>3. me = u
    BY <2>1, <2>2
  <2>4. me \in Recipients(c)
    BY <2>1, <2>3, <1>2 DEF Recipients, RoomChannels
  <2>5. me # "room" /\ HearsUser
    BY <1>2, UsersAssumption DEF TypeInv, Hearable, RoomChannels
  <2>6. QED
    BY <2>4, <2>5 DEF IHear
<1>3. CASE c = "GHOST"
  <2>1. me \in Recipients(c)
    BY <1>3 DEF Recipients, RoomChannels, Hearable, Concerns
  <2>2. me # "room" /\ HearsUser
    BY <1>3, UsersAssumption DEF TypeInv, Hearable, RoomChannels
  <2>3. QED
    BY <2>1, <2>2 DEF IHear
<1>4. QED
  BY <1>1, <1>2, <1>3 DEF Channels, RoomChannels

LEMMA MissStep ==
  TypeInv /\ TypeInv' /\ JobInv /\ JobInv' /\ MissInv /\ [Next]_vars => MissInv'
<1> SUFFICES ASSUME TypeInv, TypeInv', JobInv, JobInv', MissInv, [Next]_vars PROVE MissInv'
  OBVIOUS
<1> DEFINE JobHeard == job # NoJob /\ sent[job.msg] \in Hearable => job.msg \in Heard
           ChannelsHeard ==
             pc \in {"reading", "up"} =>
               \A c \in restored \ reading : \A m \in ToSet(Recent(cache[c])) :
                 m \in Heard \/ (pc = "reading" /\ m \in ToSet(snapshot[c]))
<1> USE DEF HearsRoom, HearsUser
<1>n. JobHeard /\ ChannelsHeard
  BY DEF MissInv
<1>d. SUFFICES JobHeard' /\ ChannelsHeard'
  BY DEF MissInv, NoJob, Recent
<1>s. 1..Len(sent) \subseteq 1..Len(sent') /\ \A m \in 1..Len(sent) : sent'[m] = sent[m]
  BY SentGrows, ReadableGrows
<1>j. /\ job # NoJob => job.msg \in 1..Len(sent) /\ sent[job.msg] \in Channels
      /\ job' # NoJob => job'.msg \in 1..Len(sent') /\ sent'[job'.msg] \in Channels
      /\ job = NoJob => job.to = {}
  <2>1. NoJob' = NoJob
    BY DEF NoJob
  <2>2. ASSUME job' # NoJob PROVE job'.msg \in 1..Len(sent') /\ sent'[job'.msg] \in Channels
    BY <2>1, <2>2 DEF JobInv, TypeInv
  <2>3. QED
    BY <2>2, JobTyped
\* What each part of the invariant needs of a step.
<1>a. ASSUME job' # NoJob => job # NoJob /\ job'.msg = job.msg,
             Hearable' \subseteq Hearable, Heard \subseteq Heard'
      PROVE  JobHeard'
  <2>1. NoJob' = NoJob
    BY DEF NoJob
  <2>2. QED
    BY <1>a, <1>n, <1>s, <1>j, <2>1
<1>b. ASSUME UNCHANGED <<pc, restored, reading, cache, snapshot>>, Heard \subseteq Heard'
      PROVE  ChannelsHeard'
  BY <1>b, <1>n DEF Recent
<1>c. ASSUME UNCHANGED <<me, sent, job, inbox, view>>, underway \subseteq underway',
             \A r : IHear(r) => IHear(r)'
      PROVE  Heard \subseteq Heard'
  BY <1>c DEF Heard, InMail
\* A step of the chat handler that reaches nobody.
<1>e. ASSUME UNCHANGED <<me, dead, sent, connecting, inbox, view>>,
             \/ job' = NoJob /\ job.to = {}
             \/ job' # NoJob /\ job # NoJob /\ job'.msg = job.msg /\ job'.to = job.to
      PROVE  Heard \subseteq Heard' /\ JobHeard'
  <2>1. Heard \subseteq Heard'
    BY <1>e DEF Heard, IHear, InMail, connecting
  <2>2. Hearable' \subseteq Hearable
    BY <1>e DEF Hearable, Concerns, connecting
  <2>3. QED
    BY <1>a, <1>e, <2>1, <2>2
<1>f. ASSUME job' = NextEffect, job.step \in {"push", "trim"}
      PROVE  \/ job' = NoJob /\ job.to = {}
             \/ job' # NoJob /\ job # NoJob /\ job'.msg = job.msg /\ job'.to = job.to
  BY <1>f, JobTyped, NextEffectOfMessage DEF NoJob
<1>1. ASSUME \/ PhaseChanges
             \/ \E u \in Users : Dies(u)
      PROVE  JobHeard' /\ ChannelsHeard'
  <2>1. UNCHANGED <<me, server, connecting, inbox, view>> /\ job = NoJob /\ job' = NoJob
    BY <1>1 DEF PhaseChanges, Dies, server
  <2>2. Heard \subseteq Heard'
    BY <2>1 DEF Heard, IHear, InMail, server, connecting
  <2>3. JobHeard'
    BY <2>1 DEF NoJob
  <2>4. QED
    BY <1>b, <2>1, <2>2, <2>3 DEF server, connecting
<1>2. ASSUME NEW u \in Users, NEW c \in Channels, SendChatMessage(u, c)
      PROVE  JobHeard' /\ ChannelsHeard'
  <2>1. /\ UNCHANGED <<game, lost, cache, failures, connecting, inbox, view>> /\ job = NoJob
        /\ sent' = Append(sent, c) /\ CanSay(u, c)
        /\ job' = [msg |-> Len(sent) + 1, to |-> Recipients(c), step |-> "emit", cached |-> FALSE]
    BY <1>2 DEF SendChatMessage
  <2>2. job.to = {}
    BY <1>j, <2>1
  <2>3. Heard \subseteq Heard'
    BY <1>s, <2>1, <2>2 DEF Heard, IHear, InMail, game, connecting
  <2>4. sent'[job'.msg] = c /\ job'.msg \in 1..Len(sent')
    BY <2>1 DEF TypeInv
  <2>5. ASSUME c \in Hearable PROVE job'.msg \in Heard'
    <3>1. PICK r \in Recipients(c) : IHear(r)
      BY <2>1, <2>5, ConcernedHear
    <3>2. IHear(r)' /\ r \in job'.to
      BY <2>1, <3>1 DEF IHear, game, connecting
    <3>3. QED
      BY <2>4, <3>2 DEF Heard
  <2>6. Hearable' = Hearable
    BY <2>1 DEF Hearable, Concerns, game, connecting
  <2>7. JobHeard'
    BY <2>4, <2>5, <2>6
  <2>8. QED
    BY <1>b, <2>1, <2>3, <2>7 DEF connecting
<1>3. ASSUME Emit PROVE JobHeard' /\ ChannelsHeard'
  <2>1. PICK r \in job.to :
          /\ inbox' = IF IHear(r) THEN Append(inbox, <<"chat", job.msg>>) ELSE inbox
          /\ job' = IF ~job.cached THEN [job EXCEPT !.to = @ \ {r}, !.step = "push"]
                    ELSE IF job.to = {r} THEN NoJob ELSE [job EXCEPT !.to = @ \ {r}]
    BY <1>3 DEF Emit
  <2>2. UNCHANGED <<game, sent, cache, connecting, view>> /\ job # NoJob
    BY <1>3 DEF Emit, NoJob
  <2>3. \/ job' = NoJob /\ job.to = {r}
        \/ job'.msg = job.msg /\ job'.to = job.to \ {r}
    BY <2>1, JobTyped
  <2>4. ASSUME NEW m \in Heard PROVE m \in Heard'
    <3>1. \A x : IHear(x)' <=> IHear(x)
      BY <2>2 DEF IHear, game, connecting
    <3>2. ASSUME IHear(r) PROVE <<"chat", job.msg>> \in Mail
      BY <3>2, HearersMayRead DEF Mail
    <3>3. inbox \in Seq(Mail) /\ m \in 1..Len(sent')
      BY <1>s DEF TypeInv, Heard
    <3>4. CASE m \in view.known \cup underway
      BY <3>3, <3>4, <2>2 DEF Heard, connecting
    <3>5. CASE InMail(inbox, m)
      <4>1. CASE IHear(r)
        <5>1. InMail(inbox', m)
          BY <4>1, <2>1, <3>2, <3>3, <3>5, MailOfAppend
        <5>2. QED
          BY <3>3, <5>1 DEF Heard, InMail
      <4>2. CASE ~ IHear(r)
        BY <3>3, <4>2, <2>1, <3>5 DEF Heard, InMail
      <4>3. QED
        BY <4>1, <4>2
    <3>6. ASSUME m = job.msg, NEW x \in job.to, IHear(x) PROVE m \in Heard'
      <4>1. CASE x = r
        <5>1. InMail(inbox', m)
          BY <4>1, <2>1, <3>2, <3>3, <3>6, MailOfAppend
        <5>2. QED
          BY <3>3, <5>1 DEF Heard, InMail
      <4>2. CASE x # r
        <5>1. job'.msg = m /\ x \in job'.to /\ IHear(x)'
          BY <2>3, <3>1, <3>6, <4>2
        <5>2. QED
          BY <3>3, <5>1 DEF Heard
      <4>3. QED
        BY <4>1, <4>2
    <3>7. QED
      BY <2>4, <3>4, <3>5, <3>6 DEF Heard
  <2>5. Hearable' = Hearable
    BY <2>2 DEF Hearable, Concerns, game, connecting
  <2>6. Heard \subseteq Heard'
    BY <2>4
  <2>7. JobHeard'
    BY <1>a, <2>2, <2>3, <2>5, <2>6
  <2>8. QED
    BY <1>b, <2>2, <2>6, <2>7 DEF connecting
<1>4. ASSUME Push PROVE JobHeard' /\ ChannelsHeard'
  <2>1. /\ UNCHANGED <<game, sent, connecting, inbox, view>> /\ job # NoJob /\ job.step = "push"
        /\ job' = [job EXCEPT !.step = "trim"]
        /\ cache' = [cache EXCEPT ![sent[job.msg]] = Append(@, job.msg)]
    BY <1>4 DEF Push, NoJob
  <2>2. job' # NoJob /\ job # NoJob /\ job'.msg = job.msg /\ job'.to = job.to
    BY <2>1, JobTyped DEF NoJob
  <2>3. Heard \subseteq Heard' /\ JobHeard'
    BY <1>e, <2>1, <2>2 DEF game
  <2>4. ASSUME pc \in {"reading", "up"}, NEW c \in restored \ reading,
               NEW m \in ToSet(Recent(cache'[c]))
        PROVE  m \in Heard' \/ (pc = "reading" /\ m \in ToSet(snapshot[c]))
    <3>1. c \in Channels /\ cache[c] \in Seq(1..Len(sent)) /\ Concerns(c)
      BY DEF TypeInv
    <3>2. cache[c] \in Seq(Nat) /\ job.msg \in Nat
      BY <3>1, SeqWider, JobTyped
    <3>3. CASE m \in ToSet(Recent(cache[c]))
      BY <1>n, <2>3, <2>4, <3>3
    <3>4. CASE m \notin ToSet(Recent(cache[c]))
      <4>1. c = sent[job.msg] /\ cache'[c] = Append(cache[c], job.msg)
        BY <2>1, <3>1, <3>4 DEF TypeInv
      <4>2. m = job.msg
        BY <3>2, <3>4, <4>1, RecentOfAppend
      <4>3. c \in Hearable
        BY <2>4, <3>1 DEF Hearable
      <4>4. m \in Heard
        BY <1>n, <2>1, <4>1, <4>2, <4>3
      <4>5. QED
        BY <2>3, <4>4
    <3>5. QED
      BY <3>3, <3>4
  <2>5. QED
    BY <2>1, <2>3, <2>4 DEF connecting, Recent
<1>5. ASSUME Trim PROVE JobHeard' /\ ChannelsHeard'
  <2>1. /\ UNCHANGED <<game, sent, connecting, inbox, view>>
        /\ job.step = "trim" /\ job' = NextEffect
        /\ cache' = [cache EXCEPT ![sent[job.msg]] = Recent(@)]
    BY <1>5 DEF Trim
  <2>3. Heard \subseteq Heard' /\ JobHeard'
    BY <1>e, <1>f, <2>1 DEF game
  <2>4. ASSUME pc \in {"reading", "up"}, NEW c \in restored \ reading,
               NEW m \in ToSet(Recent(cache'[c]))
        PROVE  m \in Heard' \/ (pc = "reading" /\ m \in ToSet(snapshot[c]))
    <3>1. c \in Channels /\ cache[c] \in Seq(1..Len(sent))
      BY DEF TypeInv
    <3>2. cache[c] \in Seq(Nat)
      BY <3>1, SeqWider
    <3>3. cache'[c] = cache[c] \/ cache'[c] = Recent(cache[c])
      BY <2>1, <3>1 DEF TypeInv
    <3>4. m \in ToSet(Recent(cache[c]))
      BY <3>2, <3>3, RecentOfRecent
    <3>5. QED
      BY <1>n, <2>3, <2>4, <3>4
  <2>5. QED
    BY <2>1, <2>3, <2>4 DEF connecting, Recent
<1>6. ASSUME AppendFails PROVE JobHeard' /\ ChannelsHeard'
  <2>1. /\ UNCHANGED <<game, sent, cache, connecting, inbox, view>> /\ job' = NextEffect
        /\ job.step \in {"push", "trim"}
    BY <1>6 DEF AppendFails
  <2>2. Heard \subseteq Heard' /\ JobHeard'
    BY <1>e, <1>f, <2>1 DEF game
  <2>3. QED
    BY <1>b, <2>1, <2>2 DEF connecting
<1>7. ASSUME Drop PROVE JobHeard' /\ ChannelsHeard'
  <2>1. pc' = "down"
    BY <1>7 DEF Drop
  <2>2. Hearable' = {}
    BY <2>1 DEF Hearable
  <2>3. QED
    BY <2>1, <2>2
<1>8. ASSUME JoinUserRoom PROVE JobHeard' /\ ChannelsHeard'
  <2>1. /\ UNCHANGED <<game, server, inbox, view>> /\ pc' = "joinedUser"
        /\ underway' = UnderwayIn(Channels \ RoomChannels)
    BY <1>8 DEF JoinUserRoom, Step
  <2>2. ASSUME job' # NoJob, sent'[job'.msg] \in Hearable' PROVE job'.msg \in Heard'
    <3>1. job # NoJob /\ job' = job /\ sent' = sent
      BY <2>1, <2>2 DEF server, NoJob
    <3>2. sent[job.msg] \in Channels \ RoomChannels
      BY <2>1, <2>2, <3>1 DEF Hearable
    <3>3. job.msg \in underway'
      BY <2>1, <3>1, <3>2 DEF UnderwayIn
    <3>4. QED
      BY <1>j, <3>1, <3>3 DEF Heard
  <2>3. QED
    BY <2>1, <2>2 DEF NoJob
<1>9. ASSUME JoinPreviousRoom PROVE JobHeard' /\ ChannelsHeard'
  <2>1. /\ UNCHANGED <<game, server, inbox, view>> /\ pc = "joinedUser" /\ pc' = "joinedRoom"
        /\ underway' = underway \cup UnderwayIn(RoomChannels)
    BY <1>9 DEF JoinPreviousRoom, Step
  <2>a. Heard \subseteq Heard'
    BY <1>c, <2>1 DEF IHear, game, server
  <2>2. ASSUME job' # NoJob, sent'[job'.msg] \in Hearable' PROVE job'.msg \in Heard'
    <3>1. job # NoJob /\ job' = job /\ sent' = sent
      BY <2>1, <2>2 DEF server, NoJob
    <3>2. CASE sent[job.msg] \in RoomChannels
      <4>1. job.msg \in underway'
        BY <2>1, <3>1, <3>2 DEF UnderwayIn
      <4>2. QED
        BY <1>j, <3>1, <4>1 DEF Heard
    <3>3. CASE sent[job.msg] \notin RoomChannels
      <4>1. sent[job.msg] \in Hearable
        BY <2>1, <2>2, <3>1, <3>3 DEF Hearable, Concerns, game
      <4>2. QED
        BY <1>n, <2>a, <3>1, <4>1
    <3>4. QED
      BY <3>2, <3>3
  <2>3. QED
    BY <2>1, <2>2 DEF NoJob
<1>10. ASSUME ReadSession PROVE JobHeard' /\ ChannelsHeard'
  <2>1. /\ UNCHANGED <<game, server, inbox, view, underway>> /\ pc = "joinedRoom" /\ pc' = "reading"
        /\ restored' = reading'
    BY <1>10 DEF ReadSession, Step
  <2>2. Heard \subseteq Heard'
    BY <1>c, <2>1 DEF IHear, game, server
  <2>3. Hearable' = Hearable
    BY <2>1 DEF Hearable, Concerns, game
  <2>4. QED
    BY <1>a, <2>1, <2>2, <2>3 DEF server
<1>11. ASSUME NEW c \in Channels, GetRecent(c) PROVE JobHeard' /\ ChannelsHeard'
  <2>1. /\ UNCHANGED <<game, server, inbox, view, pc, restored, underway>> /\ pc = "reading"
        /\ reading' = reading \ {c} /\ snapshot' = [snapshot EXCEPT ![c] = Recent(cache[c])]
    BY <1>11 DEF GetRecent
  <2>2. Heard \subseteq Heard'
    BY <1>c, <2>1 DEF IHear, game, server
  <2>3. Hearable' = Hearable
    BY <2>1 DEF Hearable, Concerns, game
  <2>4. ASSUME NEW d \in restored' \ reading', NEW m \in ToSet(Recent(cache'[d]))
        PROVE  m \in Heard' \/ m \in ToSet(snapshot'[d])
    <3>1. cache' = cache /\ d \in Channels
      BY <2>1 DEF server, TypeInv
    <3>2. CASE d = c
      <4>1. snapshot'[d] = Recent(cache[d])
        BY <2>1, <3>1, <3>2 DEF TypeInv, Chats
      <4>2. QED
        BY <3>1, <4>1, <2>4
    <3>3. CASE d # c
      <4>1. snapshot'[d] = snapshot[d] /\ d \in restored \ reading
        BY <2>1, <3>1, <3>3 DEF TypeInv, Chats
      <4>2. QED
        BY <1>n, <2>1, <2>2, <2>4, <3>1, <4>1
    <3>4. QED
      BY <3>2, <3>3
  <2>5. JobHeard'
    BY <1>a, <2>1, <2>2, <2>3 DEF server
  <2>6. QED
    BY <2>1, <2>4, <2>5 DEF Recent
<1>12. ASSUME EmitReconnectState PROVE JobHeard' /\ ChannelsHeard'
  <2>1. /\ UNCHANGED <<game, server, view, reading, restored, underway>>
        /\ pc = "reading" /\ pc' = "up" /\ reading = {}
        /\ inbox' = Append(inbox, <<"state", snapshot>>)
    BY <1>12 DEF EmitReconnectState, Step
  <2>2. inbox \in Seq(Mail) /\ <<"state", snapshot>> \in Mail
    BY DEF TypeInv, Mail
  <2>3. ASSUME NEW m PROVE /\ InMail(inbox, m) => InMail(inbox', m)
                           /\ \A c \in Channels : m \in ToSet(snapshot[c]) => InMail(inbox', m)
    <3> DEFINE e == <<"state", snapshot>>
    <3>1. e \in Mail /\ e[1] = "state" /\ e[2] = snapshot /\ inbox' = Append(inbox, e)
      BY <2>1, <2>2
    <3> HIDE DEF e
    <3>2. QED
      BY <2>2, <3>1, MailOfAppend
  <2>4. \A m : (InMail(inbox, m))' <=> InMail(inbox', m)
    BY DEF InMail
  <2>5. Heard \subseteq Heard'
    BY <2>1, <2>3, <2>4 DEF Heard, IHear, game, server
  <2>6. Hearable' = Hearable
    BY <2>1 DEF Hearable, Concerns, game
  <2>7. ASSUME NEW c \in restored' \ reading', NEW m \in ToSet(Recent(cache'[c]))
        PROVE  m \in Heard'
    <3>1. cache' = cache /\ c \in Channels /\ c \in restored \ reading
      BY <2>1 DEF server, TypeInv
    <3>2. CASE m \in Heard
      BY <2>5, <3>2
    <3>3. CASE m \in ToSet(snapshot[c])
      <4>1. InMail(inbox', m)
        BY <2>3, <3>1, <3>3
      <4>2. ToSet(snapshot[c]) \subseteq Readable
        BY <3>1, Members DEF TypeInv, Chats
      <4>3. m \in 1..Len(sent')
        BY <1>s, <3>3, <4>2 DEF Readable
      <4>4. QED
        BY <2>4, <4>1, <4>3 DEF Heard
    <3>4. QED
      BY <1>n, <2>1, <2>7, <3>1, <3>2, <3>3
  <2>8. JobHeard'
    BY <1>a, <2>1, <2>5, <2>6 DEF server
  <2>9. QED
    BY <2>7, <2>8 DEF Recent
<1>r. ASSUME RestoreFails PROVE JobHeard' /\ ChannelsHeard'
  <2>1. /\ UNCHANGED <<game, sent, lost, job, cache, view, underway>>
        /\ pc \in {"joinedRoom", "reading"} /\ pc' = "up" /\ restored' = {}
        /\ inbox' = Append(inbox, <<"state", NoChats>>)
    BY <1>r DEF RestoreFails
  <2>a. NoChats \in Chats
    BY DEF NoChats, Chats
  <2>2. inbox \in Seq(Mail) /\ <<"state", NoChats>> \in Mail
    BY <2>a DEF TypeInv, Mail
  <2>3. \A m : InMail(inbox, m) => InMail(inbox', m)
    BY <2>1, <2>2, MailOfAppend
  <2>4. \A m : (InMail(inbox, m))' <=> InMail(inbox', m)
    BY DEF InMail
  <2>5. Heard \subseteq Heard'
    BY <2>1, <2>3, <2>4 DEF Heard, IHear, game
  <2>6. Hearable' = Hearable
    BY <2>1 DEF Hearable, Concerns, game
  <2>7. JobHeard'
    BY <1>a, <2>1, <2>5, <2>6
  <2>8. QED
    BY <2>1, <2>7
<1>13. ASSUME Handle PROVE JobHeard' /\ ChannelsHeard'
  <2>1. UNCHANGED <<game, server, connecting>> /\ inbox # <<>> /\ inbox' = Tail(inbox)
    BY <1>13 DEF Handle
  <2>2. inbox \in Seq(Mail) /\ Head(inbox) \in Mail /\ Good(view, Readable)
    BY <2>1 DEF TypeInv
  <2>3. view' = IF Head(inbox)[1] = "chat" THEN AddChatMessage(view, Head(inbox)[2])
                ELSE AddRecentChats(view, Head(inbox)[2])
    BY <1>13 DEF Handle
  <2>4. view.known \subseteq view'.known
    <3>1. CASE Head(inbox)[1] = "chat"
      BY <2>2, <2>3, <3>1, AddChatMessageKeeps DEF Mail
    <3>2. CASE Head(inbox)[1] # "chat"
      <4>1. Head(inbox)[2] \in [Channels -> Seq(Readable)]
        BY <2>2, <3>2 DEF Mail, Chats
      <4>2. QED
        BY <2>2, <2>3, <3>2, <4>1, AddRecentChatsKeeps
    <3>3. QED
      BY <3>1, <3>2
  <2>6. ASSUME NEW m, InMail(inbox, m) PROVE m \in view'.known \/ InMail(inbox', m)
    <3>1. CASE Head(inbox) = <<"chat", m>>
      <4>1. m \in Readable /\ view' = AddChatMessage(view, m)
        BY <2>2, <2>3, <3>1 DEF Mail
      <4>2. QED
        BY <2>2, <4>1, AddChatMessageKeeps
    <3>2. ASSUME Head(inbox)[1] = "state", NEW c \in Channels, m \in ToSet(Head(inbox)[2][c])
          PROVE  m \in view'.known
      <4> DEFINE chats == Head(inbox)[2]
      <4>1. chats \in [Channels -> Seq(Readable)] /\ view' = AddRecentChats(view, chats)
        BY <2>2, <2>3, <3>2 DEF Mail, Chats
      <4>2. m \in ToSet(chats[c])
        BY <3>2
      <4> HIDE DEF chats
      <4>3. QED
        BY <2>2, <4>1, <4>2, AddRecentChatsKeeps
    <3>3. QED
      BY <2>1, <2>2, <2>6, <3>1, <3>2, MailOfTail
  <2>7. \A m : InMail(inbox, m)' <=> InMail(inbox', m)
    BY DEF InMail
  <2>8. Heard \subseteq Heard'
    BY <2>1, <2>4, <2>6, <2>7 DEF Heard, IHear, game, server, connecting
  <2>9. Hearable' = Hearable
    BY <2>1 DEF Hearable, Concerns, game, connecting
  <2>10. JobHeard'
    BY <1>a, <2>1, <2>8, <2>9 DEF server
  <2>11. QED
    BY <1>b, <2>1, <2>8, <2>10 DEF connecting, server
<1>14. ASSUME UNCHANGED vars PROVE JobHeard' /\ ChannelsHeard'
  <2>1. UNCHANGED <<game, server, connecting, inbox, view>>
    BY <1>14 DEF vars
  <2>2. Heard \subseteq Heard' /\ JobHeard'
    <3>1. Heard \subseteq Heard'
      BY <1>c, <2>1 DEF IHear, game, server, connecting
    <3>2. Hearable' = Hearable
      BY <2>1 DEF Hearable, Concerns, game, connecting
    <3>3. QED
      BY <1>a, <2>1, <3>1, <3>2 DEF server
  <2>3. QED
    BY <1>b, <2>1, <2>2 DEF server, connecting
<1>15. QED
  BY <1>1, <1>2, <1>3, <1>4, <1>5, <1>6, <1>7, <1>8, <1>9, <1>10, <1>11, <1>12, <1>r, <1>13,
    <1>14 DEF Next

-----------------------------------------------------------------------------
(* The theorems.                                                           *)

LEMMA InvIsInductive == Spec => []Inv
<1>1. Init => Inv
  <2> SUFFICES ASSUME Init PROVE Inv
    OBVIOUS
  <2>1. TypeInv
    BY TypeInit
  <2>2. JobInv
    BY DEF Init, JobInv
  <2>3. CacheInv
    <3>1. Unpushed = {}
      BY DEF Init, NoJob, Unpushed
    <3>2. \A c \in Channels : Of(c) = {} /\ cache[c] = <<>>
      BY DEF Init, Of, NoChats
    <3>3. Holds(<<>>, {})
      BY DEF Holds, ToSet
    <3>4. \A c \in Channels : (Of(c) \ lost) \ Unpushed = {}
      BY <3>2
    <3>5. Len(<<>>) = 0 /\ failures = 0 /\ Limit \in Nat
      BY BoundsAssumption DEF Init
    <3>7. ASSUME NEW c \in Channels
          PROVE  Holds(cache[c], (Of(c) \ lost) \ Unpushed)
      BY <3>2, <3>3, <3>4
    <3>8. \A c \in Channels : Len(cache[c]) = 0
      BY <3>2
    <3>9. \A c \in Channels :
            Len(cache[c]) <= Limit + failures + 1 /\ ~ (Len(cache[c]) > Limit + failures)
      BY <3>5, <3>8
    <3>10. Unpushed \cap lost = {}
      BY <3>1
    <3>11. QED
      BY <3>7, <3>9, <3>10 DEF CacheInv
  <2>4. MissInv
    BY DEF Init, MissInv
  <2>5. QED
    BY <2>1, <2>2, <2>3, <2>4 DEF Inv
<1>2. Inv /\ [Next]_vars => Inv'
  BY TypeStep, JobStep, CacheStep, MissStep DEF Inv
<1>3. QED
  BY <1>1, <1>2, PTL DEF Spec

\* Every handler, list and view keeps its type, whatever the limits: a list never
\* outgrows its limit by more than the failed calls and one push, and the client's
\* screen never outgrows its own.
THEOREM TypesAreKept == Spec => []TypeOK
<1>1. Inv => TypeOK
  <2> SUFFICES ASSUME Inv PROVE TypeOK
    OBVIOUS
  <2>1. TypeInv /\ JobInv /\ CacheInv
    BY DEF Inv
  <2>2. /\ 1..Len(sent) \subseteq Messages /\ Readable \subseteq Messages
        /\ Len(sent) \in 0..MaxMessages
    BY <2>1, BoundsAssumption DEF TypeInv, Messages, Readable
  <2>3. job \in [msg : 0..MaxMessages, to : SUBSET (Users \cup {"room"}),
                 step : {"idle", "emit", "push", "trim"}, cached : BOOLEAN]
    <3>1. job.msg \in 0..MaxMessages
      <4>1. job = NoJob => job.msg = 0
        BY <2>1, JobTyped
      <4>2. job # NoJob => job.msg = Len(sent)
        BY <2>1, JobTyped
      <4>3. QED
        BY <4>1, <4>2, <2>2, BoundsAssumption
    <3>2. QED
      BY <2>1, <3>1, JobTyped
  <2>4. ASSUME NEW c \in Channels
        PROVE  /\ cache[c] \in Seq(Messages)
               /\ Len(cache[c]) <= Limit + failures + (IF job.step = "trim" THEN 1 ELSE 0)
    <3>1. cache[c] \in Seq(Messages)
      <4>1. cache[c] \in Seq(1..Len(sent))
        BY <2>1 DEF TypeInv
      <4>2. QED
        BY <4>1, <2>2, SeqWider
    <3>2. /\ Len(cache[c]) <= Limit + failures + 1
          /\ Len(cache[c]) > Limit + failures => job.step = "trim"
      BY <2>1 DEF CacheInv
    <3>3. Len(cache[c]) \in Nat /\ Limit \in Nat /\ failures \in Nat
      BY <2>1, <3>1, BoundsAssumption DEF TypeInv
    <3>4. QED
      BY <3>1, <3>2, <3>3
  <2>5. snapshot \in [Channels -> Seq(Messages)]
    <3>1. Seq(Readable) \subseteq Seq(Messages)
      BY <2>2, SeqWider
    <3>2. QED
      BY <2>1, <3>1 DEF TypeInv, Chats
  <2>6. view.known \subseteq Messages /\ Len(view.shown) <= ScreenLimit
    BY <2>1, <2>2 DEF TypeInv, Good
  <2>7. QED
    BY <2>1, <2>2, <2>3, <2>4, <2>5, <2>6 DEF TypeOK, TypeInv
<1>2. QED
  BY <1>1, InvIsInductive, PTL

\* No message of the mafia ever reaches a citizen, nor one of the dead the living:
\* neither live, where the recipients are those of the state the command was
\* accepted in, nor in the recentChats of a reconnect, whose channels were chosen
\* some calls before they are read.
THEOREM OnlyReadersAreReached == Spec => []ReadersOnly
<1>1. Inv => ReadersOnly
  BY DEF Inv, TypeInv, Good, Readable, Concerns, ReadersOnly
<1>2. QED
  BY <1>1, InvIsInductive, PTL

\* Between commands the cache of a channel holds its last messages in order,
\* whatever pushes and trims have failed.
THEOREM TheCacheIsRecent == Spec => []CacheIsRecent
<1>1. Inv => CacheIsRecent
  <2> SUFFICES ASSUME Inv, job = NoJob, NEW c \in Channels
               PROVE  LET list == Recent(cache[c])
                          kept == {m \in 1..Len(sent) : sent[m] = c /\ m \notin lost}
                      IN  /\ \A i, j \in 1..Len(list) : i < j => list[i] < list[j]
                          /\ ToSet(list) \subseteq kept
                          /\ \A m \in kept \ ToSet(list) :
                               Len(list) = Limit /\ \A i \in 1..Len(list) : m < list[i]
    BY DEF CacheIsRecent
  <2> DEFINE list == Recent(cache[c])
             kept == {m \in 1..Len(sent) : sent[m] = c /\ m \notin lost}
  <2>1. kept = (Of(c) \ lost) \ Unpushed /\ kept \in SUBSET Nat
    BY DEF Of, Unpushed, NoJob
  <2>2. cache[c] \in Seq(Nat)
    <3>1. cache[c] \in Seq(1..Len(sent))
      BY DEF Inv, TypeInv
    <3>2. QED
      BY <3>1, SeqWider
  <2>3. Holds(cache[c], kept)
    BY <2>1 DEF Inv, CacheInv
  <2> HIDE DEF kept
  <2>4. Holds(list, kept)
    BY <2>1, <2>2, <2>3, RecentHolds
  <2>5. Len(list) \in Nat /\ Len(list) <= Limit /\ Limit \in Nat
    <3>1. Len(cache[c]) \in Nat
      BY <2>2
    <3>2. QED
      BY <2>2, <3>1, RecentIsSuffix, BoundsAssumption
  <2> HIDE DEF list
  <2>6. /\ \A i, j \in 1..Len(list) : i < j => list[i] < list[j]
        /\ ToSet(list) \subseteq kept
        /\ \A m \in kept \ ToSet(list) :
             Len(list) = Limit /\ \A i \in 1..Len(list) : m < list[i]
    BY <2>4, <2>5 DEF Holds
  <2>7. QED
    BY <2>6 DEF list, kept
<1>2. QED
  BY <1>1, InvIsInductive, PTL

\* A client that has reconnected lacks none of the recent messages of its channels,
\* save one that was under way when it joined, and shows none twice.
THEOREM NoChatIsMissed == Spec => []NothingIsMissed
<1>1. Inv => NothingIsMissed
  <2> SUFFICES ASSUME Inv PROVE NothingIsMissed
    OBVIOUS
  <2>1. ASSUME pc = "up", inbox = <<>>, job = NoJob, NEW c \in restored,
               NEW m \in ToSet(Recent(cache[c]))
        PROVE  m \in view.known \cup underway
    <3>1. c \in restored \ reading
      BY <2>1 DEF Inv, TypeInv
    <3>2. m \in Heard
      BY <2>1, <3>1 DEF Inv, MissInv
    <3>3. ~ InMail(inbox, m) /\ job.to = {}
      BY <2>1 DEF InMail, NoJob
    <3>4. QED
      BY <3>2, <3>3 DEF Heard
  <2>2. IsInjective(view.shown)
    BY DEF Inv, TypeInv, Good
  <2>3. QED
    BY <2>1, <2>2 DEF NothingIsMissed
<1>2. QED
  BY <1>1, InvIsInductive, PTL
=============================================================================
