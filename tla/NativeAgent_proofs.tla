--------------------------- MODULE NativeAgent_proofs ---------------------------
(***************************************************************************)
(* The array of messages the native agent sends is sound, and its prompts  *)
(* are kept apart, for every setting, any number of prompts and any        *)
(* capacity of the event channel.                                          *)
(*                                                                         *)
(* The first part is about arrays alone: what appending a message and what *)
(* cutting off the head of an array preserve.  The second is about the     *)
(* control of the goroutines, the third joins them.                        *)
(***************************************************************************)
EXTENDS NativeAgent, FiniteSetTheorems, WellFoundedInduction, TLAPS

-----------------------------------------------------------------------------
(* Arrays.                                                                  *)

\* What a sound array is, but for the calls that are still running.
Good(c) == PairedArray(c) /\ NoUserAfterTool(c) /\ (c # <<>> => c[1].role = "user")

\* The calls of message j are being answered; those of the messages before it are.
OpenAt(c, j) ==
    /\ j \in DOMAIN c /\ c[j].role = "assistant"
    /\ \A i \in 1..j - 1 : c[i].role = "assistant" => i + c[i].call < j

\* The newest user message of the array is prompt p's, and every turn before n has
\* its answer behind it.
Asked(p, c, n) ==
    \E u \in UserStarts(c) :
       /\ c[u].by = p /\ \A i \in UserStarts(c) : i <= u
       /\ \A t \in 0..n - 1 : \E i \in u..Len(c) :
             c[i].by = p /\ c[i].role = "assistant" /\ c[i].turn = t

LEMMA Typed ==
  ASSUME NEW c \in Seq(Message), NEW i \in DOMAIN c
  PROVE  /\ c[i] \in Message /\ c[i].call \in Nat /\ c[i].turn \in Nat
         /\ c[i].role \in {"user", "assistant", "tool"}
         /\ i \in 1..Len(c) /\ i \in Nat /\ Len(c) \in Nat
         /\ DOMAIN c = 1..Len(c)
<1>1. c[i] \in Message /\ i \in 1..Len(c) /\ Len(c) \in Nat /\ DOMAIN c = 1..Len(c)
  OBVIOUS
<1> QED BY <1>1 DEF Message

LEMMA Appended ==
  ASSUME NEW c \in Seq(Message), NEW x \in Message
  PROVE  /\ Append(c, x) \in Seq(Message)
         /\ Len(Append(c, x)) = Len(c) + 1
         /\ Len(c) \in Nat
         /\ DOMAIN c = 1..Len(c)
         /\ DOMAIN Append(c, x) = 1..Len(c) + 1
         /\ \A i \in 1..Len(c) : Append(c, x)[i] = c[i]
         /\ Append(c, x)[Len(c) + 1] = x
         /\ (c = <<>> <=> Len(c) = 0)
OBVIOUS

LEMMA GoodAppend ==
  ASSUME NEW c \in Seq(Message), NEW x \in Message, Good(c), AllAnswered(c),
         x.role \in {"user", "assistant"},
         x.role = "assistant" => c # <<>>,
         x.role = "user" => c = <<>> \/ c[Len(c)].role # "tool"
  PROVE  /\ Good(Append(c, x))
         /\ x.role = "user" \/ x.call = 0 => AllAnswered(Append(c, x))
<1> DEFINE d == Append(c, x)  n == Len(c)
<1>1. /\ d \in Seq(Message) /\ n \in Nat /\ Len(d) = n + 1 /\ DOMAIN c = 1..n /\ DOMAIN d = 1..n + 1
      /\ \A i \in 1..n : d[i] = c[i]
      /\ d[n + 1] = x
      /\ (c = <<>> <=> n = 0)
  BY Appended
<1>2. \A i \in 1..n : c[i].call \in Nat
  BY <1>1, Typed
<1>3. x.call \in Nat
  BY DEF Message
<1> HIDE DEF d, n
<1>4. \A i \in DOMAIN d : d[i].role = "tool" => i \in 1..n
  BY <1>1
<1>5. \A i \in DOMAIN d : d[i].role = "tool" =>
          \E j \in 1..i - 1 : /\ d[j].role = "assistant" /\ d[j].call >= d[i].call
                              /\ d[j].by = d[i].by /\ d[j].turn = d[i].turn
                              /\ d[i].call = i - j
  <2> SUFFICES ASSUME NEW i \in DOMAIN d, d[i].role = "tool"
               PROVE  \E j \in 1..i - 1 : /\ d[j].role = "assistant" /\ d[j].call >= d[i].call
                              /\ d[j].by = d[i].by /\ d[j].turn = d[i].turn
                              /\ d[i].call = i - j
    OBVIOUS
  <2>1. i \in 1..n /\ d[i] = c[i]
    BY <1>1, <1>4
  <2>2. PICK j \in 1..i - 1 : /\ c[j].role = "assistant" /\ c[j].call >= c[i].call
                              /\ c[j].by = c[i].by /\ c[j].turn = c[i].turn
                              /\ c[i].call = i - j
    BY <2>1, <1>1 DEF Good, PairedArray
  <2>3. j \in 1..n /\ d[j] = c[j]
    BY <1>1, <2>1
  <2> QED BY <2>1, <2>2, <2>3
<1>6. \A j \in DOMAIN d : d[j].role = "assistant" =>
          \A k \in 1..d[j].call : j + k \in DOMAIN d => d[j + k].role = "tool"
  <2> SUFFICES ASSUME NEW j \in DOMAIN d, d[j].role = "assistant",
                      NEW k \in 1..d[j].call, j + k \in DOMAIN d
               PROVE  d[j + k].role = "tool"
    OBVIOUS
  <2>1. k \in Nat \ {0} /\ j \in 1..n + 1
    BY <1>1, <1>2, <1>3
  <2>2. j \in 1..n /\ j + k \in 1..n + 1
    BY <1>1, <2>1
  <2>3. d[j] = c[j] /\ j \in DOMAIN c
    BY <2>2, <1>1
  <2>4. j + c[j].call <= n
    BY <2>3 DEF AllAnswered, n
  <2>5. j + k \in 1..n
    <3>1. d[j].call \in Nat
      BY <2>2, <2>3, <1>2
    <3>2. k <= d[j].call /\ j + d[j].call <= n
      BY <2>3, <2>4, <3>1
    <3> QED BY <3>1, <3>2, <2>1, <2>2, <1>1
  <2>6. c[j + k].role = "tool"
    BY <2>3, <2>5, <1>1 DEF Good, PairedArray
  <2> QED BY <2>5, <2>6, <1>1
<1>7. NoUserAfterTool(d)
  <2> SUFFICES ASSUME NEW i \in 2..Len(d), d[i - 1].role = "tool", d[i].role = "user"
               PROVE  FALSE
    BY DEF NoUserAfterTool
  <2>1. i \in 2..n + 1 /\ i - 1 \in 1..n /\ d[i - 1] = c[i - 1]
    BY <1>1
  <2>2. CASE i = n + 1
    BY <2>1, <2>2, <1>1 DEF n
  <2>3. CASE i \in 2..n
    BY <2>1, <2>3, <1>1 DEF n, Good, NoUserAfterTool
  <2> QED BY <2>1, <2>2, <2>3, <1>1
<1>8. d # <<>> => d[1].role = "user"
  BY <1>1 DEF Good
<1>9. ASSUME x.role = "user" \/ x.call = 0
      PROVE  AllAnswered(d)
  <2> SUFFICES ASSUME NEW j \in DOMAIN d, d[j].role = "assistant"
               PROVE  j + d[j].call <= Len(d)
    BY DEF AllAnswered
  <2>1. CASE j = n + 1
    BY <2>1, <1>1, <1>9
  <2>2. CASE j \in 1..n
    <3>1. j + c[j].call <= n
      BY <2>2, <1>1 DEF AllAnswered, n
    <3> QED BY <3>1, <2>2, <1>1, <1>2
  <2> QED BY <2>1, <2>2, <1>1
<1>10. Good(d)
  BY <1>5, <1>6, <1>7, <1>8 DEF Good, PairedArray
<1> QED BY <1>9, <1>10 DEF d

LEMMA GoodResult ==
  ASSUME NEW c \in Seq(Message), NEW x \in Message, NEW j \in 1..Len(c),
         Good(c), OpenAt(c, j),
         x.role = "tool", x.call = Len(c) + 1 - j, x.call <= c[j].call,
         x.by = c[j].by, x.turn = c[j].turn
  PROVE  Good(Append(c, x)) /\ OpenAt(Append(c, x), j)
<1> DEFINE d == Append(c, x)  n == Len(c)
<1>1. /\ d \in Seq(Message) /\ n \in Nat /\ Len(d) = n + 1 /\ DOMAIN c = 1..n /\ DOMAIN d = 1..n + 1
      /\ \A i \in 1..n : d[i] = c[i]
      /\ d[n + 1] = x
      /\ (c = <<>> <=> n = 0)
  BY Appended
<1>2. \A i \in 1..n : c[i].call \in Nat
  BY <1>1, Typed
<1>3. x.call \in Nat /\ x.call = n + 1 - j /\ j \in 1..n
  BY DEF Message
<1> HIDE DEF d, n
<1>4. OpenAt(d, j)
  BY <1>1, <1>3 DEF OpenAt
<1>5. ASSUME NEW i \in DOMAIN d, d[i].role = "tool"
      PROVE  \E l \in 1..i - 1 : /\ d[l].role = "assistant" /\ d[l].call >= d[i].call
                                 /\ d[l].by = d[i].by /\ d[l].turn = d[i].turn
                                 /\ d[i].call = i - l
  <2>1. CASE i = n + 1
    <3>1. j \in 1..i - 1 /\ d[j] = c[j] /\ d[i] = x
      BY <2>1, <1>1, <1>3
    <3>2. d[j].role = "assistant" /\ d[j].call >= d[i].call
      BY <3>1, <1>2, <1>3 DEF OpenAt
    <3>3. d[j].by = d[i].by /\ d[j].turn = d[i].turn
      BY <3>1
    <3>4. d[i].call = i - j
      <4>1. n \in Int /\ j \in Int /\ n + 1 - j = i - j
        BY <2>1, <1>1, <1>3
      <4> QED BY <4>1, <3>1, <1>3
    <3> QED BY <3>1, <3>2, <3>3, <3>4
  <2>2. CASE i \in 1..n
    <3>1. d[i] = c[i]
      BY <2>2, <1>1
    <3>2. PICK l \in 1..i - 1 : /\ c[l].role = "assistant" /\ c[l].call >= c[i].call
                               /\ c[l].by = c[i].by /\ c[l].turn = c[i].turn
                               /\ c[i].call = i - l
      BY <2>2, <3>1, <1>1, <1>5 DEF Good, PairedArray
    <3>3. l \in 1..n /\ d[l] = c[l]
      BY <1>1, <2>2
    <3> QED BY <3>1, <3>2, <3>3
  <2> QED BY <2>1, <2>2, <1>1
<1>6. ASSUME NEW i \in DOMAIN d, d[i].role = "assistant",
             NEW k \in 1..d[i].call, i + k \in DOMAIN d
      PROVE  d[i + k].role = "tool"
  <2>1. i \in 1..n
    BY <1>1, <1>6
  <2>2. d[i] = c[i] /\ i \in DOMAIN c /\ k \in Nat \ {0} /\ k \in 1..c[i].call
    BY <2>1, <1>1, <1>2, <1>6
  <2>3. CASE i + k = n + 1
    BY <2>3, <1>1
  <2>4. CASE i + k \in 1..n
    <3>1. c[i + k].role = "tool"
      BY <2>2, <2>4, <1>1, <1>6 DEF Good, PairedArray
    <3> QED BY <3>1, <2>4, <1>1
  <2> QED BY <2>1, <2>2, <2>3, <2>4, <1>1, <1>6
<1>7. NoUserAfterTool(d)
  <2> SUFFICES ASSUME NEW i \in 2..Len(d), d[i - 1].role = "tool", d[i].role = "user"
               PROVE  FALSE
    BY DEF NoUserAfterTool
  <2>1. i \in 2..n
    BY <1>1
  <2>2. d[i - 1] = c[i - 1] /\ d[i] = c[i]
    BY <2>1, <1>1
  <2> QED BY <2>1, <2>2 DEF Good, NoUserAfterTool, n
<1>8. d # <<>> => d[1].role = "user"
  BY <1>1, <1>3 DEF Good
<1>9. Good(d)
  BY <1>5, <1>6, <1>7, <1>8 DEF Good, PairedArray
<1> QED BY <1>4, <1>9 DEF d

LEMMA CallsBegin ==
  ASSUME NEW c \in Seq(Message), NEW x \in Message, AllAnswered(c), x.role = "assistant"
  PROVE  OpenAt(Append(c, x), Len(c) + 1)
<1> DEFINE d == Append(c, x)  n == Len(c)
<1>1. /\ n \in Nat /\ DOMAIN c = 1..n /\ DOMAIN d = 1..n + 1
      /\ \A i \in 1..n : d[i] = c[i]
      /\ d[n + 1] = x
  BY Appended
<1>2. \A i \in 1..n : c[i].call \in Nat
  BY <1>1, Typed
<1>3. \A i \in 1..n : c[i].role = "assistant" => i + c[i].call <= n
  BY <1>1 DEF AllAnswered
<1> HIDE DEF d, n
<1>4. \A i \in 1..n : d[i].role = "assistant" => i + d[i].call < n + 1
  BY <1>1, <1>2, <1>3
<1> SUFFICES OpenAt(d, n + 1)
  BY DEF d, n
<1> QED BY <1>1, <1>4 DEF OpenAt

\* Behind the message whose calls are being answered there are only results.
LEMMA OnlyResults ==
  ASSUME NEW c \in Seq(Message), NEW j \in 1..Len(c), Good(c), OpenAt(c, j),
         Len(c) <= j + c[j].call, NEW i \in j + 1..Len(c)
  PROVE  c[i].role = "tool"
<1>1. /\ Len(c) \in Nat /\ DOMAIN c = 1..Len(c) /\ c[j].call \in Nat
  BY Typed
<1>2. i - j \in 1..c[j].call /\ j + (i - j) = i /\ i \in DOMAIN c /\ j \in DOMAIN c
  BY <1>1
<1>3. c[j].role = "assistant"
  BY DEF OpenAt
<1>4. \A k \in 1..c[j].call : j + k \in DOMAIN c => c[j + k].role = "tool"
  BY <1>2, <1>3 DEF Good, PairedArray
<1> QED BY <1>2, <1>4

LEMMA CallsEnd ==
  ASSUME NEW c \in Seq(Message), NEW j \in 1..Len(c), Good(c), OpenAt(c, j),
         Len(c) = j + c[j].call
  PROVE  AllAnswered(c)
<1>1. Len(c) \in Nat /\ DOMAIN c = 1..Len(c) /\ \A i \in DOMAIN c : c[i].call \in Nat
  BY Typed
<1>2. \A i \in j + 1..Len(c) : c[i].role = "tool"
  BY OnlyResults, <1>1
<1> SUFFICES ASSUME NEW i \in DOMAIN c, c[i].role = "assistant"
             PROVE  i + c[i].call <= Len(c)
  BY DEF AllAnswered
<1>3. CASE i \in j + 1..Len(c)
  BY <1>2, <1>3
<1>4. CASE i = j
  BY <1>4, <1>1
<1>5. CASE i \in 1..j - 1
  <2>1. i + c[i].call < j
    BY <1>5 DEF OpenAt
  <2> QED BY <2>1, <1>1
<1> QED BY <1>1, <1>3, <1>4, <1>5

LEMMA AskedAppend ==
  ASSUME NEW c \in Seq(Message), NEW x \in Message, x.role # "user",
         NEW p, NEW n \in Nat, Asked(p, c, n)
  PROVE  Asked(p, Append(c, x), n)
<1> DEFINE d == Append(c, x)
<1>1. /\ Len(c) \in Nat /\ DOMAIN c = 1..Len(c) /\ DOMAIN d = 1..Len(c) + 1 /\ Len(d) = Len(c) + 1
      /\ \A i \in 1..Len(c) : d[i] = c[i]
      /\ d[Len(c) + 1] = x
  BY Appended
<1> HIDE DEF d
<1>2. UserStarts(d) = UserStarts(c)
  BY <1>1 DEF UserStarts
<1>3. PICK u \in UserStarts(c) :
         /\ c[u].by = p /\ \A i \in UserStarts(c) : i <= u
         /\ \A t \in 0..n - 1 : \E i \in u..Len(c) :
               c[i].by = p /\ c[i].role = "assistant" /\ c[i].turn = t
  BY DEF Asked
<1>4. u \in 1..Len(c) /\ d[u] = c[u]
  BY <1>1, <1>3 DEF UserStarts
<1>5. ASSUME NEW t \in 0..n - 1
      PROVE  \E i \in u..Len(d) : d[i].by = p /\ d[i].role = "assistant" /\ d[i].turn = t
  <2>1. PICK i \in u..Len(c) : c[i].by = p /\ c[i].role = "assistant" /\ c[i].turn = t
    BY <1>3
  <2>2. i \in 1..Len(c) /\ i \in u..Len(d) /\ d[i] = c[i]
    BY <1>1, <1>4
  <2> QED BY <2>1, <2>2
<1>6. Asked(p, d, n)
  BY <1>2, <1>3, <1>4, <1>5 DEF Asked
<1> QED BY <1>6 DEF d

LEMMA AskedNow ==
  ASSUME NEW c \in Seq(Message), NEW x \in Message, x.role = "user"
  PROVE  Asked(x.by, Append(c, x), 0)
<1>1. /\ Len(c) \in Nat /\ DOMAIN Append(c, x) = 1..Len(c) + 1
      /\ Append(c, x)[Len(c) + 1] = x
  BY Appended
<1>2. Len(c) + 1 \in UserStarts(Append(c, x)) /\ \A i \in UserStarts(Append(c, x)) : i <= Len(c) + 1
  BY <1>1 DEF UserStarts
<1> QED BY <1>1, <1>2 DEF Asked

LEMMA AskedTurn ==
  ASSUME NEW c \in Seq(Message), NEW j \in 1..Len(c), Good(c), OpenAt(c, j),
         Len(c) = j + c[j].call,
         NEW p, NEW n \in Nat, Asked(p, c, n), c[j].by = p, c[j].turn = n
  PROVE  Asked(p, c, n + 1)
<1>1. Len(c) \in Nat /\ DOMAIN c = 1..Len(c) /\ c[j].call \in Nat
  BY Typed
<1>2. PICK u \in UserStarts(c) :
         /\ c[u].by = p /\ \A i \in UserStarts(c) : i <= u
         /\ \A t \in 0..n - 1 : \E i \in u..Len(c) :
               c[i].by = p /\ c[i].role = "assistant" /\ c[i].turn = t
  BY DEF Asked
<1>3. u \in 1..Len(c) /\ c[u].role = "user"
  BY <1>1 DEF UserStarts
<1>4. \A i \in j + 1..Len(c) : c[i].role = "tool"
  BY OnlyResults, <1>1
<1>5. c[j].role = "assistant"
  BY DEF OpenAt
<1>6. j \in u..Len(c)
  <2>1. ~(u \in j + 1..Len(c))
    BY <1>3, <1>4
  <2> QED BY <2>1, <1>1, <1>3
<1>7. \A t \in 0..(n + 1) - 1 : t \in 0..n - 1 \/ t = n
  OBVIOUS
<1>8. \A t \in 0..(n + 1) - 1 : \E i \in u..Len(c) :
               c[i].by = p /\ c[i].role = "assistant" /\ c[i].turn = t
  BY <1>2, <1>5, <1>6, <1>7
<1> QED BY <1>2, <1>8 DEF Asked

\* What is left of an array when its head is cut off at a user message, and when a
\* summary is put in the head's place.
LEMMA CutOff ==
  ASSUME NEW c \in Seq(Message), NEW r \in Seq(Message), NEW cut \in UserStarts(c),
         NEW m \in {1, 2}, Len(r) = Len(c) - cut + m,
         \A i \in m..Len(r) : r[i] = c[i + cut - m],
         m = 2 => r[1].role = "user",
         Good(c), AllAnswered(c)
  PROVE  /\ Good(r) /\ AllAnswered(r)
         /\ \A p : \A n \in Nat : Asked(p, c, n) => Asked(p, r, n)
<1> DEFINE d == cut - m  l == Len(r)
<1>1. /\ Len(c) \in Nat /\ DOMAIN c = 1..Len(c) /\ \A i \in DOMAIN c : c[i].call \in Nat
      /\ l \in Nat /\ DOMAIN r = 1..l /\ \A i \in DOMAIN r : r[i].call \in Nat
  BY Typed
<1>2. cut \in 1..Len(c) /\ c[cut].role = "user"
  BY <1>1 DEF UserStarts
<1>3. d \in Int /\ cut = m + d /\ m \in 1..2 /\ Len(c) = l + d /\ m \in 1..l
  BY <1>1, <1>2
<1>4. /\ \A i \in m..l : r[i] = c[i + d]
      /\ r[m] = c[cut]
  <2>1. \A i \in m..l : i + cut - m = i + d
    BY <1>1, <1>2, <1>3
  <2>2. \A i \in m..l : r[i] = c[i + d]
    BY <2>1
  <2>3. m \in m..l /\ m + d = cut
    BY <1>1, <1>2, <1>3
  <2> QED BY <2>2, <2>3
<1>5. r[1].role = "user"
  BY <1>2, <1>4, <1>3
<1>6. \A i \in 1..l : i \in m..l \/ (i = 1 /\ i < m)
  BY <1>1, <1>3
<1>7. \A i \in m..l : i + d \in cut..Len(c) /\ i + d \in DOMAIN c
  BY <1>1, <1>2, <1>3
<1> HIDE DEF d, l
<1>8. ASSUME NEW i \in DOMAIN r, r[i].role = "tool"
      PROVE  \E j \in 1..i - 1 : /\ r[j].role = "assistant" /\ r[j].call >= r[i].call
                                 /\ r[j].by = r[i].by /\ r[j].turn = r[i].turn
                                 /\ r[i].call = i - j
  <2>1. i \in m..l /\ r[i] = c[i + d] /\ i + d \in DOMAIN c
    BY <1>1, <1>4, <1>5, <1>6, <1>7, <1>8
  <2>2. PICK j \in 1..(i + d) - 1 : /\ c[j].role = "assistant" /\ c[j].call >= c[i + d].call
                                 /\ c[j].by = c[i + d].by /\ c[j].turn = c[i + d].turn
                                 /\ c[i + d].call = (i + d) - j
    BY <2>1, <1>8 DEF Good, PairedArray
  <2>3. j \in DOMAIN c /\ j \in Int /\ i \in Int
    BY <2>1, <1>1, <1>3
  <2>4. \A k \in 1..c[j].call : j + k \in DOMAIN c => c[j + k].role = "tool"
    BY <2>2, <2>3 DEF Good, PairedArray
  <2>5. ~(j < cut)
    <3> SUFFICES ASSUME j < cut
                 PROVE  FALSE
      OBVIOUS
    <3>1. cut - j \in 1..c[j].call
      <4>1. cut <= i + d
        BY <2>1, <1>7
      <4>2. c[j].call \in Nat /\ c[j].call >= (i + d) - j
        BY <2>2, <2>3, <1>1
      <4> QED BY <4>1, <4>2, <1>2, <2>3, <1>3
    <3>2. j + (cut - j) = cut /\ cut \in DOMAIN c
      BY <1>1, <1>2, <2>3
    <3> QED BY <3>1, <3>2, <2>4, <1>2
  <2>6. j - d \in m..l /\ (j - d) + d = j /\ j - d \in 1..i - 1
    <3>1. j >= m + d /\ j <= (i + d) - 1 /\ m >= 1 /\ i <= l
      BY <2>1, <2>2, <2>3, <2>5, <1>2, <1>3
    <3> QED BY <3>1, <2>3, <1>1, <1>3
  <2>7. r[j - d] = c[j]
    BY <2>6, <1>4
  <2>8. r[i].call = i - (j - d)
    <3>1. (i + d) - j = i - (j - d)
      BY <2>3, <1>3
    <3> QED BY <3>1, <2>1, <2>2
  <2> QED BY <2>1, <2>2, <2>6, <2>7, <2>8
<1>9. ASSUME NEW j \in DOMAIN r, r[j].role = "assistant"
      PROVE  /\ \A k \in 1..r[j].call : j + k \in DOMAIN r => r[j + k].role = "tool"
             /\ j + r[j].call <= l
  <2>1. j \in m..l /\ r[j] = c[j + d] /\ j + d \in DOMAIN c
    BY <1>1, <1>4, <1>5, <1>6, <1>7, <1>9
  <2>2. (j + d) + c[j + d].call <= Len(c)
    BY <2>1, <1>9 DEF AllAnswered
  <2>3. j + r[j].call <= l
    BY <2>1, <2>2, <1>1, <1>3
  <2>4. ASSUME NEW k \in 1..r[j].call, j + k \in DOMAIN r
        PROVE  r[j + k].role = "tool"
    <3>1. k \in Nat \ {0} /\ j + k \in m..l /\ (j + k) + d = (j + d) + k /\ k \in 1..c[j + d].call
      BY <2>1, <2>4, <1>1, <1>3
    <3>2. (j + d) + k \in DOMAIN c
      BY <3>1, <1>7
    <3>3. c[(j + d) + k].role = "tool"
      BY <3>1, <3>2, <2>1, <1>9 DEF Good, PairedArray
    <3>4. r[j + k] = c[(j + k) + d]
      BY <3>1, <1>4
    <3> QED BY <3>1, <3>3, <3>4
  <2> QED BY <2>3, <2>4
<1>10. NoUserAfterTool(r)
  <2> SUFFICES ASSUME NEW i \in 2..l, r[i - 1].role = "tool", r[i].role = "user"
               PROVE  FALSE
    BY DEF NoUserAfterTool, l
  <2>1. i - 1 \in m..l /\ i \in m..l
    BY <1>1, <1>3, <1>5, <1>6
  <2>2. r[i - 1] = c[(i - 1) + d] /\ r[i] = c[i + d]
    BY <2>1, <1>4
  <2>3. i + d \in 2..Len(c) /\ (i + d) - 1 = (i - 1) + d
    BY <2>1, <1>1, <1>2, <1>3, <1>7
  <2> QED BY <2>2, <2>3 DEF Good, NoUserAfterTool
<1>11. Good(r) /\ AllAnswered(r)
  BY <1>5, <1>8, <1>9, <1>10 DEF Good, PairedArray, AllAnswered, l
<1>12. ASSUME NEW p, NEW n \in Nat, Asked(p, c, n)
       PROVE  Asked(p, r, n)
  <2>1. PICK u \in UserStarts(c) :
           /\ c[u].by = p /\ \A i \in UserStarts(c) : i <= u
           /\ \A t \in 0..n - 1 : \E i \in u..Len(c) :
                 c[i].by = p /\ c[i].role = "assistant" /\ c[i].turn = t
    BY <1>12 DEF Asked
  <2>2. cut <= u /\ u \in 1..Len(c) /\ c[u].role = "user"
    BY <2>1, <1>1 DEF UserStarts
  <2>3. u - d \in m..l /\ (u - d) + d = u
    BY <2>2, <1>1, <1>2, <1>3
  <2>4. r[u - d] = c[u] /\ u - d \in UserStarts(r)
    BY <2>2, <2>3, <1>1, <1>3, <1>4 DEF UserStarts
  <2>5. ASSUME NEW i \in UserStarts(r)
        PROVE  i <= u - d
    <3>1. i \in 1..l /\ r[i].role = "user"
      BY <1>1 DEF UserStarts
    <3>2. CASE i \in m..l
      <4>1. i + d \in UserStarts(c)
        BY <3>1, <3>2, <1>4, <1>7 DEF UserStarts
      <4>2. i + d <= u
        BY <4>1, <2>1
      <4> QED BY <4>2, <3>1, <2>2, <1>3
    <3>3. CASE i = 1 /\ i < m
      BY <3>3, <2>3, <1>3
    <3> QED BY <3>1, <3>2, <3>3, <1>6
  <2>6. ASSUME NEW t \in 0..n - 1
        PROVE  \E i \in u - d..l : r[i].by = p /\ r[i].role = "assistant" /\ r[i].turn = t
    <3>1. PICK i \in u..Len(c) : c[i].by = p /\ c[i].role = "assistant" /\ c[i].turn = t
      BY <2>1
    <3>2. i - d \in u - d..l /\ i - d \in m..l /\ (i - d) + d = i
      BY <2>2, <2>3, <1>1, <1>3
    <3>3. r[i - d] = c[i]
      BY <3>2, <1>4
    <3> QED BY <3>1, <3>2, <3>3
  <2> QED BY <2>1, <2>4, <2>5, <2>6 DEF Asked, l
<1> QED BY <1>11, <1>12

LEMMA MinExists ==
  ASSUME NEW S, S \subseteq Nat, S # {}
  PROVE  Min(S) \in S
<1>1. \E x \in S : \A y \in S : ~(<<y, x>> \in OpToRel(<, Nat))
  BY NatLessThanWellFounded, WFMin
<1>2. PICK x \in S : \A y \in S : ~(<<y, x>> \in OpToRel(<, Nat))
  BY <1>1
<1>3. \A y \in S : ~(y < x)
  BY <1>2 DEF OpToRel
<1>4. \A y \in S : x <= y
  BY <1>3
<1> QED BY <1>4 DEF Min

LEMMA MaxExists ==
  ASSUME NEW n \in Nat, NEW S, S \subseteq 1..n, S # {}
  PROVE  Max(S) \in S
<1> DEFINE T == {n - x : x \in S}
<1>1. T \subseteq Nat /\ T # {}
  <2>1. \A x \in S : n - x \in Nat
    OBVIOUS
  <2>2. PICK x \in S : TRUE
    OBVIOUS
  <2>3. n - x \in T
    OBVIOUS
  <2> QED BY <2>1, <2>3
<1>2. \E t \in T : \A y \in T : ~(<<y, t>> \in OpToRel(<, Nat))
  BY <1>1, NatLessThanWellFounded, WFMin
<1>3. PICK t \in T : \A y \in T : ~(<<y, t>> \in OpToRel(<, Nat))
  BY <1>2
<1>4. \A y \in T : ~(y < t)
  BY <1>1, <1>3 DEF OpToRel
<1>5. PICK x \in S : t = n - x
  BY <1>3
<1>6. \A y \in S : x >= y
  BY <1>4, <1>5
<1> QED BY <1>6 DEF Max

\* What compaction leaves is the array, or its tail from a user message on, behind a
\* summary or not.
TailOf(c, r, cut, m) ==
    /\ r \in Seq(Message)
    /\ Len(r) = Len(c) - cut + m
    /\ \A i \in m..Len(r) : r[i] = c[i + cut - m]
    /\ m = 2 => r[1].role = "user"

LEMMA CompactedShape ==
  ASSUME NEW c \in Seq(Message), NEW summarized \in BOOLEAN
  PROVE  \/ Compacted(c, summarized) = c
         \/ \E cut \in UserStarts(c), m \in {1, 2} : TailOf(c, Compacted(c, summarized), cut, m)
<1> DEFINE us == UserStarts(c)  cut == Min(Cuts(c))
           kept == SubSeq(c, cut, Len(c))  whole == <<Summary>> \o kept
<1>1. CASE Cardinality(us) <= 1
  BY <1>1 DEF Compacted
<1>2. CASE ~(Cardinality(us) <= 1)
  <2>1. us # {}
    <3>1. Cardinality({}) = 0
      BY FS_EmptySet
    <3>2. us = {} => Cardinality(us) = 0
      BY <3>1, Zenon
    <3> HIDE DEF us
    <3>3. us = {} => Cardinality(us) <= 1
      BY <3>2
    <3> QED BY <1>2, <3>3
  <2>2. us \subseteq 1..Len(c) /\ Len(c) \in Nat
    BY Typed DEF UserStarts
  <2>3. Max(us) \in us
    BY <2>1, <2>2, MaxExists
  <2>4. Cuts(c) \subseteq us /\ Cuts(c) # {}
    BY <2>3 DEF Cuts
  <2>5. cut \in us
    BY <2>2, <2>4, MinExists
  <2>6. cut \in 1..Len(c)
    BY <2>2, <2>5
  <2> HIDE DEF cut
  <2>7. /\ kept \in Seq(Message) /\ Len(kept) = Len(c) - cut + 1
        /\ \A i \in 1..Len(kept) : kept[i] = c[i + cut - 1]
    BY <2>2, <2>6
  <2>8. Summary \in Message /\ Summary.role = "user"
    BY DEF Summary, User, Message
  <2> HIDE DEF kept
  <2>9. /\ whole \in Seq(Message) /\ Len(whole) = Len(c) - cut + 2 /\ whole[1] = Summary
        /\ \A i \in 2..Len(whole) : whole[i] = kept[i - 1]
    <3>1. <<Summary>> \in Seq(Message) /\ Len(<<Summary>>) = 1 /\ <<Summary>>[1] = Summary
      BY <2>8
    <3>2. /\ whole \in Seq(Message) /\ Len(whole) = 1 + Len(kept) /\ whole[1] = Summary
          /\ \A i \in 2..Len(whole) : whole[i] = kept[i - 1]
      BY <3>1, <2>7
    <3> QED BY <3>2, <2>2, <2>6, <2>7
  <2>10. \A i \in 2..Len(whole) : whole[i] = c[i + cut - 2]
    <3> SUFFICES ASSUME NEW i \in 2..Len(whole)
                 PROVE  whole[i] = c[i + cut - 2]
      OBVIOUS
    <3>1. i - 1 \in 1..Len(kept) /\ (i - 1) + cut - 1 = i + cut - 2
      BY <2>2, <2>6, <2>7, <2>9
    <3> QED BY <3>1, <2>7, <2>9
  <2> HIDE DEF whole
  <2>11. TailOf(c, kept, cut, 1) /\ TailOf(c, whole, cut, 2)
    BY <2>7, <2>8, <2>9, <2>10 DEF TailOf
  <2>12. Compacted(c, summarized) \in {kept, whole}
    BY <1>2 DEF Compacted, Size, kept, whole, cut
  <2> QED BY <2>5, <2>11, <2>12
<1> QED BY <1>1, <1>2

LEMMA CompactedType ==
  ASSUME NEW c \in Seq(Message), NEW summarized \in BOOLEAN
  PROVE  Compacted(c, summarized) \in Seq(Message)
BY CompactedShape DEF TailOf

LEMMA CompactedKeeps ==
  ASSUME NEW c \in Seq(Message), Good(c), AllAnswered(c), NEW summarized \in BOOLEAN
  PROVE  /\ Good(Compacted(c, summarized)) /\ AllAnswered(Compacted(c, summarized))
         /\ \A p : \A n \in Nat : Asked(p, c, n) => Asked(p, Compacted(c, summarized), n)
<1> DEFINE r == Compacted(c, summarized)
<1>1. CASE r = c
  BY <1>1
<1>2. CASE r # c
  <2>1. PICK cut \in UserStarts(c), m \in {1, 2} : TailOf(c, r, cut, m)
    BY <1>2, CompactedShape
  <2> HIDE DEF r
  <2>2. /\ Good(r) /\ AllAnswered(r)
        /\ \A p : \A n \in Nat : Asked(p, c, n) => Asked(p, r, n)
    BY <2>1, CutOff DEF TailOf
  <2> QED BY <2>2 DEF r
<1> QED BY <1>1, <1>2

-----------------------------------------------------------------------------
(* The control of the goroutines.                                           *)

Labels == {"new", "user", "register", "top", "compact", "guard", "stream", "answered", "tools",
           "call", "tool", "stopping", "result", "finish", "done", "closing", "closed"}

\* Between the assistant message and the result of its last call.
Calling(p) == pc[p] \in {"tools", "call", "tool", "stopping", "result"}

RunType ==
    /\ setting \in Settings
    /\ pc \in [Prompts -> Labels]
    /\ turn \in [Prompts -> 0..setting.turns]
    /\ tries \in [Prompts -> 0..setting.retries]
    /\ calls \in [Prompts -> 0..setting.calls]
    /\ next \in [Prompts -> 1..setting.calls + 1]

\* A prompt begins with turn 0, a turn that has begun is within the budget, and a
\* call that runs is one of the completion's.
Counted(p) ==
    /\ pc[p] \in {"new", "user", "register"} => turn[p] = 0
    /\ pc[p] \in {"compact", "guard", "stream", "answered"} \/ Calling(p) => turn[p] < setting.turns
    /\ pc[p] = "tools" => next[p] <= calls[p] + 1
    /\ pc[p] \in {"call", "tool", "stopping", "result"} => next[p] <= calls[p]

RunInv == RunType /\ \A p \in Prompts : Counted(p)

LEMMA SettingType ==
  ASSUME setting \in Settings
  PROVE  /\ setting.turns \in Nat \ {0} /\ setting.retries \in Nat /\ setting.calls \in Nat \ {0}
         /\ setting.limit \in Nat /\ setting.beats \in Nat /\ setting.summarizes \in BOOLEAN
  BY NativeAssumption DEF NativeAssumption, Setting

LEMMA RunNext ==
  ASSUME RunInv, [Next]_vars
  PROVE  RunInv'
<1> USE SettingType DEF RunInv, RunType, Labels, Calling, Counted, Goto, At, TopUnchanged, runVars
<1>1. CASE UNCHANGED vars \/ Cancel
  BY <1>1 DEF vars, Cancel
<1>2. ASSUME NEW p \in Prompts, Beat(p) \/ CallerCancels(p) \/ Consume(p) \/ LoadConv(p)
                               \/ StoreConv(p) \/ Emit(p)
      PROVE  RunInv'
  BY <1>2 DEF Beat, BeatTicks, BeatStops, BeatEmits, BeatPanics, CallerCancels, Consume, LoadConv,
     StoreConv, Emit
<1>3. ASSUME NEW p \in Prompts, CancelPrevious(p) \/ AppendUser(p) \/ Register(p) \/ Stops(p)
      PROVE  RunInv'
  BY <1>3 DEF CancelPrevious, AppendUser, Register, Stops
<1>4. ASSUME NEW p \in Prompts, BeginsTurn(p)
      PROVE  RunInv'
  BY <1>4 DEF BeginsTurn
<1>5. ASSUME NEW p \in Prompts, Compact(p) \/ Guard(p) \/ StreamFails(p) \/ StreamText(p)
      PROVE  RunInv'
  BY <1>5 DEF Compact, Guard, StreamFails, StreamText
<1>6. ASSUME NEW p \in Prompts, StreamEmpty(p)
      PROVE  RunInv'
  <2>1. pc[p] = "stream" /\ UNCHANGED <<setting, turn, calls, next>>
    BY <1>6 DEF StreamEmpty
  <2>2. CASE Retries(p) /\ Goto(p, "guard") /\ tries' = [tries EXCEPT ![p] = @ + 1]
    BY <2>1, <2>2 DEF Retries
  <2>3. CASE (Goto(p, "done") \/ Goto(p, "answered")) /\ UNCHANGED tries
    BY <2>1, <2>3
  <2> QED BY <1>6, <2>2, <2>3 DEF StreamEmpty
<1>7. ASSUME NEW p \in Prompts, StreamTools(p)
      PROVE  RunInv'
  BY <1>7 DEF StreamTools
<1>8. ASSUME NEW p \in Prompts, Answers(p) \/ Completes(p) \/ ToolBegins(p) \/ ToolRefused(p)
      PROVE  RunInv'
  BY <1>8 DEF Answers, Completes, ToolBegins, ToolRefused
<1>9. ASSUME NEW p \in Prompts, ToolRuns(p) \/ ToolReturns(p) \/ StopHeartbeat(p)
      PROVE  RunInv'
  BY <1>9 DEF ToolRuns, ToolReturns, StopHeartbeat
<1>10. ASSUME NEW p \in Prompts, AppendToolResult(p)
      PROVE  RunInv'
  BY <1>10 DEF AppendToolResult
<1>11. ASSUME NEW p \in Prompts, TurnEnds(p)
      PROVE  RunInv'
  BY <1>11 DEF TurnEnds
<1>12. ASSUME NEW p \in Prompts, Unregister(p) \/ Close(p)
      PROVE  RunInv'
  BY <1>12 DEF Unregister, Close
<1> QED
  BY <1>1, <1>2, <1>3, <1>4, <1>5, <1>6, <1>7, <1>8, <1>9, <1>10, <1>11, <1>12 DEF Next, Step

\* What a goroutine has to append and has loaded, and where it is then.
Pending(p) ==
    /\ todo[p] # <<>> => pc[p] \in {"register", "finish", "tools"}
    /\ held[p] # None => todo[p] # <<>> \/ pc[p] = "compact"
    /\ pc[p] = "compact" => held[p] \in Seq(Message)

ArrayType ==
    /\ conv \in Seq(Message)
    /\ heavy \in BOOLEAN
    /\ held \in [Prompts -> Seq(Message) \cup {None}]
    /\ todo \in [Prompts -> Seq(Message)]

PendingInv == ArrayType /\ \A p \in Prompts : Pending(p)

LEMMA MessageType ==
  ASSUME RunType, NEW p \in Prompts, NEW n \in Nat
  PROVE  /\ {User(p), InterruptedNote, Assistant(p, n), Result(p, n)} \subseteq Message
         /\ \A c \in Seq(Message) : AppendedByUser(p, c) \in Seq(Message) /\ AppendedByUser(p, c) # <<>>
<1>1. turn[p] \in Nat
  BY SettingType DEF RunType
<1>2. {User(p), InterruptedNote, Assistant(p, n), Result(p, n)} \subseteq Message
  BY <1>1 DEF Message, User, InterruptedNote, Assistant, Result
<1>3. <<User(p)>> \in Seq(Message) /\ <<InterruptedNote, User(p)>> \in Seq(Message)
  BY <1>2
<1> QED BY <1>2, <1>3 DEF AppendedByUser

LEMMA PendingNext ==
  ASSUME RunType, PendingInv, [Next]_vars
  PROVE  PendingInv'
<1>0. pc \in [Prompts -> Labels] /\ setting.calls \in Nat /\ calls \in [Prompts -> 0..setting.calls]
      /\ next \in [Prompts -> 1..setting.calls + 1]
  BY SettingType DEF RunType
<1> USE <1>0 DEF PendingInv, ArrayType, Pending, Labels, Goto, At, TopUnchanged, convVars, runVars
<1>1. CASE UNCHANGED vars \/ Cancel
  BY <1>1 DEF vars, Cancel
<1>2. ASSUME NEW p \in Prompts, Beat(p) \/ CallerCancels(p) \/ Consume(p) \/ Emit(p)
      PROVE  PendingInv'
  BY <1>2 DEF Beat, BeatTicks, BeatStops, BeatEmits, BeatPanics, CallerCancels, Consume, Emit
<1>3. ASSUME NEW p \in Prompts, LoadConv(p)
      PROVE  PendingInv'
  BY <1>3 DEF LoadConv
<1>4. ASSUME NEW p \in Prompts, StoreConv(p)
      PROVE  PendingInv'
  BY <1>4 DEF StoreConv
<1>5. ASSUME NEW p \in Prompts, CancelPrevious(p) \/ Register(p) \/ Stops(p)
      PROVE  PendingInv'
  BY <1>5 DEF CancelPrevious, Register, Stops
<1>6. ASSUME NEW p \in Prompts, AppendUser(p)
      PROVE  PendingInv'
  <2>1. AppendedByUser(p, conv) \in Seq(Message)
    BY MessageType, <1>6
  <2> QED BY <1>6, <2>1 DEF AppendUser, Appends
<1>7. ASSUME NEW p \in Prompts, BeginsTurn(p)
      PROVE  PendingInv'
  BY <1>7 DEF BeginsTurn
<1>8. ASSUME NEW p \in Prompts, Compact(p)
      PROVE  PendingInv'
  <2>1. conv' \in Seq(Message)
    <3>1. held[p] \in Seq(Message) /\ {setting.summarizes, FALSE} \subseteq BOOLEAN
      BY <1>8, SettingType DEF Compact, RunType
    <3>2. PICK summarized \in {setting.summarizes, FALSE} : conv' = Compacted(held[p], summarized)
      BY <1>8 DEF Compact
    <3> QED BY <3>1, <3>2, CompactedType
  <2> QED BY <1>8, <2>1 DEF Compact
<1>9. ASSUME NEW p \in Prompts, Guard(p) \/ StreamFails(p) \/ StreamText(p) \/ StreamEmpty(p)
      PROVE  PendingInv'
  BY <1>9 DEF Guard, StreamFails, StreamText, StreamEmpty, Reported
<1>10. ASSUME NEW p \in Prompts, Answers(p) \/ StreamTools(p) \/ AppendToolResult(p)
       PROVE  PendingInv'
  <2>1. \A n \in Nat : <<Assistant(p, n)>> \in Seq(Message) /\ <<Result(p, n)>> \in Seq(Message)
    BY MessageType
  <2>2. CASE Answers(p)
    BY <2>1, <2>2 DEF Answers, Appends
  <2>3. CASE StreamTools(p)
    <3>1. PICK n \in 1..setting.calls : todo' = [todo EXCEPT ![p] = <<Assistant(p, n)>>]
      BY <2>3 DEF StreamTools, Appends
    <3>2. <<Assistant(p, n)>> \in Seq(Message)
      BY <2>1
    <3>3. /\ pc[p] = "stream" /\ pc' = [pc EXCEPT ![p] = "tools"]
          /\ conv' = conv /\ held' = held /\ heavy' \in BOOLEAN
      BY <2>3 DEF StreamTools, Reported
    <3> QED BY <3>1, <3>2, <3>3
  <2>4. CASE AppendToolResult(p)
    BY <2>1, <2>4 DEF AppendToolResult, Appends
  <2> QED BY <1>10, <2>2, <2>3, <2>4
<1>11. ASSUME NEW p \in Prompts, Completes(p) \/ ToolBegins(p) \/ ToolRefused(p) \/ ToolRuns(p)
       PROVE  PendingInv'
  BY <1>11 DEF Completes, ToolBegins, ToolRefused, ToolRuns
<1>12. ASSUME NEW p \in Prompts, ToolReturns(p) \/ StopHeartbeat(p) \/ TurnEnds(p)
                                \/ Unregister(p) \/ Close(p)
       PROVE  PendingInv'
  BY <1>12 DEF ToolReturns, StopHeartbeat, TurnEnds, Unregister, Close
<1> QED
  BY <1>1, <1>2, <1>3, <1>4, <1>5, <1>6, <1>7, <1>8, <1>9, <1>10, <1>11, <1>12 DEF Next, Step

ChannelType ==
    /\ out \in [Prompts -> {<<>>, <<"event">>, <<"end">>}]
    /\ chan \in [Prompts -> Seq({"event", "end"})]
    /\ \A p \in Prompts : Len(chan[p]) <= Cap
    /\ closed \subseteq Prompts
    /\ ends \in [Prompts -> Nat]
    /\ cancelled \subseteq Prompts
    /\ inflight \in Prompts \cup {None}
    /\ overlapped \in BOOLEAN /\ panicked \in BOOLEAN

\* A goroutine has one event in hand.
LEMMA InHand ==
  ASSUME ChannelType, NEW p \in Prompts, out[p] # <<>>
  PROVE  /\ Tail(out[p]) = <<>>
         /\ \/ Head(out[p]) = "event" /\ out[p] = <<"event">>
            \/ Head(out[p]) = "end" /\ out[p] = <<"end">>
<1>1. out[p] = <<"event">> \/ out[p] = <<"end">>
  BY DEF ChannelType
<1>2. \A x : Tail(<<x>>) = <<>> /\ Head(<<x>>) = x
  OBVIOUS
<1> QED BY <1>1, <1>2

LEMMA SentType ==
  ASSUME ChannelType, NEW p \in Prompts, NEW what \in {"event", "end"}, Sent(p, what) \/ Dropped(p)
  PROVE  /\ chan' \in [Prompts -> Seq({"event", "end"})]
         /\ \A q \in Prompts : Len(chan'[q]) <= Cap
         /\ ends' \in [Prompts -> Nat]
<1>1. CASE Sent(p, what)
  <2>1. /\ Append(chan[p], what) \in Seq({"event", "end"})
        /\ Len(Append(chan[p], what)) = Len(chan[p]) + 1
        /\ Len(chan[p]) \in Nat
    BY DEF ChannelType
  <2>2. Len(Append(chan[p], what)) <= Cap
    BY <2>1, <1>1, NativeAssumption DEF Sent, NativeAssumption
  <2> QED BY <1>1, <2>1, <2>2 DEF Sent, ChannelType
<1>2. CASE Dropped(p)
  BY <1>2 DEF Dropped, ChannelType
<1> QED BY <1>1, <1>2

LEMMA ChannelNext ==
  ASSUME ChannelType, [Next]_vars
  PROVE  ChannelType'
<1> USE DEF ChannelType, TopUnchanged, chanVars, Emits
<1>1. CASE UNCHANGED vars \/ Cancel
  BY <1>1 DEF vars, Cancel
<1>2. ASSUME NEW p \in Prompts, BeatTicks(p) \/ BeatStops(p) \/ BeatPanics(p)
                               \/ CallerCancels(p) \/ LoadConv(p) \/ StoreConv(p)
      PROVE  ChannelType'
  BY <1>2 DEF BeatTicks, BeatStops, BeatPanics, CallerCancels, LoadConv, StoreConv
<1>3. ASSUME NEW p \in Prompts, BeatEmits(p)
      PROVE  ChannelType'
  <2>1. Sent(p, "event") \/ Dropped(p)
    BY <1>3 DEF BeatEmits
  <2>2. UNCHANGED <<out, closed, cancelled, inflight, overlapped, panicked>>
    BY <1>3 DEF BeatEmits
  <2> QED BY <2>1, <2>2, SentType
<1>4. ASSUME NEW p \in Prompts, Emit(p)
      PROVE  ChannelType'
  <2>1. out[p] # <<>> /\ (Sent(p, Head(out[p])) \/ Dropped(p))
    BY <1>4 DEF Emit
  <2>2. out' = [out EXCEPT ![p] = <<>>]
    BY <1>4, <2>1, InHand DEF Emit
  <2>3. Head(out[p]) \in {"event", "end"}
    BY <2>1, InHand
  <2>4. /\ chan' \in [Prompts -> Seq({"event", "end"})]
        /\ \A q \in Prompts : Len(chan'[q]) <= Cap
        /\ ends' \in [Prompts -> Nat]
    BY <2>1, <2>3, SentType
  <2>5. UNCHANGED <<closed, cancelled, inflight, overlapped, panicked>>
    BY <1>4 DEF Emit
  <2> QED BY <2>2, <2>4, <2>5
<1>5. ASSUME NEW p \in Prompts, Consume(p)
      PROVE  ChannelType'
  <2>1. /\ Tail(chan[p]) \in Seq({"event", "end"}) /\ Len(Tail(chan[p])) = Len(chan[p]) - 1
        /\ Len(chan[p]) \in Nat
    BY <1>5 DEF Consume
  <2>2. Len(Tail(chan[p])) <= Cap
    BY <2>1, NativeAssumption DEF NativeAssumption
  <2> QED BY <1>5, <2>1, <2>2 DEF Consume
<1>6. ASSUME NEW p \in Prompts, CancelPrevious(p) \/ AppendUser(p) \/ Register(p)
                               \/ Unregister(p) \/ Close(p)
      PROVE  ChannelType'
  BY <1>6 DEF CancelPrevious, AppendUser, Register, Unregister, Close, Released
<1>7. ASSUME NEW p \in Prompts, Stops(p) \/ BeginsTurn(p) \/ Compact(p) \/ Guard(p)
                               \/ StreamFails(p) \/ StreamText(p)
      PROVE  ChannelType'
  BY <1>7 DEF Stops, BeginsTurn, Compact, Guard, StreamFails, StreamText
<1>8. ASSUME NEW p \in Prompts, StreamEmpty(p) \/ StreamTools(p) \/ Answers(p) \/ Completes(p)
      PROVE  ChannelType'
  BY <1>8 DEF StreamEmpty, StreamTools, Answers, Completes
<1>9. ASSUME NEW p \in Prompts, ToolBegins(p) \/ ToolRefused(p) \/ ToolRuns(p) \/ ToolReturns(p)
                               \/ StopHeartbeat(p) \/ AppendToolResult(p) \/ TurnEnds(p)
      PROVE  ChannelType'
  BY <1>9 DEF ToolBegins, ToolRefused, ToolRuns, ToolReturns, StopHeartbeat, AppendToolResult, TurnEnds
<1> QED
  BY <1>1, <1>2, <1>3, <1>4, <1>5, <1>6, <1>7, <1>8, <1>9 DEF Next, Step, Beat

\* The goroutine has said, or is about to say, that it is over.
Ending(p) == pc[p] \in {"done", "closing", "closed"}

\* The terminal event is the last thing a goroutine emits, and only a cancelled
\* prompt may have dropped it.
EndCounted(p) ==
    /\ out[p] = <<"end">> => pc[p] = "done" /\ ends[p] = 0
    /\ out[p] = <<"event">> => ~Ending(p)
    /\ ~Ending(p) => ends[p] = 0
    /\ ends[p] <= 1
    /\ Ending(p) /\ out[p] = <<>> => ends[p] = 1 \/ p \in cancelled
    /\ pc[p] \in {"closing", "closed"} => out[p] = <<>>
    /\ p \in closed => pc[p] = "closed"

EndInv == \A p \in Prompts : EndCounted(p)

LEMMA EndNext ==
  ASSUME RunType, ChannelType, EndInv, [Next]_vars
  PROVE  EndInv'
<1>0. /\ pc \in [Prompts -> Labels] /\ out \in [Prompts -> {<<>>, <<"event">>, <<"end">>}]
      /\ ends \in [Prompts -> Nat] /\ closed \subseteq Prompts /\ cancelled \subseteq Prompts
      /\ <<"event">> # <<"end">> /\ <<"event">> # <<>> /\ <<"end">> # <<>>
  BY DEF RunType, ChannelType
<1> USE <1>0 DEF EndInv, EndCounted, Ending, Labels, Goto, At, TopUnchanged, runVars, chanVars, Emits
<1>1. CASE UNCHANGED vars \/ Cancel
  BY <1>1 DEF vars, Cancel
<1>2. ASSUME NEW p \in Prompts, BeatTicks(p) \/ BeatStops(p) \/ BeatPanics(p) \/ Consume(p)
                               \/ CallerCancels(p) \/ LoadConv(p) \/ StoreConv(p)
      PROVE  EndInv'
  BY <1>2 DEF BeatTicks, BeatStops, BeatPanics, CallerCancels, LoadConv, StoreConv, Consume
<1>3. ASSUME NEW p \in Prompts, BeatEmits(p)
      PROVE  EndInv'
  BY <1>3 DEF BeatEmits, Sent, Dropped
<1>4. ASSUME NEW p \in Prompts, Emit(p)
      PROVE  EndInv'
  <2>1. out[p] # <<>> /\ (Sent(p, Head(out[p])) \/ Dropped(p))
    BY <1>4 DEF Emit
  <2>2. out' = [out EXCEPT ![p] = <<>>]
    BY <1>4, <2>1, InHand DEF Emit
  <2>3. UNCHANGED <<closed, cancelled, pc>>
    BY <1>4 DEF Emit
  <2>4. CASE Head(out[p]) = "event" /\ out[p] = <<"event">>
    BY <2>1, <2>2, <2>3, <2>4 DEF Sent, Dropped
  <2>5. CASE Head(out[p]) = "end" /\ out[p] = <<"end">>
    <3>1. pc[p] = "done" /\ ends[p] = 0
      BY <2>5
    <3>2. CASE Sent(p, "end")
      <4>1. ends' = [ends EXCEPT ![p] = ends[p] + 1]
        BY <3>2 DEF Sent
      <4>2. ends'[p] = 1 /\ out'[p] = <<>> /\ pc'[p] = "done"
        BY <4>1, <3>1, <2>2, <2>3
      <4>3. EndCounted(p)'
        BY <4>2, <2>3, <2>5
      <4>4. \A q \in Prompts \ {p} : EndCounted(q)'
        BY <4>1, <2>2, <2>3
      <4> QED BY <4>3, <4>4
    <3>3. CASE Dropped(p)
      <4>1. ends' = ends /\ p \in cancelled
        BY <3>1, <3>3 DEF Dropped, CtxDone
      <4> QED BY <4>1, <3>1, <2>2, <2>3
    <3> QED BY <2>1, <2>5, <3>2, <3>3
  <2> QED BY <2>1, <2>4, <2>5, InHand
<1>5. ASSUME NEW p \in Prompts, CancelPrevious(p) \/ AppendUser(p) \/ Register(p)
                               \/ Unregister(p) \/ Close(p)
      PROVE  EndInv'
  <2>1. CASE CancelPrevious(p)
    BY <2>1 DEF CancelPrevious
  <2>2. CASE AppendUser(p) \/ Register(p)
    BY <2>2 DEF AppendUser, Register
  <2>3. CASE Unregister(p)
    BY <2>3 DEF Unregister
  <2>4. CASE Close(p)
    BY <2>4 DEF Close
  <2> QED BY <1>5, <2>1, <2>2, <2>3, <2>4
<1>6. ASSUME NEW p \in Prompts, Stops(p) \/ BeginsTurn(p) \/ Compact(p) \/ Guard(p)
                               \/ StreamFails(p) \/ StreamText(p)
      PROVE  EndInv'
  BY <1>6 DEF Stops, BeginsTurn, Compact, Guard, StreamFails, StreamText
<1>7. ASSUME NEW p \in Prompts, StreamEmpty(p) \/ StreamTools(p) \/ Answers(p) \/ Completes(p)
      PROVE  EndInv'
  BY <1>7 DEF StreamEmpty, StreamTools, Answers, Completes
<1>8. ASSUME NEW p \in Prompts, ToolBegins(p) \/ ToolRefused(p) \/ ToolRuns(p) \/ ToolReturns(p)
                               \/ StopHeartbeat(p) \/ AppendToolResult(p) \/ TurnEnds(p)
      PROVE  EndInv'
  BY <1>8 DEF ToolBegins, ToolRefused, ToolRuns, ToolReturns, StopHeartbeat, AppendToolResult, TurnEnds
<1> QED
  BY <1>1, <1>2, <1>3, <1>4, <1>5, <1>6, <1>7, <1>8 DEF Next, Step, Beat

\* Every heartbeat that still emits ticked once.
BeatInv ==
    /\ hb \in [Prompts -> {"off", "waiting", "emitting"}]
    /\ late \in [Prompts -> Nat]
    /\ beats \in [Prompts -> 0..setting.beats]
    /\ \A p \in Prompts : /\ late[p] <= beats[p]
                          /\ hb[p] = "emitting" => late[p] < beats[p]

LEMMA BeatNext ==
  ASSUME setting \in Settings, BeatInv, [Next]_vars
  PROVE  BeatInv'
<1>0. setting.beats \in Nat
  BY SettingType
<1> USE <1>0 DEF BeatInv, TopUnchanged, beatVars
<1>1. CASE UNCHANGED vars \/ Cancel
  BY <1>1 DEF vars, Cancel
<1>2. ASSUME NEW p \in Prompts, BeatTicks(p) \/ BeatStops(p) \/ BeatPanics(p)
      PROVE  BeatInv'
  BY <1>2 DEF BeatTicks, BeatStops, BeatPanics
<1>3. ASSUME NEW p \in Prompts, BeatEmits(p)
      PROVE  BeatInv'
  <2>1. UNCHANGED <<beats, setting>>
    BY <1>3 DEF BeatEmits
  <2>2. CASE hb[p] = "emitting" /\ hb' = [hb EXCEPT ![p] = "waiting"] /\ UNCHANGED late
    BY <2>1, <2>2
  <2>3. CASE late[p] > 0 /\ late' = [late EXCEPT ![p] = @ - 1] /\ UNCHANGED hb
    BY <2>1, <2>3
  <2> QED BY <1>3, <2>2, <2>3 DEF BeatEmits
<1>4. ASSUME NEW p \in Prompts, CallerCancels(p) \/ Consume(p) \/ LoadConv(p) \/ StoreConv(p)
                               \/ Emit(p) \/ CancelPrevious(p)
      PROVE  BeatInv'
  BY <1>4 DEF CallerCancels, Consume, LoadConv, StoreConv, Emit, CancelPrevious
<1>5. ASSUME NEW p \in Prompts, AppendUser(p) \/ Register(p) \/ Stops(p) \/ BeginsTurn(p)
                               \/ Compact(p) \/ Guard(p) \/ StreamFails(p) \/ StreamText(p)
      PROVE  BeatInv'
  BY <1>5 DEF AppendUser, Register, Stops, BeginsTurn, Compact, Guard, StreamFails, StreamText
<1>6. ASSUME NEW p \in Prompts, StreamEmpty(p) \/ StreamTools(p) \/ Answers(p) \/ Completes(p)
                               \/ ToolBegins(p) \/ ToolRefused(p) \/ ToolReturns(p)
      PROVE  BeatInv'
  BY <1>6 DEF StreamEmpty, StreamTools, Answers, Completes, ToolBegins, ToolRefused, ToolReturns
<1>7. ASSUME NEW p \in Prompts, ToolRuns(p)
      PROVE  BeatInv'
  BY <1>7 DEF ToolRuns
<1>8. ASSUME NEW p \in Prompts, StopHeartbeat(p)
      PROVE  BeatInv'
  BY <1>8 DEF StopHeartbeat
<1>9. ASSUME NEW p \in Prompts, AppendToolResult(p) \/ TurnEnds(p) \/ Unregister(p) \/ Close(p)
      PROVE  BeatInv'
  BY <1>9 DEF AppendToolResult, TurnEnds, Unregister, Close
<1> QED
  BY <1>1, <1>2, <1>3, <1>4, <1>5, <1>6, <1>7, <1>8, <1>9 DEF Next, Step, Beat

\* A goroutine drops its own cancel on its way out.
LEMMA StaleNext ==
  ASSUME RunType, ChannelType, NoStaleCancel, [Next]_vars
  PROVE  NoStaleCancel'
<1>0. pc \in [Prompts -> Labels] /\ inflight \in Prompts \cup {None} /\ None \notin Prompts
  BY NativeAssumption DEF RunType, ChannelType, NativeAssumption
<1> USE <1>0 DEF NoStaleCancel, Labels, Goto, At, TopUnchanged, runVars
<1>1. CASE UNCHANGED vars \/ Cancel
  BY <1>1 DEF vars, Cancel
<1>2. ASSUME NEW p \in Prompts, Beat(p) \/ CallerCancels(p) \/ Consume(p) \/ LoadConv(p)
                               \/ StoreConv(p) \/ Emit(p)
      PROVE  NoStaleCancel'
  BY <1>2 DEF Beat, BeatTicks, BeatStops, BeatEmits, BeatPanics, CallerCancels, Consume, LoadConv,
     StoreConv, Emit
<1>3. ASSUME NEW p \in Prompts, CancelPrevious(p) \/ AppendUser(p) \/ Register(p)
                               \/ Stops(p) \/ BeginsTurn(p) \/ Compact(p) \/ Guard(p)
      PROVE  NoStaleCancel'
  BY <1>3 DEF CancelPrevious, AppendUser, Register, Stops, BeginsTurn, Compact, Guard
<1>4. ASSUME NEW p \in Prompts, StreamFails(p) \/ StreamText(p) \/ StreamEmpty(p) \/ StreamTools(p)
                               \/ Answers(p) \/ Completes(p) \/ ToolBegins(p)
      PROVE  NoStaleCancel'
  BY <1>4 DEF StreamFails, StreamText, StreamEmpty, StreamTools, Answers, Completes, ToolBegins
<1>5. ASSUME NEW p \in Prompts, ToolRefused(p) \/ ToolRuns(p) \/ ToolReturns(p) \/ StopHeartbeat(p)
                               \/ AppendToolResult(p) \/ TurnEnds(p)
      PROVE  NoStaleCancel'
  BY <1>5 DEF ToolRefused, ToolRuns, ToolReturns, StopHeartbeat, AppendToolResult, TurnEnds
<1>6. ASSUME NEW p \in Prompts, Unregister(p) \/ Close(p)
      PROVE  NoStaleCancel'
  BY <1>6 DEF Unregister, Close, Released
<1> QED
  BY <1>1, <1>2, <1>3, <1>4, <1>5, <1>6 DEF Next, Step

-----------------------------------------------------------------------------
(* The array and the prompt that is at work on it.                          *)

\* The array with what prompt p is still to append.
Coming(p) == conv \o todo[p]

\* The calls of prompt p's last completion, answered as far as the goroutine got.
Answering(p, c) ==
    LET j == Len(c) - next[p] + 1
    IN  /\ j \in DOMAIN c /\ OpenAt(c, j)
        /\ c[j].by = p /\ c[j].turn = turn[p] /\ c[j].call = calls[p]

Standing(p, c) ==
    /\ Good(c)
    /\ Calling(p) => Answering(p, c)
    /\ ~Calling(p) => AllAnswered(c)
    /\ pc[p] \notin {"user", "finish", "done", "closing"} => Asked(p, c, turn[p])

Idle == \A p \in Prompts : ~Running(p)

\* One prompt at a time is at work; what it loaded is what is there, and the array
\* stands as far as the prompt got.  Between two prompts the array is sound.
Orderly ==
    /\ \A p, q \in Prompts : Running(p) /\ Running(q) => p = q
    /\ \A p \in Prompts : held[p] # None \/ pc[p] = "compact" => held[p] = conv
    /\ \A p \in Prompts : Running(p) => Standing(p, Coming(p))
    /\ Idle => Good(conv) /\ AllAnswered(conv)

OrderInv == overlapped \/ Orderly

LEMMA Joined ==
  ASSUME NEW c \in Seq(Message)
  PROVE  /\ c \o <<>> = c
         /\ \A x \in Message : c \o <<x>> = Append(c, x)
         /\ \A x, y \in Message : c \o <<x, y>> = Append(Append(c, x), y)
         /\ \A s \in Seq(Message) : s # <<>> => Append(c, Head(s)) \o Tail(s) = c \o s
<1>1. \A s \in Seq(Message) : s # <<>> => Append(c, Head(s)) \o Tail(s) = c \o s
  OBVIOUS
<1>2. \A x, y \in Message : c \o <<x, y>> = Append(Append(c, x), y)
  OBVIOUS
<1> QED BY <1>1, <1>2

\* A step of one prompt, with nobody else at work, keeps the order if it leaves the
\* array as the prompt's place says.
LEMMA Advance ==
  ASSUME PendingInv, Orderly, pc \in [Prompts -> Labels],
         NEW p \in Prompts, Running(p) \/ Idle,
         NEW label \in Labels \ {"new"}, pc' = [pc EXCEPT ![p] = label],
         \A q \in Prompts \ {p} : held'[q] = held[q],
         held'[p] # None \/ label = "compact" => held'[p] = conv',
         label # "closed" => Standing(p, Coming(p))',
         label = "closed" => Good(conv') /\ AllAnswered(conv')
  PROVE  Orderly'
<1>1. pc'[p] = label /\ \A q \in Prompts \ {p} : pc'[q] = pc[q]
  OBVIOUS
<1>2. \A q \in Prompts \ {p} : ~Running(q)
  BY DEF Orderly, Idle
<1>3. \A q \in Prompts \ {p} : pc'[q] \in {"new", "closed"} /\ held'[q] = None
  BY <1>1, <1>2 DEF Running, PendingInv, Pending
<1>4. \A q \in Prompts \ {p} : ~Running(q)'
  BY <1>3 DEF Running
<1>5. Running(p)' <=> label # "closed"
  BY <1>1 DEF Running
<1>6. Idle' => label = "closed"
  BY <1>5 DEF Idle
<1>7. (\A q, r \in Prompts : Running(q) /\ Running(r) => q = r)'
  BY <1>4
<1>8. (\A q \in Prompts : held[q] # None \/ pc[q] = "compact" => held[q] = conv)'
  BY <1>1, <1>3
<1>9. (\A q \in Prompts : Running(q) => Standing(q, Coming(q)))'
  BY <1>4, <1>5
<1> QED BY <1>6, <1>7, <1>8, <1>9 DEF Orderly

\* The goroutine moves on and leaves the array, and what it is to append, alone.
LEMMA Moves ==
  ASSUME PendingInv, Orderly, pc \in [Prompts -> Labels],
         NEW p \in Prompts, Running(p),
         NEW label \in Labels \ {"new", "closed"}, pc' = [pc EXCEPT ![p] = label],
         \A q \in Prompts \ {p} : held'[q] = held[q],
         held'[p] # None \/ label = "compact" => held'[p] = conv,
         UNCHANGED <<conv, todo, turn, calls, next>>,
         Calling(p)' <=> Calling(p),
         \/ pc[p] \notin {"user", "finish", "done", "closing"}
         \/ label \in {"user", "finish", "done", "closing"}
  PROVE  Orderly'
<1>1. pc'[p] = label /\ Coming(p)' = Coming(p)
  BY DEF Coming
<1>2. Standing(p, Coming(p))
  BY DEF Orderly
<1>3. Answering(p, Coming(p))' <=> Answering(p, Coming(p))
  BY <1>1 DEF Answering
<1>4. Standing(p, Coming(p))'
  BY <1>1, <1>2, <1>3 DEF Standing
<1> QED BY <1>4, Advance

\* What stays in order when the goroutine does nothing of its own.
LEMMA Stays ==
  ASSUME Orderly, UNCHANGED <<pc, conv, held, todo, turn, calls, next>>
  PROVE  Orderly'
BY DEF Orderly, Running, Standing, Coming, Calling, Answering, Idle

LEMMA AppendsUserNext ==
  ASSUME RunInv, PendingInv, Orderly, NEW p \in Prompts, AppendUser(p)
  PROVE  Orderly'
<1>1. /\ pc \in [Prompts -> Labels] /\ pc[p] = "user" /\ turn[p] = 0 /\ todo[p] = <<>>
      /\ pc' = [pc EXCEPT ![p] = "register"] /\ pc'[p] = "register"
      /\ todo'[p] = AppendedByUser(p, conv)
      /\ UNCHANGED <<conv, held, turn, calls, next>>
  BY DEF RunInv, RunType, Labels, Counted, PendingInv, ArrayType, AppendUser, At, Goto, Appends, runVars
<1>2. Running(p) /\ Coming(p) = conv /\ conv \in Seq(Message)
  BY <1>1, Joined DEF Running, Coming, PendingInv, ArrayType
<1>3. Good(conv) /\ AllAnswered(conv)
  BY <1>1, <1>2 DEF Orderly, Standing, Calling
<1>4. /\ User(p) \in Message /\ InterruptedNote \in Message
      /\ User(p).role = "user" /\ User(p).by = p
      /\ InterruptedNote.role = "assistant" /\ InterruptedNote.call = 0
  BY MessageType DEF RunInv, User, InterruptedNote
<1>5. CASE conv # <<>> /\ conv[Len(conv)].role = "tool"
  <2> DEFINE c == Append(conv, InterruptedNote)
  <2>1. /\ c \in Seq(Message) /\ c # <<>> /\ c[Len(c)] = InterruptedNote
    BY <1>2, <1>4
  <2>2. Good(c) /\ AllAnswered(c)
    BY <1>2, <1>3, <1>4, <1>5, GoodAppend
  <2> HIDE DEF c
  <2>3. Good(Append(c, User(p))) /\ AllAnswered(Append(c, User(p)))
    BY <2>1, <2>2, <1>4, GoodAppend
  <2>4. Asked(p, Append(c, User(p)), 0)
    BY <2>1, <1>4, AskedNow
  <2>5. Coming(p)' = Append(c, User(p))
    BY <1>1, <1>2, <1>4, <1>5, Joined DEF Coming, AppendedByUser, c
  <2>6. Standing(p, Coming(p))'
    BY <1>1, <2>3, <2>4, <2>5 DEF Standing, Calling
  <2> QED BY <1>1, <1>2, <2>6, Advance DEF Labels, PendingInv, Pending, Orderly
<1>6. CASE ~(conv # <<>> /\ conv[Len(conv)].role = "tool")
  <2>1. Good(Append(conv, User(p))) /\ AllAnswered(Append(conv, User(p)))
    BY <1>2, <1>3, <1>4, <1>6, GoodAppend
  <2>2. Asked(p, Append(conv, User(p)), 0)
    BY <1>2, <1>4, AskedNow
  <2>3. Coming(p)' = Append(conv, User(p))
    BY <1>1, <1>2, <1>4, <1>6, Joined DEF Coming, AppendedByUser
  <2>4. Standing(p, Coming(p))'
    BY <1>1, <2>1, <2>2, <2>3 DEF Standing, Calling
  <2> QED BY <1>1, <1>2, <2>4, Advance DEF Labels, PendingInv, Pending, Orderly
<1> QED BY <1>5, <1>6

LEMMA LoadNext ==
  ASSUME RunInv, PendingInv, Orderly, NEW p \in Prompts, LoadConv(p) \/ StoreConv(p)
  PROVE  Orderly'
<1>1. /\ pc \in [Prompts -> Labels] /\ pc' = [pc EXCEPT ![p] = pc[p]]
      /\ todo[p] # <<>> /\ todo[p] \in Seq(Message) /\ conv \in Seq(Message)
      /\ UNCHANGED <<pc, turn, calls, next>>
  BY DEF RunInv, RunType, PendingInv, ArrayType, LoadConv, StoreConv, runVars
<1>2. pc[p] \in {"register", "finish", "tools"}
  BY <1>1 DEF PendingInv, Pending
<1>3. Running(p) /\ Standing(p, Coming(p))
  BY <1>2 DEF Running, Orderly
<1>4. CASE LoadConv(p)
  <2>1. conv' = conv /\ todo' = todo /\ held'[p] = conv /\ \A q \in Prompts \ {p} : held'[q] = held[q]
    BY <1>4 DEF LoadConv, PendingInv, ArrayType
  <2> QED BY <1>1, <1>2, <1>3, <2>1, Moves DEF Labels, Calling
<1>5. CASE StoreConv(p)
  <2>1. /\ held[p] = conv /\ held'[p] = None /\ \A q \in Prompts \ {p} : held'[q] = held[q]
        /\ conv' = Append(conv, Head(todo[p])) /\ todo'[p] = Tail(todo[p])
    BY <1>5 DEF StoreConv, PendingInv, ArrayType, Orderly
  <2>2. Coming(p)' = Coming(p)
    <3>1. Append(conv, Head(todo[p])) \o Tail(todo[p]) = conv \o todo[p]
      BY <1>1, Joined
    <3>2. Coming(p)' = conv' \o todo'[p]
      BY DEF Coming
    <3> QED BY <3>1, <3>2, <2>1 DEF Coming
  <2>3. Standing(p, Coming(p))'
    BY <1>1, <1>3, <2>2 DEF Standing, Calling, Answering
  <2> QED BY <1>1, <1>2, <1>3, <2>1, <2>3, Advance DEF Labels
<1> QED BY <1>4, <1>5

LEMMA CompactNext ==
  ASSUME RunInv, PendingInv, Orderly, NEW p \in Prompts, Compact(p)
  PROVE  Orderly'
<1>1. /\ pc \in [Prompts -> Labels] /\ pc[p] = "compact" /\ todo[p] = <<>> /\ conv \in Seq(Message)
      /\ pc' = [pc EXCEPT ![p] = "guard"] /\ pc'[p] = "guard"
      /\ held'[p] = None /\ \A q \in Prompts \ {p} : held'[q] = held[q]
      /\ UNCHANGED <<todo, turn, calls, next>>
  BY DEF RunInv, RunType, Labels, PendingInv, ArrayType, Compact, At, Goto
<1>2. Running(p) /\ Coming(p) = conv /\ held[p] = conv /\ turn[p] \in Nat
  BY <1>1, Joined, SettingType DEF Running, Coming, Orderly, RunInv, RunType
<1>3. Good(conv) /\ AllAnswered(conv) /\ Asked(p, conv, turn[p])
  BY <1>1, <1>2 DEF Orderly, Standing, Calling
<1>4. {setting.summarizes, FALSE} \subseteq BOOLEAN
  BY SettingType DEF RunInv, RunType
<1>5. PICK summarized \in {setting.summarizes, FALSE} : conv' = Compacted(conv, summarized)
  BY <1>2 DEF Compact
<1>6. /\ conv' \in Seq(Message) /\ Good(conv') /\ AllAnswered(conv')
      /\ Asked(p, conv', turn[p])
  BY <1>1, <1>2, <1>3, <1>4, <1>5, CompactedKeeps, CompactedType
<1>7. Coming(p)' = conv'
  BY <1>1, <1>6, Joined DEF Coming
<1>8. Standing(p, Coming(p))'
  BY <1>1, <1>6, <1>7 DEF Standing, Calling
<1> QED BY <1>1, <1>2, <1>8, Advance DEF Labels

LEMMA AnswersNext ==
  ASSUME RunInv, PendingInv, Orderly, NEW p \in Prompts, Answers(p) \/ StreamTools(p)
  PROVE  Orderly'
<1>1. /\ pc \in [Prompts -> Labels] /\ pc[p] \in {"answered", "stream"} /\ todo[p] = <<>>
      /\ conv \in Seq(Message) /\ turn[p] \in Nat /\ setting.calls \in Nat
      /\ UNCHANGED <<conv, held, turn>>
  BY SettingType DEF RunInv, RunType, Labels, PendingInv, ArrayType, Answers, StreamTools, At
<1>2. Running(p) /\ Coming(p) = conv
  BY <1>1, Joined DEF Running, Coming
<1>3. Good(conv) /\ AllAnswered(conv) /\ Asked(p, conv, turn[p])
  BY <1>1, <1>2 DEF Orderly, Standing, Calling
<1>4. conv # <<>>
  BY <1>3 DEF Asked, UserStarts
<1>5. held[p] = None
  BY <1>1 DEF PendingInv, Pending
<1>6. CASE Answers(p)
  <2> DEFINE x == Assistant(p, 0)
  <2>1. x \in Message /\ x.role = "assistant" /\ x.call = 0
    BY MessageType DEF Assistant, RunInv
  <2>2. /\ pc' = [pc EXCEPT ![p] = "finish"] /\ pc'[p] = "finish" /\ todo'[p] = <<x>>
    BY <1>1, <1>6 DEF Answers, Goto, Appends, PendingInv, ArrayType
  <2> HIDE DEF x
  <2>3. Coming(p)' = Append(conv, x)
    BY <1>1, <2>1, <2>2, Joined DEF Coming
  <2>4. Good(Append(conv, x)) /\ AllAnswered(Append(conv, x))
    BY <1>1, <1>3, <1>4, <2>1, GoodAppend
  <2>5. Standing(p, Coming(p))'
    BY <2>2, <2>3, <2>4 DEF Standing, Calling
  <2> QED BY <1>1, <1>2, <1>5, <2>2, <2>5, Advance DEF Labels
<1>7. CASE StreamTools(p)
  <2>1. PICK n \in 1..setting.calls :
           /\ todo' = [todo EXCEPT ![p] = <<Assistant(p, n)>>]
           /\ calls' = [calls EXCEPT ![p] = n]
    BY <1>7 DEF StreamTools, Appends
  <2> DEFINE x == Assistant(p, n)
  <2>2. x \in Message /\ x.role = "assistant" /\ x.call = n /\ x.by = p /\ x.turn = turn[p]
    BY <1>1, MessageType DEF Assistant, RunInv
  <2>3. /\ pc' = [pc EXCEPT ![p] = "tools"] /\ pc'[p] = "tools" /\ next'[p] = 1
        /\ todo'[p] = <<x>> /\ calls'[p] = n
    BY <1>1, <1>7, <2>1 DEF StreamTools, Goto, PendingInv, ArrayType, RunInv, RunType
  <2> HIDE DEF x
  <2> DEFINE d == Append(conv, x)
  <2>4. Coming(p)' = d
    BY <1>1, <2>2, <2>3, Joined DEF Coming
  <2>5. Good(d) /\ OpenAt(d, Len(conv) + 1) /\ Asked(p, d, turn[p])
    BY <1>1, <1>3, <1>4, <2>2, GoodAppend, CallsBegin, AskedAppend
  <2>6. /\ Len(conv) \in Nat /\ Len(d) - 1 + 1 = Len(conv) + 1 /\ Len(conv) + 1 \in DOMAIN d
        /\ d[Len(conv) + 1] = x
    BY <1>1, <2>2, Appended
  <2> HIDE DEF d
  <2>7. Answering(p, Coming(p))'
    BY <1>1, <2>2, <2>3, <2>4, <2>5, <2>6 DEF Answering
  <2>8. Standing(p, Coming(p))'
    BY <1>1, <2>3, <2>4, <2>5, <2>7 DEF Standing, Calling
  <2> QED BY <1>1, <1>2, <1>5, <2>3, <2>8, Advance DEF Labels
<1> QED BY <1>6, <1>7

\* Where the message stands whose calls are being answered.
LEMMA AnsweringFacts ==
  ASSUME RunInv, NEW p \in Prompts, NEW c \in Seq(Message), Answering(p, c)
  PROVE  LET j == Len(c) - next[p] + 1
         IN  /\ j \in 1..Len(c) /\ OpenAt(c, j)
             /\ c[j].by = p /\ c[j].turn = turn[p] /\ c[j].call = calls[p]
             /\ Len(c) \in Nat /\ next[p] \in Nat /\ calls[p] \in Nat /\ turn[p] \in Nat
             /\ Len(c) + 1 - j = next[p] /\ j + calls[p] = Len(c) - next[p] + 1 + calls[p]
<1>1. next[p] \in Nat /\ calls[p] \in Nat /\ turn[p] \in Nat
  BY SettingType DEF RunInv, RunType
<1>2. Len(c) \in Nat /\ DOMAIN c = 1..Len(c)
  OBVIOUS
<1> QED BY <1>1, <1>2 DEF Answering

LEMMA ResultNext ==
  ASSUME RunInv, PendingInv, Orderly, NEW p \in Prompts, AppendToolResult(p) \/ TurnEnds(p)
  PROVE  Orderly'
<1>1. /\ pc \in [Prompts -> Labels] /\ pc[p] \in {"result", "tools"} /\ todo[p] = <<>>
      /\ conv \in Seq(Message)
      /\ UNCHANGED <<conv, held, calls>>
  BY DEF RunInv, RunType, Labels, PendingInv, ArrayType, AppendToolResult, TurnEnds, At, convVars
<1>2. Running(p) /\ Coming(p) = conv
  BY <1>1, Joined DEF Running, Coming
<1>3. Good(conv) /\ Answering(p, conv) /\ Asked(p, conv, turn[p])
  BY <1>1, <1>2 DEF Orderly, Standing, Calling
<1>4. held[p] = None
  BY <1>1 DEF PendingInv, Pending
<1> DEFINE j == Len(conv) - next[p] + 1
<1>5. /\ j \in 1..Len(conv) /\ OpenAt(conv, j)
      /\ conv[j].by = p /\ conv[j].turn = turn[p] /\ conv[j].call = calls[p]
      /\ Len(conv) \in Nat /\ next[p] \in Nat /\ calls[p] \in Nat /\ turn[p] \in Nat
      /\ Len(conv) + 1 - j = next[p] /\ j + calls[p] = Len(conv) - next[p] + 1 + calls[p]
  BY <1>1, <1>3, AnsweringFacts
<1>6. CASE AppendToolResult(p)
  <2> DEFINE x == Result(p, next[p])
  <2>1. pc[p] = "result" /\ next[p] <= calls[p]
    BY <1>6 DEF AppendToolResult, At, RunInv, Counted
  <2>2. x \in Message /\ x.role = "tool" /\ x.call = next[p] /\ x.by = p /\ x.turn = turn[p]
    BY <1>5, MessageType DEF Result, RunInv
  <2>3. /\ pc' = [pc EXCEPT ![p] = "tools"] /\ pc'[p] = "tools" /\ next'[p] = next[p] + 1
        /\ todo'[p] = <<x>> /\ turn' = turn
    BY <1>1, <1>6 DEF AppendToolResult, Appends, Goto, PendingInv, ArrayType, RunInv, RunType
  <2> DEFINE d == Append(conv, x)
  <2> HIDE DEF x, j
  <2>4. Coming(p)' = d
    BY <1>1, <2>2, <2>3, Joined DEF Coming
  <2>5. Good(d) /\ OpenAt(d, j)
    BY <1>1, <1>3, <1>5, <2>1, <2>2, GoodResult
  <2>6. Asked(p, d, turn[p])
    BY <1>1, <1>3, <1>5, <2>2, AskedAppend
  <2>7. /\ Len(d) = Len(conv) + 1 /\ DOMAIN d = 1..Len(conv) + 1 /\ \A i \in 1..Len(conv) : d[i] = conv[i]
    BY <1>1, <2>2, Appended
  <2> HIDE DEF d
  <2>8. Len(d) - (next[p] + 1) + 1 = j /\ j \in DOMAIN d /\ d[j] = conv[j]
    BY <1>5, <2>7 DEF j
  <2>9. Answering(p, Coming(p))'
    BY <1>1, <1>5, <2>3, <2>4, <2>5, <2>8 DEF Answering
  <2>10. Standing(p, Coming(p))'
    BY <2>3, <2>4, <2>5, <2>6, <2>9 DEF Standing, Calling
  <2> QED BY <1>1, <1>2, <1>4, <2>3, <2>10, Advance DEF Labels
<1>7. CASE TurnEnds(p)
  <2>1. pc[p] = "tools" /\ next[p] > calls[p] /\ next[p] <= calls[p] + 1
    BY <1>7 DEF TurnEnds, At, RunInv, Counted
  <2>2. Len(conv) = j + conv[j].call
    BY <2>1, <1>5
  <2>3. /\ pc' = [pc EXCEPT ![p] = "top"] /\ pc'[p] = "top" /\ turn'[p] = turn[p] + 1
        /\ todo' = todo
    BY <1>1, <1>7 DEF TurnEnds, Goto, RunInv, RunType, convVars
  <2> HIDE DEF j
  <2>4. AllAnswered(conv) /\ Asked(p, conv, turn[p] + 1)
    BY <1>1, <1>3, <1>5, <2>2, CallsEnd, AskedTurn
  <2>5. Coming(p)' = conv
    BY <1>1, <1>2, <2>3 DEF Coming
  <2>6. Standing(p, Coming(p))'
    BY <1>3, <2>3, <2>4, <2>5 DEF Standing, Calling
  <2> QED BY <1>1, <1>2, <1>4, <2>3, <2>6, Advance DEF Labels
<1> QED BY <1>6, <1>7

LEMMA OrderNext ==
  ASSUME RunInv, PendingInv, ChannelType, OrderInv, [Next]_vars
  PROVE  OrderInv'
<1> SUFFICES ASSUME ~overlapped' PROVE Orderly'
  BY DEF OrderInv
<1>0. pc \in [Prompts -> Labels] /\ overlapped \in BOOLEAN
  BY DEF RunInv, RunType, ChannelType
<1>1. ASSUME UNCHANGED overlapped PROVE Orderly
  BY <1>1 DEF OrderInv
<1> USE DEF Goto, At, TopUnchanged, convVars, runVars
<1>2. CASE UNCHANGED vars \/ Cancel
  BY <1>1, <1>2, Stays DEF vars, Cancel
<1>3. ASSUME NEW p \in Prompts, Beat(p) \/ CallerCancels(p) \/ Consume(p) \/ Emit(p)
      PROVE  Orderly'
  <2>1. UNCHANGED <<pc, conv, held, todo, turn, calls, next, overlapped>>
    BY <1>3 DEF Beat, BeatTicks, BeatStops, BeatEmits, BeatPanics, CallerCancels, Consume, Emit
  <2> QED BY <2>1, <1>1, Stays
<1>4. ASSUME NEW p \in Prompts, CancelPrevious(p)
      PROVE  Orderly'
  <2>1. /\ ~overlapped /\ Idle /\ pc[p] = "new" /\ todo[p] = <<>> /\ pc' = [pc EXCEPT ![p] = "user"]
        /\ UNCHANGED <<conv, held, todo>>
    BY <1>4, <1>0 DEF CancelPrevious, Idle
  <2>2. Orderly /\ held[p] = None /\ pc'[p] = "user" /\ Coming(p)' = conv
    BY <1>0, <2>1, Joined DEF OrderInv, PendingInv, ArrayType, Pending, Coming
  <2>3. Good(conv) /\ AllAnswered(conv)
    BY <2>1, <2>2 DEF Orderly
  <2>4. Standing(p, Coming(p))'
    BY <2>2, <2>3 DEF Standing, Calling
  <2> QED BY <1>0, <2>1, <2>2, <2>4, Advance DEF Labels
<1>5. ASSUME NEW p \in Prompts, AppendUser(p) \/ LoadConv(p) \/ StoreConv(p) \/ Compact(p)
                               \/ Answers(p) \/ StreamTools(p) \/ AppendToolResult(p) \/ TurnEnds(p)
      PROVE  Orderly'
  <2>1. UNCHANGED overlapped
    BY <1>5 DEF AppendUser, LoadConv, StoreConv, Compact, Answers, StreamTools, AppendToolResult, TurnEnds
  <2> QED BY <1>1, <1>5, <2>1, AppendsUserNext, LoadNext, CompactNext, AnswersNext, ResultNext
<1>6. ASSUME NEW p \in Prompts, Register(p) \/ Stops(p) \/ Completes(p)
      PROVE  Orderly'
  <2>1. /\ UNCHANGED <<conv, held, todo, turn, calls, next, overlapped>> /\ todo[p] = <<>>
        /\ pc[p] \in {"register", "top", "finish"}
        /\ pc' = [pc EXCEPT ![p] = IF pc[p] = "register" THEN "top" ELSE "done"]
    BY <1>6 DEF Register, Stops, Completes
  <2>2. held[p] = None
    BY <2>1 DEF PendingInv, Pending
  <2> QED BY <1>0, <1>1, <2>1, <2>2, Moves DEF Labels, Calling, Running
<1>7. ASSUME NEW p \in Prompts, BeginsTurn(p)
      PROVE  Orderly'
  <2>1. /\ UNCHANGED <<conv, todo, turn, calls, next, overlapped>> /\ todo[p] = <<>> /\ pc[p] = "top"
        /\ \/ pc' = [pc EXCEPT ![p] = "compact"] /\ held' = [held EXCEPT ![p] = conv]
           \/ pc' = [pc EXCEPT ![p] = "guard"] /\ held' = held
    BY <1>7 DEF BeginsTurn
  <2>2. held[p] = None /\ held \in [Prompts -> Seq(Message) \cup {None}]
    BY <2>1 DEF PendingInv, Pending, ArrayType
  <2>3. CASE pc' = [pc EXCEPT ![p] = "compact"] /\ held' = [held EXCEPT ![p] = conv]
    BY <1>0, <1>1, <2>1, <2>2, <2>3, Moves DEF Labels, Calling, Running
  <2>4. CASE pc' = [pc EXCEPT ![p] = "guard"] /\ held' = held
    BY <1>0, <1>1, <2>1, <2>2, <2>4, Moves DEF Labels, Calling, Running
  <2> QED BY <2>1, <2>3, <2>4
<1>8. ASSUME NEW p \in Prompts, Guard(p) \/ StreamFails(p) \/ StreamText(p) \/ StreamEmpty(p)
      PROVE  Orderly'
  <2>1. /\ UNCHANGED <<conv, held, todo, turn, calls, next, overlapped>> /\ todo[p] = <<>>
        /\ pc[p] \in {"guard", "stream"}
        /\ \E label \in {"stream", "done", "answered", "guard"} : pc' = [pc EXCEPT ![p] = label]
    BY <1>8 DEF Guard, StreamFails, StreamText, StreamEmpty
  <2>2. held[p] = None
    BY <2>1 DEF PendingInv, Pending
  <2> QED BY <1>0, <1>1, <2>1, <2>2, Moves DEF Labels, Calling, Running
<1>9. ASSUME NEW p \in Prompts, ToolBegins(p) \/ ToolRefused(p) \/ ToolRuns(p) \/ ToolReturns(p)
                               \/ StopHeartbeat(p)
      PROVE  Orderly'
  <2>1. /\ UNCHANGED <<conv, held, todo, turn, calls, next, overlapped>> /\ todo[p] = <<>>
        /\ pc[p] \in {"tools", "call", "tool", "stopping"}
        /\ \E label \in {"call", "result", "tool", "stopping"} : pc' = [pc EXCEPT ![p] = label]
    BY <1>9 DEF ToolBegins, ToolRefused, ToolRuns, ToolReturns, StopHeartbeat
  <2>2. held[p] = None
    BY <2>1 DEF PendingInv, Pending
  <2> QED BY <1>0, <1>1, <2>1, <2>2, Moves DEF Labels, Calling, Running
<1>10. ASSUME NEW p \in Prompts, Unregister(p)
       PROVE  Orderly'
  <2>1. /\ UNCHANGED <<conv, held, todo, turn, calls, next, overlapped>> /\ todo[p] = <<>>
        /\ pc[p] = "done" /\ pc' = [pc EXCEPT ![p] = "closing"]
    BY <1>10 DEF Unregister
  <2>2. held[p] = None
    BY <2>1 DEF PendingInv, Pending
  <2> QED BY <1>0, <1>1, <2>1, <2>2, Moves DEF Labels, Calling, Running
<1>11. ASSUME NEW p \in Prompts, Close(p)
       PROVE  Orderly'
  <2>1. /\ UNCHANGED <<conv, held, todo, turn, calls, next, overlapped>> /\ todo[p] = <<>>
        /\ pc[p] = "closing" /\ pc' = [pc EXCEPT ![p] = "closed"]
    BY <1>11 DEF Close
  <2>2. held[p] = None /\ Running(p) /\ Coming(p) = conv
    BY <2>1, Joined DEF PendingInv, Pending, ArrayType, Running, Coming
  <2>3. Good(conv) /\ AllAnswered(conv)
    BY <1>1, <2>1, <2>2 DEF Orderly, Standing, Calling
  <2> QED BY <1>0, <1>1, <2>1, <2>2, <2>3, Advance DEF Labels
<1> QED
  BY <1>2, <1>3, <1>4, <1>5, <1>6, <1>7, <1>8, <1>9, <1>10, <1>11 DEF Next, Step

-----------------------------------------------------------------------------
(* The theorems.                                                            *)

NativeInv ==
    /\ RunInv /\ PendingInv /\ ChannelType /\ BeatInv
    /\ EndInv /\ NoStaleCancel /\ OrderInv

LEMMA NativeInit == Init => NativeInv
<1> SUFFICES ASSUME Init PROVE NativeInv
  OBVIOUS
<1>1. setting \in Settings /\ setting.turns \in Nat /\ setting.retries \in Nat
      /\ setting.calls \in Nat /\ setting.beats \in Nat
  BY SettingType DEF Init
<1>2. RunInv
  BY <1>1 DEF Init, RunInv, RunType, Counted, Calling, Labels
<1>3. PendingInv
  <2>1. <<>> \in Seq(Message)
    OBVIOUS
  <2>2. ArrayType
    BY <2>1 DEF Init, ArrayType
  <2>3. \A p \in Prompts : Pending(p)
    BY DEF Init, Pending
  <2> QED BY <2>2, <2>3 DEF PendingInv
<1>4. ChannelType
  <2>1. <<>> \in Seq({"event", "end"}) /\ Len(<<>>) <= Cap
    BY NativeAssumption DEF NativeAssumption
  <2> QED BY <2>1 DEF Init, ChannelType
<1>5. BeatInv
  BY <1>1 DEF Init, BeatInv
<1>6. EndInv
  <2>1. <<"event">> # <<>> /\ <<"end">> # <<>>
    OBVIOUS
  <2> QED BY <2>1 DEF Init, EndInv, EndCounted, Ending
<1>7. NoStaleCancel
  BY DEF Init, NoStaleCancel
<1>8. OrderInv
  <2>1. Good(<<>>) /\ AllAnswered(<<>>)
    BY DEF Good, PairedArray, NoUserAfterTool, AllAnswered
  <2> QED BY <2>1 DEF Init, OrderInv, Orderly, Running
<1> QED BY <1>2, <1>3, <1>4, <1>5, <1>6, <1>7, <1>8 DEF NativeInv

LEMMA NativeNext ==
  ASSUME NativeInv, [Next]_vars
  PROVE  NativeInv'
<1>1. RunType /\ setting \in Settings
  BY DEF NativeInv, RunInv, RunType
<1> QED
  BY <1>1, RunNext, PendingNext, ChannelNext, BeatNext, EndNext, StaleNext, OrderNext DEF NativeInv

LEMMA NativeHolds == Spec => []NativeInv
BY NativeInit, NativeNext, PTL DEF Spec

\* loop.go and compaction.go: the array that is guarded and sent is sound, whatever
\* the settings, as long as no prompt begins while its predecessor is at work.
THEOREM ArrayIsSound == Spec => []ArraySound
<1>1. NativeInv => ArraySound
  <2> SUFFICES ASSUME NativeInv, ~overlapped, NEW p \in Prompts, pc[p] \in {"guard", "stream"}
               PROVE  /\ PairedArray(conv) /\ AllAnswered(conv) /\ NoUserAfterTool(conv)
                      /\ conv # <<>> /\ conv[1].role = "user"
    BY DEF ArraySound
  <2>1. todo[p] = <<>> /\ conv \in Seq(Message)
    BY DEF NativeInv, PendingInv, ArrayType, Pending
  <2>2. Coming(p) = conv /\ Running(p)
    BY <2>1, Joined DEF Coming, Running
  <2>3. Standing(p, conv)
    BY <2>2 DEF NativeInv, OrderInv, Orderly
  <2>4. Good(conv) /\ AllAnswered(conv) /\ Asked(p, conv, turn[p])
    BY <2>3 DEF Standing, Calling
  <2>5. conv # <<>>
    BY <2>4 DEF Asked, UserStarts
  <2> QED BY <2>4, <2>5 DEF Good
<1> QED BY <1>1, NativeHolds, PTL

\* client.go and loop.go: the model is asked about the newest prompt, every prompt
\* nobody cancelled ends exactly once, and no goroutine leaves its cancel behind.
THEOREM PromptsAreKeptApart == Spec => []PromptsKeptApart
<1>1. NativeInv => TypeOK
  <2> SUFFICES ASSUME NativeInv PROVE TypeOK
    OBVIOUS
  <2>1. RunType /\ ArrayType /\ ChannelType /\ BeatInv /\ setting.beats \in Nat
    BY SettingType DEF NativeInv, RunInv, RunType, PendingInv
  <2>2. out \in [Prompts -> Seq({"event", "end"})]
    <3>1. {<<>>, <<"event">>, <<"end">>} \subseteq Seq({"event", "end"})
      OBVIOUS
    <3> QED BY <3>1, <2>1 DEF ChannelType
  <2>3. late \in [Prompts -> 0..setting.beats]
    BY <2>1 DEF BeatInv
  <2>4. /\ setting \in Settings
        /\ pc \in [Prompts -> {"new", "user", "register", "top", "compact", "guard", "stream",
                              "answered", "tools", "call", "tool", "stopping", "result",
                              "finish", "done", "closing", "closed"}]
    BY <2>1, Zenon DEF RunType, Labels
  <2> QED BY <2>1, <2>2, <2>3, <2>4, Zenon DEF TypeOK, RunType, ArrayType, ChannelType, BeatInv
<1>2. NativeInv => OneEnd
  <2> SUFFICES ASSUME NativeInv, NEW p \in Prompts
               PROVE  ends[p] <= 1 /\ (p \in closed /\ p \notin cancelled => ends[p] = 1)
    BY DEF OneEnd
  <2> QED BY DEF NativeInv, EndInv, EndCounted, Ending
<1>3. NativeInv => AnswersItsPrompt
  <2> SUFFICES ASSUME NativeInv, ~overlapped, NEW p \in Prompts, pc[p] = "stream"
               PROVE  Asked(p, conv, turn[p])
    BY DEF AnswersItsPrompt, Asked
  <2>1. todo[p] = <<>> /\ conv \in Seq(Message)
    BY DEF NativeInv, PendingInv, ArrayType, Pending
  <2>2. Coming(p) = conv /\ Running(p)
    BY <2>1, Joined DEF Coming, Running
  <2>3. Standing(p, conv)
    BY <2>2 DEF NativeInv, OrderInv, Orderly
  <2> QED BY <2>3 DEF Standing
<1>4. NativeInv => PromptsKeptApart
  BY <1>1, <1>2, <1>3 DEF NativeInv, PromptsKeptApart
<1> QED BY <1>4, NativeHolds, PTL

=============================================================================
