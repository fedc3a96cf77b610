------------------------------ MODULE Reply_proofs ------------------------------
(***************************************************************************)
(* Proofs about ReplyRenderer, for any number of events, tools and plan      *)
(* entries, any delta, and any number of failed calls and of finalized      *)
(* messages: what Slack has confirmed of a reply is in order and never       *)
(* twice and, when Handle returns from a turn that nothing disturbed, all    *)
(* of it is there and settled.                                               *)
(***************************************************************************)
EXTENDS ReplyRenderer, FiniteSets, FiniteSetsExt, FiniteSetTheorems, WellFoundedInduction, TLAPS

-----------------------------------------------------------------------------
(* The invariant.  It is about a record q, what was told so far, t, and the  *)
(* set s of the ids whose newest card may still spin.                       *)

Fields == {"tasks", "cancels", "ids", "cancelled", "fresh", "faults", "finals", "refused",
           "thinking", "shown", "painted", "stray", "mode", "hasText", "text", "hasBlock", "block",
           "seen", "plan", "planRendered"}
WriterFields == {"msg", "pending", "flushed", "stopped"}
BlockFields == {"writer", "planOpen", "last", "sent", "running", "line", "done"}

Kinds == {"text", "block", "line", "file", "ask"}
Messages == [kind : Kinds, open : BOOLEAN]

\* A sequence, of anything.
Listed(x) == x = [i \in 1..Len(x) |-> x[i]] /\ Len(x) \in Nat

\* The record has its fields, and the sequences in it are sequences.
Shaped(q) ==
    /\ DOMAIN q = Fields /\ DOMAIN q.text = WriterFields
    /\ DOMAIN q.block = BlockFields /\ DOMAIN q.block.writer = WriterFields
    /\ q.shown \in Seq(Messages) /\ Listed(q.painted) /\ Listed(q.text.pending)
    /\ Listed(q.plan) /\ \A i \in 1..Len(q.plan) : q.plan[i].id \in Plans

\* The section that is open has a writer, or a block; no other has.
Sections(q) ==
    /\ q.mode \in {"none", "text", "tools"}
    /\ (q.hasText <=> q.mode = "text") /\ (q.hasBlock <=> q.mode = "tools")
    /\ q.mode # "text" => q.text = NoWriter
    /\ q.mode # "tools" => q.block = NoBlock
    /\ q.block.writer.pending = <<>>
    /\ q.text.msg = 0 => ~q.text.stopped
    /\ q.block.writer.msg = 0 => ~q.block.writer.stopped
    /\ q.tasks => q.block.line = 0
    /\ ~q.tasks => q.block.writer = NoWriter

\* The message of the writer of the reply is the newest; nothing was painted below the
\* message of the writer of the block.
Placed(q) ==
    /\ q.text.msg \in 0..Len(q.shown)
    /\ q.text.msg # 0 => q.text.msg = Len(q.shown) /\ q.shown[q.text.msg].kind = "text"
    /\ q.block.writer.msg \in 0..Len(q.shown)
    /\ q.block.writer.msg # 0 => q.shown[q.block.writer.msg].kind = "block"
    /\ q.block.line \in 0..Len(q.shown)
    /\ q.block.line # 0 => q.shown[q.block.line].kind = "line"
    /\ \A i \in 1..Len(q.painted) :
         /\ q.painted[i].msg \in 1..Len(q.shown)
         /\ q.block.writer.msg # 0 => q.painted[i].msg <= q.block.writer.msg
    /\ \A i, j \in 1..Len(q.painted) : i < j => q.painted[i].msg <= q.painted[j].msg

\* An atom of the reply that was told, or of a notice.
ToldAtom(x, t) ==
    x.id \in Nat /\ (x.id > 0 => x.id \in 1..Len(t) /\ t[x.id].k = "text" /\ t[x.id].id = x.id)

\* What is told is text, whose id is its place, and tools.
Numbered(t) ==
    \A a \in 1..Len(t) : \/ t[a].k = "text" /\ t[a].id = a
                         \/ t[a].k = "card" /\ t[a].id \in Tools

IsText(p, i) == p[i].item.k = "text" /\ p[i].item.id > 0

\* The text on the screen is in order, and what is pending comes after it.
InOrder(p, pending, t) ==
    /\ \A i \in 1..Len(p) : p[i].item.k = "text" => ToldAtom(p[i].item, t)
    /\ \A i \in 1..Len(pending) : ToldAtom(pending[i], t)
    /\ \A i, j \in 1..Len(p) : i < j /\ IsText(p, i) /\ IsText(p, j) => p[i].item.id < p[j].item.id
    /\ \A i, j \in 1..Len(pending) :
         i < j /\ pending[i].id > 0 /\ pending[j].id > 0 => pending[i].id < pending[j].id
    /\ \A i \in 1..Len(p), j \in 1..Len(pending) :
         IsText(p, i) /\ pending[j].id > 0 => p[i].item.id < pending[j].id

ShowsItem(p, i, it) == p[i].item.k = it.k /\ p[i].item.id = it.id
IsPending(pending, it) == it.k = "text" /\ \E i \in 1..Len(pending) : pending[i].id = it.id

\* What the screen must show of what was told.
IsDue(tasks, t, a) == tasks \/ t[a].k = "text"

\* All that was told is on the screen or pending, nothing else is, and it is in order.
Delivered(tasks, p, pending, t) ==
    /\ \A a \in 1..Len(t) : IsDue(tasks, t, a) =>
         IsPending(pending, t[a]) \/ \E i \in 1..Len(p) : ShowsItem(p, i, t[a])
    /\ \A i \in 1..Len(p) : p[i].item.k = "card" /\ p[i].item.id \in Tools =>
         tasks /\ \E a \in 1..Len(t) : ShowsItem(p, i, t[a])
    /\ \A a, b \in 1..Len(t), j \in 1..Len(p) :
         a < b /\ IsDue(tasks, t, a) /\ IsDue(tasks, t, b) /\ ShowsItem(p, j, t[b])
            => \E i \in 1..Len(p) : i < j /\ ShowsItem(p, i, t[a])

\* A card spins for an id of s only, unless there is a newer one.
SpinsOnly(p, s) ==
    \A i \in 1..Len(p) : p[i].item.k = "card" =>
        \/ p[i].item.st \in {"complete", "error"}
        \/ p[i].item.id \in s
        \/ \E j \in 1..Len(p) : i < j /\ ShowsItem(p, j, p[i].item)

\* A message that streams is that of a writer that has not stopped, or the line.
Streams(q) ==
    \A n \in 1..Len(q.shown) : q.shown[n].open =>
        \/ n = q.text.msg /\ ~q.text.stopped
        \/ n = q.block.writer.msg /\ ~q.block.writer.stopped
        \/ n = q.block.line /\ ~q.block.done

\* A card was painted for every id that counts as sent.
SentShown(q) ==
    \A id \in q.block.sent : \E i \in 1..Len(q.painted) :
        q.painted[i].item.k = "card" /\ q.painted[i].item.id = id

Calm(q) == ~q.refused /\ ~q.cancelled

Inv(q, t, s) ==
    /\ Shaped(q) /\ Sections(q) /\ Placed(q)
    /\ Numbered(t) /\ InOrder(q.painted, q.text.pending, t) /\ SentShown(q)
    /\ Calm(q) => /\ Delivered(q.tasks, q.painted, q.text.pending, t)
                  /\ SpinsOnly(q.painted, s) /\ Streams(q)

-----------------------------------------------------------------------------
(* Sequences.                                                              *)

LEMMA ListedIs ==
    ASSUME NEW x, Listed(x)
    PROVE  /\ Len(x) \in Nat /\ DOMAIN x = 1..Len(x)
           /\ \E S : x \in Seq(S)
<1>1. Len(x) \in Nat /\ DOMAIN x = 1..Len(x)
  BY DEF Listed
<1> DEFINE S == {x[i] : i \in 1..Len(x)}
<1>2. x \in [1..Len(x) -> S]
  BY DEF Listed
<1>3. x \in Seq(S)
  BY <1>1, <1>2
<1>4. QED
  BY <1>1, <1>3

LEMMA SeqIsListed ==
    ASSUME NEW S, NEW x \in Seq(S)
    PROVE  Listed(x)
  BY DEF Listed

LEMMA JoinIs ==
    ASSUME NEW x, Listed(x), NEW y, Listed(y)
    PROVE  /\ Listed(x \o y) /\ Len(x \o y) = Len(x) + Len(y)
           /\ \A i \in 1..Len(x) : (x \o y)[i] = x[i]
           /\ \A i \in 1..Len(y) : (x \o y)[Len(x) + i] = y[i]
           /\ \A i \in 1..Len(x \o y) :
                \/ i \in 1..Len(x)
                \/ i - Len(x) \in 1..Len(y) /\ (x \o y)[i] = y[i - Len(x)]
<1>1. PICK S : x \in Seq(S)
  BY ListedIs
<1>2. PICK T : y \in Seq(T)
  BY ListedIs
<1>3. x \in Seq(S \cup T) /\ y \in Seq(S \cup T)
  <2>1. x \in [1..Len(x) -> S] /\ y \in [1..Len(y) -> T]
    BY <1>1, <1>2
  <2>2. x \in [1..Len(x) -> S \cup T] /\ y \in [1..Len(y) -> S \cup T]
    BY <2>1
  <2>3. QED
    BY <2>2 DEF Listed
<1> HIDE DEF Listed
<1> DEFINE U == S \cup T
<1>4. x \in Seq(U) /\ y \in Seq(U)
  BY <1>3
<1> HIDE DEF U
<1>5. x \o y \in Seq(U) /\ Len(x \o y) = Len(x) + Len(y)
  BY <1>4
<1>6. Len(x) \in Nat /\ Len(y) \in Nat
  BY <1>4
<1>7. \A i \in 1..Len(x) : (x \o y)[i] = x[i]
  BY <1>4
<1>8. \A i \in 1..Len(y) : (x \o y)[Len(x) + i] = y[i]
  BY <1>4, <1>6
<1>9. \A i \in 1..Len(x \o y) :
        \/ i \in 1..Len(x)
        \/ i - Len(x) \in 1..Len(y) /\ (x \o y)[i] = y[i - Len(x)]
  BY <1>4, <1>5, <1>6
<1>10. Listed(x \o y)
  BY <1>5, SeqIsListed
<1>11. QED
  BY <1>5, <1>7, <1>8, <1>9, <1>10

Joins(x, y, z) ==
    /\ Listed(z) /\ Len(z) = Len(x) + Len(y)
    /\ \A i \in 1..Len(x) : z[i] = x[i]
    /\ \A i \in 1..Len(y) : z[Len(x) + i] = y[i]

LEMMA JoinsIs ==
    ASSUME NEW x, Listed(x), NEW y, Listed(y)
    PROVE  Joins(x, y, x \o y)
  BY JoinIs DEF Joins

LEMMA PrefixIs ==
    ASSUME NEW x, Listed(x), NEW n \in 0..Len(x)
    PROVE  /\ Listed(SubSeq(x, 1, n)) /\ Len(SubSeq(x, 1, n)) = n
           /\ \A i \in 1..n : SubSeq(x, 1, n)[i] = x[i]
<1>1. PICK S : x \in Seq(S)
  BY ListedIs
<1>2. SubSeq(x, 1, n) \in Seq(S) /\ Len(SubSeq(x, 1, n)) = n
  BY <1>1
<1>3. \A i \in 1..n : SubSeq(x, 1, n)[i] = x[i]
  BY <1>1
<1>4. QED
  BY <1>2, <1>3, SeqIsListed

LEMMA RestIs ==
    ASSUME NEW x, Listed(x), NEW n \in 0..Len(x)
    PROVE  /\ Listed(SubSeq(x, n + 1, Len(x))) /\ Len(SubSeq(x, n + 1, Len(x))) = Len(x) - n
           /\ \A i \in 1..(Len(x) - n) : SubSeq(x, n + 1, Len(x))[i] = x[n + i]
<1>1. PICK S : x \in Seq(S)
  BY ListedIs
<1>2. SubSeq(x, n + 1, Len(x)) \in Seq(S) /\ Len(SubSeq(x, n + 1, Len(x))) = Len(x) - n
  BY <1>1
<1>3. \A i \in 1..(Len(x) - n) : SubSeq(x, n + 1, Len(x))[i] = x[n + i]
  BY <1>1
<1>4. QED
  BY <1>2, <1>3, SeqIsListed

LEMMA OneIs ==
    ASSUME NEW e
    PROVE  /\ Listed(<<e>>) /\ Len(<<e>>) = 1 /\ <<e>>[1] = e
           /\ Listed(<<>>) /\ Len(<<>>) = 0
<1>1. <<e>> \in Seq({e}) /\ Len(<<e>>) = 1 /\ <<e>>[1] = e
  OBVIOUS
<1>2. <<>> \in Seq({e}) /\ Len(<<>>) = 0
  OBVIOUS
<1>3. QED
  BY <1>1, <1>2, SeqIsListed

LEMMA AppendIs ==
    ASSUME NEW x, Listed(x), NEW e
    PROVE  /\ Listed(Append(x, e)) /\ Len(Append(x, e)) = Len(x) + 1
           /\ \A i \in 1..Len(x) : Append(x, e)[i] = x[i]
           /\ Append(x, e)[Len(x) + 1] = e
<1>1. PICK S : x \in Seq(S)
  BY ListedIs
<1> DEFINE T == S \cup {e}
<1>2. x \in Seq(T) /\ e \in T
  <2>1. x \in [1..Len(x) -> S]
    BY <1>1
  <2>2. x \in [1..Len(x) -> T]
    BY <2>1
  <2>3. QED
    BY <2>2, ListedIs
<1> HIDE DEF T
<1>3. Append(x, e) \in Seq(T) /\ Len(Append(x, e)) = Len(x) + 1
  BY <1>2
<1>4. (\A i \in 1..Len(x) : Append(x, e)[i] = x[i]) /\ Append(x, e)[Len(x) + 1] = e
  BY <1>2
<1>5. QED
  BY <1>3, <1>4, SeqIsListed

-----------------------------------------------------------------------------
(* What the steps of the renderer do to a record.                          *)

\* p differs from q at most in fields the invariant does not look at.
Alike(q, p) ==
    /\ DOMAIN p = Fields /\ DOMAIN p.block = BlockFields
    /\ p.shown = q.shown /\ p.painted = q.painted /\ p.tasks = q.tasks /\ p.plan = q.plan
    /\ p.mode = q.mode /\ p.hasText = q.hasText /\ p.text = q.text /\ p.hasBlock = q.hasBlock
    /\ p.block.writer = q.block.writer /\ p.block.sent = q.block.sent
    /\ p.block.line = q.block.line /\ p.block.done = q.block.done
    /\ q.mode # "tools" => p.block = q.block

\* What no step of the renderer does.
Later(q, p) ==
    /\ (q.refused => p.refused) /\ (q.cancelled => p.cancelled) /\ (p.thinking => q.thinking)
    /\ p.tasks = q.tasks /\ p.seen = q.seen /\ p.ids = q.ids

Fine(q, o, t, s) ==
    Inv(o.r, t, s) /\ Later(q, o.r) /\ (o.res = "ok" \/ ~Calm(o.r))

LEMMA AlikeInv ==
    ASSUME NEW q, NEW p, NEW t, NEW s, Inv(q, t, s), Alike(q, p), Calm(p) => Calm(q)
    PROVE  Inv(p, t, s)
<1>1. Shaped(p)
  BY DEF Inv, Shaped, Alike
<1>2. Sections(p)
  BY DEF Inv, Sections, Alike
<1>3. Placed(p)
  BY DEF Inv, Placed, Alike
<1>4. SentShown(p)
  BY DEF Inv, SentShown, Alike
<1>5. Streams(q) => Streams(p)
  BY DEF Streams, Alike
<1>6. QED
  BY <1>1, <1>2, <1>3, <1>4, <1>5 DEF Inv, Alike

LEMMA LaterCalm ==
    ASSUME NEW q, NEW p, Later(q, p)
    PROVE  Calm(p) => Calm(q)
  BY DEF Later, Calm

LEMMA LaterTrans ==
    ASSUME NEW q, NEW p, NEW u, Later(q, p), Later(p, u)
    PROVE  Later(q, u)
  BY DEF Later

LEMMA LaterSelf ==
    ASSUME NEW q
    PROVE  Later(q, q)
  BY DEF Later

LEMMA FineSelf ==
    ASSUME NEW q, NEW o, NEW t, NEW s, Inv(q, t, s), o.r = q, o.res = "ok"
    PROVE  Fine(q, o, t, s)
  BY LaterSelf DEF Fine

\* The fields of a result.
LEMMA ResultIs ==
    ASSUME NEW res, NEW q
    PROVE  Result(res, q).res = res /\ Result(res, q).r = q
  BY DEF Result

LEMMA OkIs ==
    ASSUME NEW q, NEW o, o \in Ok(q)
    PROVE  o.res = "ok" /\ o.r = q
  BY ResultIs DEF Ok

\* A call is served, or the turn is disturbed.
LEMMA ServeIs ==
    ASSUME NEW q, NEW t, NEW s, Inv(q, t, s), NEW o, o \in Serve(q)
    PROVE  /\ Fine(q, o, t, s) /\ Alike(q, o.r)
           /\ o.res \in {"ok", "err"} /\ (o.res = "ok" => o.r = q)
<1>1. DOMAIN q = Fields /\ DOMAIN q.block = BlockFields
  BY DEF Inv, Shaped
<1>2. o = Result("ok", q) \/ (o = Result("err", q) /\ q.cancelled)
      \/ o = Result("err", [q EXCEPT !.faults = @ - 1, !.refused = TRUE])
      \/ o = Result("err", [q EXCEPT !.cancelled = TRUE])
  BY Zenon DEF Serve, Ok
<1>3. CASE o = Result("ok", q)
  <2>1. o.res = "ok" /\ o.r = q
    BY <1>3, ResultIs
  <2>2. Alike(q, q)
    BY <1>1 DEF Alike
  <2>3. QED
    BY <2>1, <2>2, FineSelf
<1>4. CASE o = Result("err", q) /\ q.cancelled
  <2>1. o.res = "err" /\ o.r = q
    BY <1>4, ResultIs
  <2>2. Alike(q, q)
    BY <1>1 DEF Alike
  <2>3. QED
    BY <1>4, <2>1, <2>2, LaterSelf DEF Fine, Calm
<1>5. CASE o = Result("err", [q EXCEPT !.faults = @ - 1, !.refused = TRUE])
  <2> DEFINE p == [q EXCEPT !.faults = @ - 1, !.refused = TRUE]
  <2>1. o.res = "err" /\ o.r = p
    BY <1>5, ResultIs
  <2>2. Alike(q, p) /\ Later(q, p) /\ p.refused
    BY <1>1 DEF Alike, Later, Fields
  <2> HIDE DEF p
  <2>3. Inv(p, t, s)
    BY <2>2, AlikeInv, LaterCalm
  <2>4. QED
    BY <2>1, <2>2, <2>3 DEF Fine, Calm
<1>6. CASE o = Result("err", [q EXCEPT !.cancelled = TRUE])
  <2> DEFINE p == [q EXCEPT !.cancelled = TRUE]
  <2>1. o.res = "err" /\ o.r = p
    BY <1>6, ResultIs
  <2>2. Alike(q, p) /\ Later(q, p) /\ p.cancelled
    BY <1>1 DEF Alike, Later, Fields
  <2> HIDE DEF p
  <2>3. Inv(p, t, s)
    BY <2>2, AlikeInv, LaterCalm
  <2>4. QED
    BY <2>1, <2>2, <2>3 DEF Fine, Calm
<1>7. QED
  BY <1>2, <1>3, <1>4, <1>5, <1>6

\* p has the sections of q.
SameSections(q, p) ==
    /\ DOMAIN p = Fields /\ p.tasks = q.tasks /\ p.plan = q.plan
    /\ p.mode = q.mode /\ p.hasText = q.hasText /\ p.hasBlock = q.hasBlock

\* y is x with the items painted below it, on message n.
Grown(x, y, n, items) ==
    /\ Listed(y) /\ Len(y) = Len(x) + Len(items)
    /\ \A i \in 1..Len(x) : y[i] = x[i]
    /\ \A i \in 1..Len(items) : y[Len(x) + i].item = items[i] /\ y[Len(x) + i].msg = n

LEMMA GrownIs ==
    ASSUME NEW x, Listed(x), NEW items, Listed(items), NEW n, NEW y, Grown(x, y, n, items)
    PROVE  /\ Len(x) \in Nat /\ Len(items) \in Nat /\ Len(y) \in Nat
           /\ \A i \in 1..Len(x) : i \in 1..Len(y) /\ y[i] = x[i]
           /\ \A i \in 1..Len(y) :
                \/ i \in 1..Len(x)
                \/ /\ i - Len(x) \in 1..Len(items) /\ i > Len(x)
                   /\ y[i].item = items[i - Len(x)] /\ y[i].msg = n
<1>1. Len(x) \in Nat /\ Len(items) \in Nat
  BY DEF Listed
<1>2. Len(y) = Len(x) + Len(items) /\ \A i \in 1..Len(x) : y[i] = x[i]
  BY DEF Grown
<1>3. \A i \in 1..Len(items) : y[Len(x) + i].item = items[i] /\ y[Len(x) + i].msg = n
  BY DEF Grown
<1>4. ASSUME NEW i \in 1..Len(y), i \notin 1..Len(x)
      PROVE  /\ i - Len(x) \in 1..Len(items) /\ i > Len(x)
             /\ y[i].item = items[i - Len(x)] /\ y[i].msg = n
  <2>1. i - Len(x) \in 1..Len(items) /\ i > Len(x) /\ Len(x) + (i - Len(x)) = i
    BY <1>1, <1>2, <1>4
  <2>2. QED
    BY <1>3, <2>1
<1>5. QED
  BY <1>1, <1>2, <1>4

LEMMA PaintingIs ==
    ASSUME NEW q, DOMAIN q = Fields, Listed(q.painted), NEW n, NEW items, Listed(items)
    PROVE  /\ SameSections(q, Painting(q, n, items)) /\ Later(q, Painting(q, n, items))
           /\ Painting(q, n, items).text = q.text /\ Painting(q, n, items).block = q.block
           /\ Painting(q, n, items).shown = q.shown
           /\ Calm(q) => Calm(Painting(q, n, items))
           /\ Grown(q.painted, Painting(q, n, items).painted, n, items)
<1> DEFINE y == [i \in DOMAIN items |-> [item |-> items[i], msg |-> n]]
           p == [q EXCEPT !.painted = @ \o y]
<1>1. p.painted = q.painted \o y
  BY DEF Fields
<1>2. SameSections(q, p) /\ p.text = q.text /\ p.block = q.block /\ p.shown = q.shown
  BY DEF Fields, SameSections
<1>3. Later(q, p) /\ (Calm(q) => Calm(p))
  BY DEF Fields, Later, Calm
<1>4. Listed(y) /\ Len(y) = Len(items)
      /\ \A i \in 1..Len(items) : y[i].item = items[i] /\ y[i].msg = n
  <2>1. DOMAIN items = 1..Len(items) /\ Len(items) \in Nat
    BY ListedIs
  <2>2. \A i \in 1..Len(items) : y[i].item = items[i] /\ y[i].msg = n
    BY <2>1
  <2> DEFINE S == {y[i] : i \in 1..Len(items)}
  <2>3. y \in [1..Len(items) -> S]
    BY <2>1
  <2>4. y \in Seq(S) /\ Len(y) = Len(items)
    BY <2>1, <2>3
  <2>5. QED
    BY <2>2, <2>4, SeqIsListed
<1> HIDE DEF y
<1>5. Grown(q.painted, q.painted \o y, n, items)
  <2>1. Listed(q.painted) /\ Listed(y)
    BY <1>4
  <2>2. Joins(q.painted, y, q.painted \o y)
    BY <2>1, JoinsIs
  <2>3. QED
    BY <1>4, <2>2 DEF Joins, Grown
<1> HIDE DEF y
<1>6. p = Painting(q, n, items)
  BY DEF Painting, y
<1> HIDE DEF p
<1>7. QED
  BY <1>1, <1>2, <1>3, <1>5, <1>6

LEMMA GrownByNothing ==
    ASSUME NEW x, Listed(x), NEW n, NEW y, Grown(x, y, n, <<>>)
    PROVE  y = x
<1>1. Len(<<>>) = 0 /\ Len(x) \in Nat
  BY DEF Listed
<1>2. Len(y) = Len(x) /\ \A i \in 1..Len(x) : y[i] = x[i]
  BY <1>1 DEF Grown
<1>3. y = [i \in 1..Len(x) |-> y[i]] /\ x = [i \in 1..Len(x) |-> x[i]]
  BY <1>2 DEF Grown, Listed
<1>4. QED
  BY <1>2, <1>3

LEMMA ShownIs ==
    ASSUME NEW x \in Seq(Messages), NEW k \in Kinds
    PROVE  LET y == Append(x, [kind |-> k, open |-> TRUE]) IN
           /\ y \in Seq(Messages) /\ Len(y) = Len(x) + 1
           /\ \A i \in 1..Len(x) : y[i] = x[i]
           /\ y[Len(x) + 1].kind = k
<1>1. [kind |-> k, open |-> TRUE] \in Messages
  BY DEF Messages
<1>2. QED
  BY <1>1

\* A new message of the reply.
LEMMA TextBegins ==
    ASSUME NEW q, NEW p, NEW t, NEW s, Inv(q, t, s), q.mode = "text", q.text.msg = 0,
           SameSections(q, p), p.painted = q.painted, p.block = q.block,
           Calm(p) => Calm(q),
           p.shown = Append(q.shown, [kind |-> "text", open |-> TRUE]),
           DOMAIN p.text = WriterFields, p.text.pending = q.text.pending,
           p.text.stopped = q.text.stopped, p.text.msg = Len(q.shown) + 1
    PROVE  Inv(p, t, s)
<1>1. /\ p.shown \in Seq(Messages) /\ Len(p.shown) = Len(q.shown) + 1 /\ Len(q.shown) \in Nat
      /\ \A i \in 1..Len(q.shown) : p.shown[i] = q.shown[i]
      /\ p.shown[Len(q.shown) + 1].kind = "text"
  <2>1. q.shown \in Seq(Messages) /\ "text" \in Kinds
    BY DEF Inv, Shaped, Kinds
  <2>2. QED
    BY <2>1, ShownIs
<1>2. Shaped(p)
  BY <1>1 DEF Inv, Shaped, SameSections
<1>3. Sections(p)
  BY <1>1 DEF Inv, Sections, SameSections
<1>4. q.block = NoBlock /\ ~q.text.stopped
  BY DEF Inv, Sections
<1>5. Placed(p)
  BY <1>1, <1>4 DEF Inv, Placed, NoBlock, NoWriter
<1>6. SentShown(p)
  BY DEF Inv, SentShown
<1>7. Streams(q) => Streams(p)
  BY <1>1, <1>4 DEF Streams, NoBlock, NoWriter
<1>8. QED
  BY <1>2, <1>3, <1>5, <1>6, <1>7 DEF Inv, SameSections

\* A new message of the block.
LEMMA BlockBegins ==
    ASSUME NEW q, NEW p, NEW t, NEW s, Inv(q, t, s), q.mode = "tools", q.tasks,
           q.block.writer.msg = 0,
           SameSections(q, p), p.painted = q.painted, p.text = q.text,
           Calm(p) => Calm(q),
           p.shown = Append(q.shown, [kind |-> "block", open |-> TRUE]),
           DOMAIN p.block = BlockFields, DOMAIN p.block.writer = WriterFields,
           p.block.sent = q.block.sent, p.block.line = q.block.line, p.block.done = q.block.done,
           p.block.writer.pending = q.block.writer.pending,
           p.block.writer.stopped = q.block.writer.stopped,
           p.block.writer.msg = Len(q.shown) + 1
    PROVE  Inv(p, t, s)
<1>1. /\ p.shown \in Seq(Messages) /\ Len(p.shown) = Len(q.shown) + 1 /\ Len(q.shown) \in Nat
      /\ \A i \in 1..Len(q.shown) : p.shown[i] = q.shown[i]
      /\ p.shown[Len(q.shown) + 1].kind = "block"
  <2>1. q.shown \in Seq(Messages) /\ "block" \in Kinds
    BY DEF Inv, Shaped, Kinds
  <2>2. QED
    BY <2>1, ShownIs
<1>2. Shaped(p)
  BY <1>1 DEF Inv, Shaped, SameSections
<1>3. Sections(p)
  BY <1>1 DEF Inv, Sections, SameSections
<1>4. q.text = NoWriter /\ ~q.block.writer.stopped
  BY DEF Inv, Sections
<1>5. Placed(p)
  <2>1. q.text.msg = 0 /\ q.block.line \in 0..Len(q.shown)
        /\ (q.block.line # 0 => q.shown[q.block.line].kind = "line")
    BY <1>4 DEF Inv, Placed, NoWriter
  <2>2. \A i \in 1..Len(q.painted) : q.painted[i].msg \in 1..Len(q.shown)
    BY DEF Inv, Placed
  <2>3. \A i, j \in 1..Len(q.painted) : i < j => q.painted[i].msg <= q.painted[j].msg
    BY DEF Inv, Placed
  <2>4. QED
    BY <1>1, <2>1, <2>2, <2>3 DEF Placed
<1>6. SentShown(p)
  BY DEF Inv, SentShown
<1>7. Streams(q) => Streams(p)
  BY <1>1, <1>4 DEF Streams, NoWriter
<1>8. QED
  BY <1>2, <1>3, <1>5, <1>6, <1>7 DEF Inv, SameSections

\* The line is posted.
LEMMA LineBegins ==
    ASSUME NEW q, NEW p, NEW t, NEW s, Inv(q, t, s), q.mode = "tools", ~q.tasks,
           q.block.line = 0, ~q.block.done,
           SameSections(q, p), p.painted = q.painted, p.text = q.text,
           Calm(p) => Calm(q),
           p.shown = Append(q.shown, [kind |-> "line", open |-> TRUE]),
           DOMAIN p.block = BlockFields,
           p.block.sent = q.block.sent, p.block.done = q.block.done,
           p.block.writer = q.block.writer, p.block.line = Len(q.shown) + 1
    PROVE  Inv(p, t, s)
<1>1. /\ p.shown \in Seq(Messages) /\ Len(p.shown) = Len(q.shown) + 1 /\ Len(q.shown) \in Nat
      /\ \A i \in 1..Len(q.shown) : p.shown[i] = q.shown[i]
      /\ p.shown[Len(q.shown) + 1].kind = "line"
  <2>1. q.shown \in Seq(Messages) /\ "line" \in Kinds
    BY DEF Inv, Shaped, Kinds
  <2>2. QED
    BY <2>1, ShownIs
<1>2. Shaped(p)
  BY <1>1 DEF Inv, Shaped, SameSections
<1>3. Sections(p)
  BY <1>1 DEF Inv, Sections, SameSections
<1>4. q.text = NoWriter /\ q.block.writer = NoWriter
  BY DEF Inv, Sections
<1>5. Placed(p)
  BY <1>1, <1>4 DEF Inv, Placed, NoWriter
<1>6. SentShown(p)
  BY DEF Inv, SentShown
<1>7. Streams(q) => Streams(p)
  BY <1>1, <1>4 DEF Streams, NoWriter
<1>8. QED
  BY <1>2, <1>3, <1>5, <1>6, <1>7 DEF Inv, SameSections

\* What was told only grows.
Extends(t, u) ==
    /\ Len(t) \in Nat /\ Len(u) \in Nat /\ Len(t) <= Len(u) /\ Numbered(u)
    /\ \A a \in 1..Len(t) : u[a] = t[a]

LEMMA InOrderExtends ==
    ASSUME NEW p, NEW pending, NEW t, NEW u, InOrder(p, pending, t), Extends(t, u)
    PROVE  InOrder(p, pending, u)
<1>1. ASSUME NEW x, ToldAtom(x, t)
      PROVE  ToldAtom(x, u)
  BY <1>1 DEF ToldAtom, Extends
<1>2. QED
  BY <1>1 DEF InOrder

\* Of a turn that was disturbed only the order matters.
LEMMA DisturbedExtends ==
    ASSUME NEW q, NEW t, NEW u, NEW s, NEW v, Inv(q, t, s), ~Calm(q), Extends(t, u)
    PROVE  Inv(q, u, v)
  BY InOrderExtends DEF Inv, Extends

\* A message is settled: finalized by Slack, or stopped by its writer.
Sealed(x, y, n) ==
    /\ y \in Seq(Messages) /\ Len(y) = Len(x)
    /\ \A i \in 1..Len(x) : y[i].kind = x[i].kind /\ (y[i].open => i # n /\ x[i].open)

LEMMA SealIs ==
    ASSUME NEW x \in Seq(Messages), NEW n \in 1..Len(x)
    PROVE  Sealed(x, [x EXCEPT ![n].open = FALSE], n)
<1> DEFINE y == [x EXCEPT ![n].open = FALSE]
<1>1. \A i \in 1..Len(x) : x[i] \in Messages
  OBVIOUS
<1>2. \A i \in 1..Len(x) : y[i] = IF i = n THEN [x[n] EXCEPT !.open = FALSE] ELSE x[i]
  OBVIOUS
<1>3. [x[n] EXCEPT !.open = FALSE] \in Messages
  BY <1>1 DEF Messages
<1>4. y \in [1..Len(x) -> Messages] /\ Len(x) \in Nat
  <2>1. DOMAIN y = DOMAIN x /\ y = [i \in DOMAIN y |-> y[i]]
    BY Zenon
  <2>0. DOMAIN x = 1..Len(x) /\ Len(x) \in Nat
    OBVIOUS
  <2> HIDE DEF y
  <2>2. QED
    BY <1>1, <1>2, <1>3, <2>0, <2>1
<1>5. \A i \in 1..Len(x) : y[i].kind = x[i].kind /\ (y[i].open => i # n /\ x[i].open)
  <2>1. [x[n] EXCEPT !.open = FALSE].kind = x[n].kind /\ ~[x[n] EXCEPT !.open = FALSE].open
    BY <1>1 DEF Messages
  <2> HIDE DEF y
  <2>2. QED
    BY <1>2, <2>1
<1> HIDE DEF y
<1>6. y \in Seq(Messages) /\ Len(y) = Len(x)
  BY <1>4
<1>7. QED
  BY <1>5, <1>6 DEF Sealed, y

LEMMA PlacedSame ==
    ASSUME NEW q, NEW p, Placed(q), Len(p.shown) = Len(q.shown), Len(q.shown) \in Nat,
           \A i \in 1..Len(q.shown) : p.shown[i].kind = q.shown[i].kind,
           p.text.msg = q.text.msg, p.block.line = q.block.line,
           p.block.writer.msg = q.block.writer.msg, p.painted = q.painted
    PROVE  Placed(p)
<1>0. ASSUME NEW n \in 0..Len(q.shown), n # 0
      PROVE  p.shown[n].kind = q.shown[n].kind
  BY <1>0
<1>1. /\ p.text.msg \in 0..Len(p.shown)
      /\ p.block.writer.msg \in 0..Len(p.shown)
      /\ p.block.line \in 0..Len(p.shown)
  BY DEF Placed
<1>2. /\ p.text.msg # 0 => p.text.msg = Len(p.shown) /\ p.shown[p.text.msg].kind = "text"
      /\ p.block.writer.msg # 0 => p.shown[p.block.writer.msg].kind = "block"
      /\ p.block.line # 0 => p.shown[p.block.line].kind = "line"
  <2>1. /\ q.text.msg \in 0..Len(q.shown) /\ q.block.writer.msg \in 0..Len(q.shown)
        /\ q.block.line \in 0..Len(q.shown)
        /\ q.text.msg # 0 => q.text.msg = Len(q.shown) /\ q.shown[q.text.msg].kind = "text"
        /\ q.block.writer.msg # 0 => q.shown[q.block.writer.msg].kind = "block"
        /\ q.block.line # 0 => q.shown[q.block.line].kind = "line"
    BY DEF Placed
  <2>2. QED
    BY <1>0, <2>1
<1>3. \A i \in 1..Len(p.painted) :
         /\ p.painted[i].msg \in 1..Len(p.shown)
         /\ p.block.writer.msg # 0 => p.painted[i].msg <= p.block.writer.msg
  BY DEF Placed
<1>4. \A i, j \in 1..Len(p.painted) : i < j => p.painted[i].msg <= p.painted[j].msg
  BY DEF Placed
<1>5. QED
  BY <1>1, <1>2, <1>3, <1>4 DEF Placed

LEMMA SealedInv ==
    ASSUME NEW q, NEW p, NEW t, NEW s, Inv(q, t, s), NEW n,
           SameSections(q, p), p.painted = q.painted, p.text = q.text, p.block = q.block,
           Calm(p) => Calm(q), Sealed(q.shown, p.shown, n)
    PROVE  Inv(p, t, s)
<1>1. Shaped(p) /\ Sections(p) /\ SentShown(p)
  BY DEF Inv, Shaped, Sections, SentShown, SameSections, Sealed
<1>2. Placed(p)
  <2>1. Len(p.shown) = Len(q.shown) /\ Len(q.shown) \in Nat
    BY DEF Inv, Shaped, Sealed
  <2>2. \A i \in 1..Len(q.shown) : p.shown[i].kind = q.shown[i].kind
    BY DEF Sealed
  <2>3. /\ p.text.msg = q.text.msg /\ p.block.line = q.block.line
        /\ p.block.writer.msg = q.block.writer.msg /\ p.painted = q.painted
    OBVIOUS
  <2>4. Placed(q)
    BY DEF Inv
  <2>5. QED
    BY <2>1, <2>2, <2>3, <2>4, PlacedSame
<1>3. Streams(q) => Streams(p)
  BY DEF Streams, Sealed
<1>4. QED
  BY <1>1, <1>2, <1>3 DEF Inv, SameSections

\* The writer of the reply has stopped, and its message is settled.
LEMMA TextEnds ==
    ASSUME NEW q, NEW p, NEW t, NEW s, Inv(q, t, s), q.mode = "text", q.text.msg # 0,
           SameSections(q, p), p.painted = q.painted, p.block = q.block,
           Calm(p) => Calm(q), Sealed(q.shown, p.shown, q.text.msg),
           DOMAIN p.text = WriterFields, p.text.pending = q.text.pending,
           p.text.msg = q.text.msg
    PROVE  Inv(p, t, s)
<1>1. Shaped(p) /\ Sections(p) /\ SentShown(p)
  BY DEF Inv, Shaped, Sections, SentShown, SameSections, Sealed
<1>2. Placed(p)
  <2>1. Len(p.shown) = Len(q.shown) /\ Len(q.shown) \in Nat
    BY DEF Inv, Shaped, Sealed
  <2>2. \A i \in 1..Len(q.shown) : p.shown[i].kind = q.shown[i].kind
    BY DEF Sealed
  <2>3. /\ p.text.msg = q.text.msg /\ p.block.line = q.block.line
        /\ p.block.writer.msg = q.block.writer.msg /\ p.painted = q.painted
    OBVIOUS
  <2>4. Placed(q)
    BY DEF Inv
  <2>5. QED
    BY <2>1, <2>2, <2>3, <2>4, PlacedSame
<1>3. Streams(q) => Streams(p)
  BY DEF Streams, Sealed
<1>4. QED
  BY <1>1, <1>2, <1>3 DEF Inv, SameSections

\* The writer of the block has stopped, and its message is settled.
LEMMA BlockEnds ==
    ASSUME NEW q, NEW p, NEW t, NEW s, Inv(q, t, s), q.mode = "tools", q.block.writer.msg # 0,
           SameSections(q, p), p.painted = q.painted, p.text = q.text,
           Calm(p) => Calm(q), Sealed(q.shown, p.shown, q.block.writer.msg),
           DOMAIN p.block = BlockFields, DOMAIN p.block.writer = WriterFields,
           p.block.sent = q.block.sent, p.block.line = q.block.line, p.block.done = q.block.done,
           p.block.writer.pending = q.block.writer.pending,
           p.block.writer.msg = q.block.writer.msg
    PROVE  Inv(p, t, s)
<1>1. Shaped(p) /\ SentShown(p)
  BY DEF Inv, Shaped, SentShown, SameSections, Sealed
<1>2. Sections(p)
  BY DEF Inv, Sections, SameSections, NoWriter
<1>3. Placed(p)
  <2>1. Len(p.shown) = Len(q.shown) /\ Len(q.shown) \in Nat
    BY DEF Inv, Shaped, Sealed
  <2>2. \A i \in 1..Len(q.shown) : p.shown[i].kind = q.shown[i].kind
    BY DEF Sealed
  <2>3. /\ p.text.msg = q.text.msg /\ p.block.line = q.block.line
        /\ p.block.writer.msg = q.block.writer.msg /\ p.painted = q.painted
    OBVIOUS
  <2>4. Placed(q)
    BY DEF Inv
  <2>5. QED
    BY <2>1, <2>2, <2>3, <2>4, PlacedSame
<1>4. Streams(q) => Streams(p)
  BY DEF Streams, Sealed
<1>5. QED
  BY <1>1, <1>2, <1>3, <1>4 DEF Inv, SameSections

\* The line is resolved.
LEMMA LineEnds ==
    ASSUME NEW q, NEW p, NEW t, NEW s, Inv(q, t, s), q.mode = "tools",
           SameSections(q, p), p.painted = q.painted, p.text = q.text,
           Calm(p) => Calm(q),
           Sealed(q.shown, p.shown, q.block.line) \/ (q.block.line = 0 /\ p.shown = q.shown),
           DOMAIN p.block = BlockFields,
           p.block.sent = q.block.sent, p.block.line = q.block.line,
           p.block.writer = q.block.writer
    PROVE  Inv(p, t, s)
<1>1. /\ p.shown \in Seq(Messages) /\ Len(p.shown) = Len(q.shown) /\ Len(q.shown) \in Nat
      /\ \A i \in 1..Len(q.shown) : /\ p.shown[i].kind = q.shown[i].kind
                                    /\ p.shown[i].open => i # q.block.line /\ q.shown[i].open
  BY DEF Inv, Shaped, Sealed
<1>2. Shaped(p) /\ SentShown(p)
  BY <1>1 DEF Inv, Shaped, SentShown, SameSections
<1>3. Sections(p)
  BY DEF Inv, Sections, SameSections
<1>4. Placed(p)
  <2>1. /\ p.text.msg = q.text.msg /\ p.block.line = q.block.line
        /\ p.block.writer.msg = q.block.writer.msg /\ p.painted = q.painted
    OBVIOUS
  <2>2. Placed(q)
    BY DEF Inv
  <2>3. QED
    BY <1>1, <2>1, <2>2, PlacedSame
<1>5. Streams(q) => Streams(p)
  BY <1>1 DEF Streams
<1>6. QED
  BY <1>2, <1>3, <1>4, <1>5 DEF Inv, SameSections

\* A question or a file, between two sections or below a block.
LEMMA Posted ==
    ASSUME NEW q, NEW p, NEW t, NEW s, Inv(q, t, s), q.mode # "text", NEW k \in {"ask", "file"},
           SameSections(q, p), p.painted = q.painted, p.text = q.text, p.block = q.block,
           Calm(p) => Calm(q),
           p.shown = Append(q.shown, [kind |-> k, open |-> FALSE])
    PROVE  Inv(p, t, s)
<1>1. /\ p.shown \in Seq(Messages) /\ Len(p.shown) = Len(q.shown) + 1 /\ Len(q.shown) \in Nat
      /\ \A i \in 1..Len(q.shown) : p.shown[i] = q.shown[i]
      /\ ~p.shown[Len(q.shown) + 1].open
  <2>1. q.shown \in Seq(Messages) /\ [kind |-> k, open |-> FALSE] \in Messages
    BY DEF Inv, Shaped, Messages, Kinds
  <2>2. QED
    BY <2>1
<1>2. Shaped(p) /\ SentShown(p)
  BY <1>1 DEF Inv, Shaped, SentShown, SameSections
<1>3. Sections(p)
  BY DEF Inv, Sections, SameSections
<1>4. Placed(p)
  <2>1. q.text.msg = 0
    BY DEF Inv, Sections, NoWriter
  <2>2. QED
    BY <1>1, <2>1 DEF Inv, Placed
<1>5. Streams(q) => Streams(p)
  BY <1>1 DEF Streams
<1>6. QED
  BY <1>2, <1>3, <1>4, <1>5 DEF Inv, SameSections

\* The section of the reply is closed: nothing is pending, its message is settled.
LEMMA TextForgotten ==
    ASSUME NEW q, NEW p, NEW t, NEW s, Inv(q, t, s), q.mode = "text",
           DOMAIN p = Fields, p.tasks = q.tasks, p.plan = q.plan, p.mode = "none",
           ~p.hasText, p.hasBlock = q.hasBlock, p.shown = q.shown,
           p.painted = q.painted, p.text = NoWriter, p.block = q.block,
           Calm(p) => Calm(q) /\ q.text.pending = <<>> /\ (q.text.msg = 0 \/ q.text.stopped)
    PROVE  Inv(p, t, s)
<1>1. Listed(<<>>) /\ DOMAIN NoWriter = WriterFields /\ NoWriter.msg = 0
      /\ NoWriter.pending = <<>> /\ ~NoWriter.stopped /\ Len(<<>>) = 0
  BY OneIs DEF NoWriter, WriterFields
<1>2. Shaped(p) /\ SentShown(p)
  BY <1>1 DEF Inv, Shaped, SentShown
<1>3. Sections(p)
  BY <1>1 DEF Inv, Sections
<1>4. Placed(p)
  BY <1>1, <1>2 DEF Inv, Placed, Shaped
<1>5. ASSUME Calm(p) PROVE Streams(p)
  BY <1>1, <1>5 DEF Inv, Streams
<1>6. InOrder(p.painted, p.text.pending, t)
  BY <1>1 DEF Inv, InOrder
<1>7. QED
  BY <1>1, <1>2, <1>3, <1>4, <1>5, <1>6 DEF Inv

\* The block is closed: no card of it spins, its message is settled.
LEMMA BlockForgotten ==
    ASSUME NEW q, NEW p, NEW t, NEW s, NEW v, Inv(q, t, s), q.mode = "tools",
           DOMAIN p = Fields, p.tasks = q.tasks, p.plan = q.plan, p.mode = "none",
           p.hasText = q.hasText, ~p.hasBlock, p.shown = q.shown,
           p.painted = q.painted, p.text = q.text, p.block = NoBlock,
           Calm(p) => /\ Calm(q) /\ (q.block.writer.msg = 0 \/ q.block.writer.stopped)
                      /\ (q.block.line = 0 \/ q.block.done) /\ SpinsOnly(q.painted, v)
    PROVE  Inv(p, t, v)
<1>1. /\ DOMAIN NoWriter = WriterFields /\ NoWriter.msg = 0
      /\ NoWriter.pending = <<>> /\ ~NoWriter.stopped
  BY DEF NoWriter, WriterFields
<1>2. /\ DOMAIN NoBlock = BlockFields /\ NoBlock.writer = NoWriter /\ NoBlock.line = 0
      /\ NoBlock.sent = {}
  BY DEF NoBlock, BlockFields
<1>3. Shaped(p) /\ SentShown(p)
  BY <1>1, <1>2 DEF Inv, Shaped, SentShown
<1>4. Sections(p)
  BY <1>1, <1>2 DEF Inv, Sections
<1>5. Placed(p)
  BY <1>1, <1>2, <1>3 DEF Inv, Placed, Shaped
<1>6. ASSUME Calm(p) PROVE Streams(p)
  BY <1>1, <1>2, <1>6 DEF Inv, Streams
<1>7. QED
  BY <1>3, <1>4, <1>5, <1>6 DEF Inv

\* A section is opened.
LEMMA SectionBegins ==
    ASSUME NEW q, NEW p, NEW t, NEW s, Inv(q, t, s), q.mode = "none",
           DOMAIN p = Fields, p.tasks = q.tasks, p.plan = q.plan,
           p.mode \in {"text", "tools"}, p.hasText <=> p.mode = "text",
           p.hasBlock <=> p.mode = "tools",
           p.shown = q.shown, p.painted = q.painted, p.text = NoWriter, p.block = NoBlock,
           Calm(p) => Calm(q)
    PROVE  Inv(p, t, s)
<1>1. q.text = NoWriter /\ q.block = NoBlock
  BY DEF Inv, Sections
<1>2. Shaped(p) /\ SentShown(p)
  BY <1>1 DEF Inv, Shaped, SentShown
<1>3. Sections(p)
  BY <1>1 DEF Inv, Sections
<1>4. Placed(p)
  BY <1>1 DEF Inv, Placed
<1>5. Streams(q) => Streams(p)
  BY <1>1 DEF Streams
<1>6. QED
  BY <1>1, <1>2, <1>3, <1>4, <1>5 DEF Inv

LEMMA PiecesAre ==
    ASSUME NEW x, Listed(x)
    PROVE  /\ Listed(Pieces(x)) /\ Len(Pieces(x)) = Len(x)
           /\ \A i \in 1..Len(x) : Pieces(x)[i].k = "text" /\ Pieces(x)[i].id = x[i].id
<1>1. DOMAIN x = 1..Len(x) /\ Len(x) \in Nat
  BY ListedIs
<1>2. \A i \in 1..Len(x) : Pieces(x)[i].k = "text" /\ Pieces(x)[i].id = x[i].id
  BY <1>1 DEF Pieces, Item
<1> DEFINE S == {Pieces(x)[i] : i \in 1..Len(x)}
<1>3. Pieces(x) \in [1..Len(x) -> S]
  BY <1>1 DEF Pieces
<1>4. Pieces(x) \in Seq(S) /\ Len(Pieces(x)) = Len(x)
  BY <1>1, <1>3
<1>5. QED
  BY <1>2, <1>4, SeqIsListed

\* y is x with the first n atoms of a painted below it, and b the others.
Painted(x, y, a, b, n) ==
    /\ Len(x) \in Nat /\ Len(y) = Len(x) + n /\ Len(a) \in Nat /\ n \in 0..Len(a)
    /\ Len(b) = Len(a) - n
    /\ \A i \in 1..Len(b) : n + i \in 1..Len(a) /\ b[i] = a[n + i]
    /\ \A i \in 1..Len(x) : i \in 1..Len(y) /\ y[i] = x[i]
    /\ \A i \in 1..Len(y) :
         \/ i \in 1..Len(x)
         \/ /\ i - Len(x) \in 1..n /\ i > Len(x)
            /\ y[i].item.k = "text" /\ y[i].item.id = a[i - Len(x)].id
    /\ \A i \in 1..n : Len(x) + i \in 1..Len(y) /\ i \in 1..Len(a)
                       /\ y[Len(x) + i].item.k = "text" /\ y[Len(x) + i].item.id = a[i].id

LEMMA PaintedIs ==
    ASSUME NEW x, Listed(x), NEW a, Listed(a), NEW n \in 0..Len(a), NEW m, NEW y,
           Grown(x, y, m, Pieces(SubSeq(a, 1, n)))
    PROVE  Painted(x, y, a, SubSeq(a, n + 1, Len(a)), n)
<1> DEFINE c == SubSeq(a, 1, n)
           b == SubSeq(a, n + 1, Len(a))
<1>1. /\ Listed(c) /\ Len(c) = n
      /\ \A i \in 1..n : c[i] = a[i]
  BY PrefixIs
<1>0. Grown(x, y, m, Pieces(c))
  OBVIOUS
<1> HIDE DEF c
<1> DEFINE items == Pieces(c)
<1>2. /\ Listed(items) /\ Len(items) = n
      /\ \A i \in 1..n : items[i].k = "text" /\ items[i].id = a[i].id
  BY <1>1, PiecesAre
<1>3. /\ Len(b) = Len(a) - n
      /\ \A i \in 1..(Len(a) - n) : b[i] = a[n + i]
  BY RestIs
<1>4. Len(a) \in Nat /\ Len(x) \in Nat
  BY DEF Listed
<1>5. Grown(x, y, m, items)
  BY <1>0
<1> HIDE DEF items, b
<1>6. /\ \A i \in 1..Len(x) : i \in 1..Len(y) /\ y[i] = x[i]
      /\ \A i \in 1..Len(y) :
           \/ i \in 1..Len(x)
           \/ i - Len(x) \in 1..n /\ i > Len(x) /\ y[i].item = items[i - Len(x)]
  BY <1>2, <1>5, GrownIs
<1>7. Len(y) = Len(x) + n /\ \A i \in 1..n : y[Len(x) + i].item = items[i]
  BY <1>2, <1>5 DEF Grown
<1>8. \A i \in 1..n : Len(x) + i \in 1..Len(y) /\ i \in 1..Len(a)
  BY <1>4, <1>7
<1>9. \A i \in 1..Len(b) : n + i \in 1..Len(a) /\ b[i] = a[n + i]
  BY <1>3, <1>4
<1>10. \A i \in 1..Len(y) :
         \/ i \in 1..Len(x)
         \/ /\ i - Len(x) \in 1..n /\ i > Len(x)
            /\ y[i].item.k = "text" /\ y[i].item.id = a[i - Len(x)].id
  BY <1>2, <1>6
<1>11. \A i \in 1..n : y[Len(x) + i].item.k = "text" /\ y[Len(x) + i].item.id = a[i].id
  BY <1>2, <1>7
<1>12. Painted(x, y, a, b, n)
  BY <1>3, <1>4, <1>6, <1>7, <1>8, <1>9, <1>10, <1>11, Zenon DEF Painted
<1>13. QED
  BY <1>12 DEF b

LEMMA PaintedInOrder ==
    ASSUME NEW x, NEW y, NEW a, NEW b, NEW n, NEW t, Painted(x, y, a, b, n), InOrder(x, a, t)
    PROVE  InOrder(y, b, t)
<1>01. Len(x) \in Nat /\ Len(a) \in Nat /\ Len(y) \in Nat /\ n \in 0..Len(a) /\ Len(b) = Len(a) - n
  BY DEF Painted
<1>02. \A i \in 1..Len(x) : i \in 1..Len(y) /\ y[i] = x[i]
  BY DEF Painted
<1>03. \A i \in 1..Len(y) :
         \/ i \in 1..Len(x)
         \/ /\ i - Len(x) \in 1..Len(a) /\ i > Len(x) /\ i - Len(x) <= n
            /\ y[i].item.k = "text" /\ y[i].item.id = a[i - Len(x)].id
  BY <1>01 DEF Painted
<1>04. \A i \in 1..Len(b) : n + i \in 1..Len(a) /\ b[i] = a[n + i]
  BY DEF Painted
<1>1. \A i \in 1..Len(y) : y[i].item.k = "text" => ToldAtom(y[i].item, t)
  <2>1. \A i \in 1..Len(x) : x[i].item.k = "text" => ToldAtom(x[i].item, t)
    BY DEF InOrder
  <2>2. \A i \in 1..Len(a) : ToldAtom(a[i], t)
    BY DEF InOrder
  <2>3. ASSUME NEW i \in 1..Len(y), i \notin 1..Len(x) PROVE ToldAtom(y[i].item, t)
    BY <1>03, <2>2, <2>3 DEF ToldAtom
  <2>4. QED
    BY <1>02, <2>1, <2>3
<1>2. \A i \in 1..Len(b) : ToldAtom(b[i], t)
  BY DEF Painted, InOrder
<1>3. \A i, j \in 1..Len(y) : i < j /\ IsText(y, i) /\ IsText(y, j) => y[i].item.id < y[j].item.id
  <2> SUFFICES ASSUME NEW i \in 1..Len(y), NEW j \in 1..Len(y), i < j, IsText(y, i), IsText(y, j)
               PROVE  y[i].item.id < y[j].item.id
    OBVIOUS
  <2>1. CASE j \in 1..Len(x)
    <3>1. i \in 1..Len(x)
      BY <2>1
    <3>2. QED
      BY <2>1, <3>1 DEF Painted, InOrder, IsText
  <2>2. CASE j \notin 1..Len(x) /\ i \in 1..Len(x)
    <3>1. /\ j - Len(x) \in 1..Len(a) /\ y[j].item.id = a[j - Len(x)].id /\ y[i] = x[i]
      BY <1>02, <1>03, <2>2
    <3>2. QED
      BY <2>2, <3>1 DEF InOrder, IsText
  <2>3. CASE j \notin 1..Len(x) /\ i \notin 1..Len(x)
    <3>1. /\ i - Len(x) \in 1..Len(a) /\ j - Len(x) \in 1..Len(a) /\ i - Len(x) < j - Len(x)
          /\ y[i].item.id = a[i - Len(x)].id /\ y[j].item.id = a[j - Len(x)].id
      BY <2>3 DEF Painted
    <3>2. QED
      BY <3>1 DEF InOrder, IsText
  <2>4. QED
    BY <2>1, <2>2, <2>3
<1>4. \A i, j \in 1..Len(b) : i < j /\ b[i].id > 0 /\ b[j].id > 0 => b[i].id < b[j].id
  <2> SUFFICES ASSUME NEW i \in 1..Len(b), NEW j \in 1..Len(b), i < j, b[i].id > 0, b[j].id > 0
               PROVE  b[i].id < b[j].id
    OBVIOUS
  <2>1. /\ n + i \in 1..Len(a) /\ n + j \in 1..Len(a) /\ n + i < n + j
        /\ b[i] = a[n + i] /\ b[j] = a[n + j]
    BY <1>01, <1>04
  <2>2. QED
    BY <2>1 DEF InOrder
<1>5. \A i \in 1..Len(y), j \in 1..Len(b) : IsText(y, i) /\ b[j].id > 0 => y[i].item.id < b[j].id
  <2> SUFFICES ASSUME NEW i \in 1..Len(y), NEW j \in 1..Len(b), IsText(y, i), b[j].id > 0
               PROVE  y[i].item.id < b[j].id
    OBVIOUS
  <2>1. CASE i \in 1..Len(x)
    <3>1. y[i] = x[i]
      BY <1>02, <2>1
    <3>2. n + j \in 1..Len(a) /\ b[j] = a[n + j]
      BY <1>04
    <3>3. IsText(x, i) /\ a[n + j].id > 0
      BY <3>1, <3>2 DEF IsText
    <3>4. x[i].item.id < a[n + j].id
      BY <2>1, <3>2, <3>3 DEF InOrder
    <3>5. QED
      BY <3>1, <3>2, <3>4
  <2>2. CASE i \notin 1..Len(x)
    <3>1. /\ i - Len(x) \in 1..Len(a) /\ n + j \in 1..Len(a) /\ i - Len(x) < n + j
          /\ y[i].item.id = a[i - Len(x)].id /\ b[j].id = a[n + j].id
      <4>1. /\ i - Len(x) \in 1..Len(a) /\ i - Len(x) <= n /\ y[i].item.id = a[i - Len(x)].id
        BY <1>03, <2>2
      <4>2. n + j \in 1..Len(a) /\ b[j].id = a[n + j].id
        BY <1>04
      <4>3. i - Len(x) < n + j
        BY <1>01, <4>1
      <4>4. QED
        BY <4>1, <4>2, <4>3
    <3>2. QED
      BY <3>1 DEF InOrder, IsText
  <2>3. QED
    BY <2>1, <2>2
<1>6. QED
  BY <1>1, <1>2, <1>3, <1>4, <1>5 DEF InOrder

LEMMA PaintedDelivered ==
    ASSUME NEW x, NEW y, NEW a, NEW b, NEW n, NEW t, NEW tasks, Painted(x, y, a, b, n),
           Numbered(t), Len(t) \in Nat, InOrder(x, a, t), Delivered(tasks, x, a, t)
    PROVE  Delivered(tasks, y, b, t)
<1>1. ASSUME NEW it, NEW i \in 1..Len(x), ShowsItem(x, i, it)
      PROVE  i \in 1..Len(y) /\ ShowsItem(y, i, it)
  BY <1>1 DEF Painted, ShowsItem
<1>2. ASSUME NEW it, IsPending(a, it), ~IsPending(b, it)
      PROVE  \E i \in 1..n : a[i].id = it.id /\ it.k = "text"
  <2>1. PICK i \in 1..Len(a) : a[i].id = it.id /\ it.k = "text"
    BY <1>2 DEF IsPending
  <2>2. CASE i > n
    <3>1. i - n \in 1..Len(b) /\ n + (i - n) = i
      BY <2>2 DEF Painted
    <3>2. b[i - n] = a[i]
      BY <3>1 DEF Painted
    <3>3. QED
      BY <1>2, <2>1, <3>1, <3>2 DEF IsPending
  <2>3. QED
    BY <2>1, <2>2 DEF Painted
<1>3. ASSUME NEW c \in 1..Len(t), IsDue(tasks, t, c)
      PROVE  IsPending(b, t[c]) \/ \E i \in 1..Len(y) : ShowsItem(y, i, t[c])
  <2>1. CASE \E i \in 1..Len(x) : ShowsItem(x, i, t[c])
    BY <1>1, <2>1
  <2>2. CASE IsPending(a, t[c]) /\ ~IsPending(b, t[c])
    <3>1. PICK i \in 1..n : a[i].id = t[c].id /\ t[c].k = "text"
      BY <1>2, <2>2
    <3>2. Len(x) + i \in 1..Len(y) /\ ShowsItem(y, Len(x) + i, t[c])
      BY <3>1 DEF Painted, ShowsItem
    <3>3. QED
      BY <3>2
  <2>3. QED
    BY <1>3, <2>1, <2>2 DEF Delivered
<1>4. \A i \in 1..Len(y) : y[i].item.k = "card" /\ y[i].item.id \in Tools =>
         tasks /\ \E c \in 1..Len(t) : ShowsItem(y, i, t[c])
  <2> SUFFICES ASSUME NEW i \in 1..Len(y), y[i].item.k = "card", y[i].item.id \in Tools
               PROVE  tasks /\ \E c \in 1..Len(t) : ShowsItem(y, i, t[c])
    OBVIOUS
  <2>1. i \in 1..Len(x) /\ y[i] = x[i]
    BY DEF Painted
  <2>2. tasks /\ \E c \in 1..Len(t) : ShowsItem(x, i, t[c])
    BY <2>1 DEF Delivered
  <2>3. QED
    BY <1>1, <2>1, <2>2
<1>5. ASSUME NEW c \in 1..Len(t), NEW d \in 1..Len(t), NEW j \in 1..Len(y), c < d,
             IsDue(tasks, t, c), IsDue(tasks, t, d), ShowsItem(y, j, t[d])
      PROVE  \E i \in 1..Len(y) : i < j /\ ShowsItem(y, i, t[c])
  <2>1. CASE j \in 1..Len(x)
    <3>1. ShowsItem(x, j, t[d])
      BY <1>5, <2>1 DEF Painted, ShowsItem
    <3>2. PICK i \in 1..Len(x) : i < j /\ ShowsItem(x, i, t[c])
      BY <1>5, <2>1, <3>1 DEF Delivered
    <3>3. QED
      BY <1>1, <3>2
  <2>2. CASE j \notin 1..Len(x)
    <3>1. /\ j - Len(x) \in 1..n /\ j > Len(x) /\ t[d].k = "text"
          /\ t[d].id = a[j - Len(x)].id
      BY <1>5, <2>2 DEF Painted, ShowsItem
    <3>2. CASE \E i \in 1..Len(x) : ShowsItem(x, i, t[c])
      <4>1. PICK i \in 1..Len(x) : ShowsItem(x, i, t[c])
        BY <3>2
      <4>2. i < j
        BY <3>1 DEF Painted
      <4>3. QED
        BY <1>1, <4>1, <4>2
    <3>3. CASE IsPending(a, t[c])
      <4> DEFINE m == j - Len(x)
      <4>0. /\ Len(x) \in Nat /\ Len(y) = Len(x) + n /\ Len(a) \in Nat /\ n \in 0..Len(a)
            /\ j \in 1..Len(y) /\ j = Len(x) + m
            /\ m \in 1..n /\ m \in 1..Len(a) /\ t[d].id = a[m].id
        <5>1. Len(x) \in Nat /\ Len(y) = Len(x) + n /\ Len(a) \in Nat /\ n \in 0..Len(a)
          BY DEF Painted
        <5>2. QED
          BY <3>1, <5>1
      <4> HIDE DEF m
      <4>1. PICK i \in 1..Len(a) : a[i].id = t[c].id /\ t[c].k = "text"
        BY <3>3 DEF IsPending
      <4>2. t[c].id = c /\ t[d].id = d
        BY <3>1, <4>1 DEF Numbered
      <4>3. a[i].id = c /\ a[m].id = d /\ c \in Nat /\ d \in Nat /\ c < d /\ c > 0 /\ d > 0
        BY <1>5, <4>0, <4>1, <4>2
      <4>4. i < m
        <5>1. m < i => a[m].id < a[i].id
          BY <4>0, <4>1, <4>3 DEF InOrder
        <5>2. i # m /\ ~(m < i)
          BY <4>3, <5>1
        <5>3. QED
          BY <4>0, <5>2
      <4>5. i \in 1..n /\ Len(x) + i \in 1..Len(y) /\ Len(x) + i < j
        BY <4>0, <4>4
      <4>6. ShowsItem(y, Len(x) + i, t[c])
        BY <4>1, <4>5 DEF Painted, ShowsItem
      <4>7. QED
        BY <4>5, <4>6
    <3>4. QED
      BY <1>5, <3>2, <3>3 DEF Delivered
  <2>3. QED
    BY <2>1, <2>2
<1>6. QED
  BY <1>3, <1>4, <1>5 DEF Delivered

\* Text goes to the end of the message of the reply, from the front of the buffer.
LEMMA TextPainted ==
    ASSUME NEW q, NEW p, NEW t, NEW s, Inv(q, t, s), Len(t) \in Nat, q.mode = "text", q.text.msg # 0,
           SameSections(q, p), p.shown = q.shown, p.block = q.block, Calm(p) => Calm(q),
           NEW n \in 0..Len(q.text.pending),
           Grown(q.painted, p.painted, q.text.msg, Pieces(SubSeq(q.text.pending, 1, n))),
           DOMAIN p.text = WriterFields, p.text.msg = q.text.msg, p.text.stopped = q.text.stopped,
           p.text.pending = SubSeq(q.text.pending, n + 1, Len(q.text.pending))
    PROVE  Inv(p, t, s)
<1> DEFINE x == q.painted
           y == p.painted
           a == q.text.pending
           b == p.text.pending
           items == Pieces(SubSeq(a, 1, n))
<1>1. Listed(x) /\ Listed(a)
  BY DEF Inv, Shaped
<1>2. Painted(x, y, a, b, n)
  BY <1>1, PaintedIs
<1>3. Listed(items) /\ Grown(x, y, q.text.msg, items) /\ Listed(y)
  BY <1>1, PrefixIs, PiecesAre DEF Grown
<1>4. Listed(b)
  BY <1>1, RestIs
<1> HIDE DEF items
<1>5. Shaped(p)
  BY <1>3, <1>4 DEF Inv, Shaped, SameSections
<1>6. Sections(p)
  BY DEF Inv, Sections, SameSections
<1>7. Placed(p)
  <2>1. q.block.writer.msg = 0 /\ q.text.msg = Len(q.shown) /\ q.text.msg \in 1..Len(q.shown)
    BY DEF Inv, Sections, Placed, NoBlock, NoWriter
  <2>2. \A i \in 1..Len(y) :
          (i \in 1..Len(x) /\ y[i] = x[i]) \/ (i > Len(x) /\ y[i].msg = q.text.msg)
    BY <1>1, <1>3, GrownIs
  <2>3. \A i \in 1..Len(x) : x[i].msg \in 1..Len(q.shown)
    BY DEF Inv, Placed
  <2>4. \A i \in 1..Len(y) : y[i].msg \in 1..Len(q.shown)
    BY <2>1, <2>2, <2>3
  <2>5. \A i, j \in 1..Len(x) : i < j => x[i].msg <= x[j].msg
    BY DEF Inv, Placed
  <2>6. \A i, j \in 1..Len(y) : i < j => y[i].msg <= y[j].msg
    <3> SUFFICES ASSUME NEW i \in 1..Len(y), NEW j \in 1..Len(y), i < j
                 PROVE  y[i].msg <= y[j].msg
      OBVIOUS
    <3>0. Len(x) \in Nat /\ Len(y) \in Nat /\ Len(q.shown) \in Nat
      BY <1>1, <1>3 DEF Listed, Inv, Shaped
    <3>1. CASE j > Len(x)
      <4>1. y[j].msg = Len(q.shown)
        BY <2>1, <2>2, <3>0, <3>1
      <4>2. y[i].msg \in 1..Len(q.shown)
        BY <2>4
      <4>3. QED
        BY <3>0, <4>1, <4>2
    <3>2. CASE ~(j > Len(x))
      <4>1. i \in 1..Len(x) /\ j \in 1..Len(x)
        BY <3>0, <3>2
      <4>2. y[i] = x[i] /\ y[j] = x[j]
        BY <2>2, <3>0, <4>1
      <4>3. QED
        BY <2>5, <4>1, <4>2
    <3>3. QED
      BY <3>1, <3>2
  <2>7. Placed(q)
    BY DEF Inv
  <2>8. QED
    BY <2>1, <2>4, <2>6, <2>7 DEF Placed
<1>8. InOrder(y, b, t)
  BY <1>2, PaintedInOrder DEF Inv
<1>9. SentShown(p)
  BY DEF Inv, SentShown, Sections, NoBlock
<1>10. Calm(q) => Delivered(q.tasks, y, b, t)
  BY <1>2, PaintedDelivered DEF Inv
<1>11. SpinsOnly(x, s) => SpinsOnly(y, s)
  <2> SUFFICES ASSUME SpinsOnly(x, s), NEW i \in 1..Len(y), y[i].item.k = "card"
               PROVE  \/ y[i].item.st \in {"complete", "error"}
                      \/ y[i].item.id \in s
                      \/ \E j \in 1..Len(y) : i < j /\ ShowsItem(y, j, y[i].item)
    BY DEF SpinsOnly
  <2>1. i \in 1..Len(x) /\ y[i] = x[i]
    BY <1>2 DEF Painted
  <2>2. \/ x[i].item.st \in {"complete", "error"}
        \/ x[i].item.id \in s
        \/ \E j \in 1..Len(x) : i < j /\ ShowsItem(x, j, x[i].item)
    BY <2>1 DEF SpinsOnly
  <2>3. CASE \E j \in 1..Len(x) : i < j /\ ShowsItem(x, j, x[i].item)
    <3>1. PICK j \in 1..Len(x) : i < j /\ ShowsItem(x, j, x[i].item)
      BY <2>3
    <3>2. j \in 1..Len(y) /\ y[j] = x[j]
      BY <1>2 DEF Painted
    <3>3. ShowsItem(y, j, y[i].item)
      BY <2>1, <3>1, <3>2 DEF ShowsItem
    <3>4. QED
      BY <3>1, <3>2, <3>3
  <2>4. QED
    BY <2>1, <2>2, <2>3
<1>12. Streams(q) => Streams(p)
  BY DEF Streams
<1>13. QED
  BY <1>5, <1>6, <1>7, <1>8, <1>9, <1>10, <1>11, <1>12 DEF Inv, SameSections

\* What an update paints: headings and then the card.
CardItems(items, id, st) ==
    /\ Listed(items) /\ Len(items) >= 1
    /\ \A i \in 1..Len(items) :
         \/ i < Len(items) /\ items[i].k = "plan"
         \/ i = Len(items) /\ items[i].k = "card" /\ items[i].id = id /\ items[i].st = st

\* u is what was told when the card is painted: a tool was told before, or is told now.
IsTold(t, id) == \E a \in 1..Len(t) : t[a].k = "card" /\ t[a].id = id
CardTold(t, u, id) ==
    \/ u = t /\ (id \in Tools => IsTold(t, id))
    \/ u = Append(t, Item("card", id, "-")) /\ id \in Tools /\ ~IsTold(t, id)

LEMMA CardToldIs ==
    ASSUME NEW t, Listed(t), Numbered(t), NEW u, NEW id, CardTold(t, u, id)
    PROVE  /\ Extends(t, u) /\ Listed(u) /\ Len(u) <= Len(t) + 1
           /\ id \in Tools => IsTold(u, id)
           /\ \A a \in 1..Len(u) : a \notin 1..Len(t) =>
                u[a].k = "card" /\ u[a].id = id /\ id \in Tools /\ ~IsTold(t, id)
<1>1. Len(t) \in Nat
  BY DEF Listed
<1>2. CASE u = t /\ (id \in Tools => IsTold(t, id))
  BY <1>1, <1>2 DEF Extends
<1>3. CASE u = Append(t, Item("card", id, "-")) /\ id \in Tools /\ ~IsTold(t, id)
  <2>1. /\ Listed(u) /\ Len(u) = Len(t) + 1
        /\ \A a \in 1..Len(t) : u[a] = t[a]
        /\ u[Len(t) + 1] = Item("card", id, "-")
    BY <1>3, AppendIs
  <2>2. u[Len(t) + 1].k = "card" /\ u[Len(t) + 1].id = id
    BY <2>1 DEF Item
  <2>3. \A a \in 1..Len(u) : a \in 1..Len(t) \/ a = Len(t) + 1
    BY <1>1, <2>1
  <2>4. Numbered(u)
    BY <1>3, <2>1, <2>2, <2>3 DEF Numbered
  <2>5. IsTold(u, id)
    BY <1>1, <2>1, <2>2 DEF IsTold
  <2>6. QED
    BY <1>1, <1>3, <2>1, <2>2, <2>3, <2>4, <2>5 DEF Extends
<1>4. QED
  BY <1>2, <1>3 DEF CardTold

LEMMA CardDelivered ==
    ASSUME NEW x, Listed(x), NEW y, NEW n, NEW items, NEW id, NEW st, CardItems(items, id, st),
           Grown(x, y, n, items), NEW t, NEW u, Listed(t), Numbered(t), CardTold(t, u, id),
           Delivered(TRUE, x, <<>>, t)
    PROVE  Delivered(TRUE, y, <<>>, u)
<1>1. /\ Len(x) \in Nat /\ Len(y) \in Nat /\ Len(items) \in Nat /\ Len(items) >= 1
      /\ Len(y) = Len(x) + Len(items)
      /\ \A i \in 1..Len(x) : i \in 1..Len(y) /\ y[i] = x[i]
      /\ \A i \in 1..Len(y) :
           \/ i \in 1..Len(x)
           \/ i - Len(x) \in 1..Len(items) /\ i > Len(x) /\ y[i].item = items[i - Len(x)]
  BY GrownIs DEF CardItems, Grown
<1>2. \A i \in 1..Len(y) :
        \/ i \in 1..Len(x)
        \/ /\ i > Len(x)
           /\ y[i].item.k = "plan" \/ (y[i].item.k = "card" /\ y[i].item.id = id)
  BY <1>1 DEF CardItems
<1>3. Len(y) \in 1..Len(y) /\ y[Len(y)].item.k = "card" /\ y[Len(y)].item.id = id
  <2>1. Len(y) \in 1..Len(y) /\ Len(y) \notin 1..Len(x) /\ Len(y) - Len(x) = Len(items)
    BY <1>1
  <2>2. y[Len(y)].item = items[Len(items)] /\ Len(items) \in 1..Len(items)
    BY <1>1, <2>1
  <2>3. QED
    BY <2>1, <2>2 DEF CardItems
<1>4. /\ Extends(t, u) /\ Listed(u) /\ Len(u) <= Len(t) + 1 /\ Len(t) \in Nat /\ Len(u) \in Nat
      /\ id \in Tools => IsTold(u, id)
      /\ \A a \in 1..Len(u) : a \notin 1..Len(t) =>
           u[a].k = "card" /\ u[a].id = id /\ id \in Tools /\ ~IsTold(t, id)
      /\ \A a \in 1..Len(t) : a \in 1..Len(u) /\ u[a] = t[a]
  <2>1. /\ Extends(t, u) /\ Listed(u) /\ Len(u) <= Len(t) + 1
        /\ id \in Tools => IsTold(u, id)
        /\ \A a \in 1..Len(u) : a \notin 1..Len(t) =>
             u[a].k = "card" /\ u[a].id = id /\ id \in Tools /\ ~IsTold(t, id)
    BY CardToldIs
  <2>2. QED
    BY <2>1 DEF Extends
<1>5. ASSUME NEW it, NEW i \in 1..Len(x), ShowsItem(x, i, it)
      PROVE  i \in 1..Len(y) /\ ShowsItem(y, i, it)
  BY <1>1, <1>5 DEF ShowsItem
<1>6. ASSUME NEW a \in 1..Len(t)
      PROVE  \E i \in 1..Len(x) : ShowsItem(x, i, u[a])
  <2>1. ~IsPending(<<>>, t[a])
    BY OneIs DEF IsPending
  <2>2. QED
    BY <1>4, <2>1 DEF Delivered, IsDue
<1>7. ASSUME NEW a \in 1..Len(u)
      PROVE  \E i \in 1..Len(y) : ShowsItem(y, i, u[a])
  <2>1. CASE a \in 1..Len(t)
    BY <1>5, <1>6, <2>1
  <2>2. CASE a \notin 1..Len(t)
    BY <1>3, <1>4, <2>2 DEF ShowsItem
  <2>3. QED
    BY <2>1, <2>2
<1>8. ASSUME NEW i \in 1..Len(y), y[i].item.k = "card", y[i].item.id \in Tools
      PROVE  \E a \in 1..Len(u) : ShowsItem(y, i, u[a])
  <2>1. CASE i \in 1..Len(x)
    <3>1. \E a \in 1..Len(t) : ShowsItem(x, i, t[a])
      BY <1>1, <1>8, <2>1 DEF Delivered
    <3>2. QED
      BY <1>4, <1>5, <2>1, <3>1
  <2>2. CASE i \notin 1..Len(x)
    <3>1. y[i].item.id = id
      BY <1>2, <1>8, <2>2
    <3>2. QED
      BY <1>4, <1>8, <3>1 DEF IsTold, ShowsItem
  <2>3. QED
    BY <2>1, <2>2
<1>9. ASSUME NEW c \in 1..Len(u), NEW d \in 1..Len(u), NEW j \in 1..Len(y), c < d,
             ShowsItem(y, j, u[d])
      PROVE  \E i \in 1..Len(y) : i < j /\ ShowsItem(y, i, u[c])
  <2>1. c \in 1..Len(t)
    BY <1>4, <1>9
  <2>2. CASE j \notin 1..Len(x)
    <3>1. PICK i \in 1..Len(x) : ShowsItem(x, i, u[c])
      BY <1>6, <2>1
    <3>2. i < j
      BY <1>1, <1>2, <2>2
    <3>3. QED
      BY <1>5, <3>1, <3>2
  <2>3. CASE j \in 1..Len(x) /\ d \in 1..Len(t)
    <3>1. ShowsItem(x, j, t[d]) /\ u[c] = t[c]
      BY <1>1, <1>4, <1>9, <2>1, <2>3 DEF ShowsItem
    <3>2. PICK i \in 1..Len(x) : i < j /\ ShowsItem(x, i, t[c])
      BY <1>9, <2>1, <2>3, <3>1 DEF Delivered, IsDue
    <3>3. QED
      BY <1>5, <3>1, <3>2
  <2>4. CASE j \in 1..Len(x) /\ d \notin 1..Len(t)
    <3>1. u[d].k = "card" /\ u[d].id = id /\ id \in Tools /\ ~IsTold(t, id)
      BY <1>4, <2>4
    <3>2. x[j].item.k = "card" /\ x[j].item.id = id
      BY <1>1, <1>9, <2>4, <3>1 DEF ShowsItem
    <3>3. \E a \in 1..Len(t) : ShowsItem(x, j, t[a])
      BY <2>4, <3>1, <3>2 DEF Delivered
    <3>4. IsTold(t, id)
      BY <3>2, <3>3 DEF IsTold, ShowsItem
    <3>5. QED
      BY <3>1, <3>4
  <2>5. QED
    BY <2>2, <2>3, <2>4
<1>10. QED
  BY <1>7, <1>8, <1>9 DEF Delivered

\* Headings and a card go to the end of the message of the block.
LEMMA CardPainted ==
    ASSUME NEW q, NEW p, NEW t, NEW s, Inv(q, t, s), Listed(t), q.mode = "tools", q.tasks,
           q.block.writer.msg # 0,
           SameSections(q, p), p.shown = q.shown, p.text = q.text, p.block = q.block,
           Calm(p) => Calm(q), NEW items, NEW id, NEW st, CardItems(items, id, st),
           Grown(q.painted, p.painted, q.block.writer.msg, items),
           NEW u, CardTold(t, u, id), NEW v,
           \A z \in s : z # id => z \in v, st \notin {"complete", "error"} => id \in v
    PROVE  /\ Inv(p, u, v)
           /\ \E i \in 1..Len(p.painted) : p.painted[i].item.k = "card" /\ p.painted[i].item.id = id
<1> DEFINE x == q.painted
           y == p.painted
           n == q.block.writer.msg
<1>1. Listed(x) /\ Listed(y) /\ Len(x) \in Nat /\ Len(y) \in Nat /\ Numbered(t)
  BY DEF Inv, Shaped, Grown, Listed
<1>2. /\ Len(items) \in Nat /\ Len(items) >= 1 /\ Len(y) = Len(x) + Len(items)
      /\ \A i \in 1..Len(x) : i \in 1..Len(y) /\ y[i] = x[i]
      /\ \A i \in 1..Len(y) :
           \/ i \in 1..Len(x)
           \/ /\ i - Len(x) \in 1..Len(items) /\ i > Len(x)
              /\ y[i].item = items[i - Len(x)] /\ y[i].msg = n
  <2>1. Grown(x, y, n, items) /\ Listed(x) /\ Listed(items) /\ Len(items) >= 1
    BY <1>1 DEF CardItems
  <2> HIDE DEF x, y, n
  <2>2. Len(y) = Len(x) + Len(items)
    BY <2>1 DEF Grown
  <2>3. /\ Len(items) \in Nat
        /\ \A i \in 1..Len(x) : i \in 1..Len(y) /\ y[i] = x[i]
        /\ \A i \in 1..Len(y) :
             \/ i \in 1..Len(x)
             \/ /\ i - Len(x) \in 1..Len(items) /\ i > Len(x)
                /\ y[i].item = items[i - Len(x)] /\ y[i].msg = n
    BY <2>1, GrownIs
  <2>4. QED
    BY <2>1, <2>2, <2>3
<1>3. \A i \in 1..Len(y) :
        \/ i \in 1..Len(x)
        \/ /\ i > Len(x) /\ i < Len(y) /\ y[i].item.k = "plan" /\ y[i].msg = n
        \/ /\ i > Len(x) /\ i = Len(y) /\ y[i].msg = n
           /\ y[i].item.k = "card" /\ y[i].item.id = id /\ y[i].item.st = st
  <2> SUFFICES ASSUME NEW i \in 1..Len(y), i \notin 1..Len(x)
               PROVE  \/ i > Len(x) /\ i < Len(y) /\ y[i].item.k = "plan" /\ y[i].msg = n
                      \/ /\ i > Len(x) /\ i = Len(y) /\ y[i].msg = n
                         /\ y[i].item.k = "card" /\ y[i].item.id = id /\ y[i].item.st = st
    OBVIOUS
  <2> DEFINE j == i - Len(x)
  <2>1. j \in 1..Len(items) /\ i > Len(x) /\ y[i].item = items[j] /\ y[i].msg = n
    BY <1>2
  <2>2. (j < Len(items) => i < Len(y)) /\ (j = Len(items) => i = Len(y))
    BY <1>1, <1>2
  <2> HIDE DEF j
  <2>3. QED
    BY <2>1, <2>2 DEF CardItems
<1>4. Len(y) \in 1..Len(y) /\ Len(y) \notin 1..Len(x)
  BY <1>1, <1>2
<1>5. y[Len(y)].item.k = "card" /\ y[Len(y)].item.id = id /\ y[Len(y)].item.st = st
  BY <1>3, <1>4
<1>6. Shaped(p)
  BY <1>1 DEF Inv, Shaped, SameSections
<1>7. Sections(p)
  BY DEF Inv, Sections, SameSections
<1>8. Placed(p)
  <2>1. \A i \in 1..Len(x) : x[i].msg \in 1..Len(q.shown) /\ x[i].msg <= n
    BY DEF Inv, Placed
  <2>2. n \in 1..Len(q.shown) /\ Len(q.shown) \in Nat
    BY DEF Inv, Placed, Shaped
  <2>3. \A i \in 1..Len(y) : y[i].msg \in 1..Len(q.shown) /\ y[i].msg <= n
    <3> SUFFICES ASSUME NEW i \in 1..Len(y)
                 PROVE  y[i].msg \in 1..Len(q.shown) /\ y[i].msg <= n
      OBVIOUS
    <3>1. CASE i \in 1..Len(x)
      BY <1>2, <2>1, <3>1
    <3>2. CASE i \notin 1..Len(x)
      <4>1. y[i].msg = n
        BY <1>2, <3>2
      <4>2. QED
        BY <2>2, <4>1
    <3>3. QED
      BY <3>1, <3>2
  <2>4. \A i, j \in 1..Len(x) : i < j => x[i].msg <= x[j].msg
    BY DEF Inv, Placed
  <2>5. \A i, j \in 1..Len(y) : i < j => y[i].msg <= y[j].msg
    <3> SUFFICES ASSUME NEW i \in 1..Len(y), NEW j \in 1..Len(y), i < j
                 PROVE  y[i].msg <= y[j].msg
      OBVIOUS
    <3>1. CASE j \notin 1..Len(x)
      <4>1. y[j].msg = n
        BY <1>2, <3>1
      <4>2. QED
        BY <2>3, <4>1
    <3>2. CASE j \in 1..Len(x)
      <4>1. i \in 1..Len(x)
        BY <1>1, <3>2
      <4>2. y[i] = x[i] /\ y[j] = x[j]
        BY <1>2, <3>2, <4>1
      <4>3. QED
        BY <2>4, <3>2, <4>1, <4>2
    <3>3. QED
      BY <3>1, <3>2
  <2>6. Placed(q)
    BY DEF Inv
  <2>7. QED
    BY <2>3, <2>5, <2>6 DEF Placed
<1>9. q.text.pending = <<>> /\ p.text.pending = <<>>
  BY DEF Inv, Sections, NoWriter
<1>10. Extends(t, u) /\ Numbered(u)
  <2>1. Extends(t, u)
    BY <1>1, CardToldIs
  <2>2. QED
    BY <2>1 DEF Extends
<1>11. InOrder(y, <<>>, u)
  <2>1. InOrder(x, <<>>, u)
    BY <1>9, <1>10, InOrderExtends DEF Inv
  <2>2. Len(<<>>) = 0
    BY OneIs
  <2>3. \A i \in 1..Len(y) : y[i].item.k = "text" => i \in 1..Len(x) /\ y[i] = x[i]
    BY <1>2, <1>3
  <2>4. \A i \in 1..Len(y) : y[i].item.k = "text" => ToldAtom(y[i].item, u)
    BY <2>1, <2>3 DEF InOrder
  <2>5. ASSUME NEW i \in 1..Len(y), NEW j \in 1..Len(y), i < j, IsText(y, i), IsText(y, j)
        PROVE  y[i].item.id < y[j].item.id
    <3>1. i \in 1..Len(x) /\ y[i] = x[i] /\ j \in 1..Len(x) /\ y[j] = x[j]
      BY <2>3, <2>5 DEF IsText
    <3>2. IsText(x, i) /\ IsText(x, j)
      BY <2>5, <3>1 DEF IsText
    <3>3. x[i].item.id < x[j].item.id
      BY <2>1, <2>5, <3>1, <3>2 DEF InOrder
    <3>4. QED
      BY <3>1, <3>3
  <2>6. QED
    BY <2>2, <2>4, <2>5 DEF InOrder
<1>12. SentShown(p)
  <2>1. \A z \in q.block.sent : \E i \in 1..Len(x) : x[i].item.k = "card" /\ x[i].item.id = z
    BY DEF Inv, SentShown
  <2>2. \A i \in 1..Len(x) : i \in 1..Len(y) /\ y[i] = x[i]
    BY <1>2
  <2>3. ASSUME NEW z \in q.block.sent
        PROVE  \E i \in 1..Len(y) : y[i].item.k = "card" /\ y[i].item.id = z
    <3>1. PICK i \in 1..Len(x) : x[i].item.k = "card" /\ x[i].item.id = z
      BY <2>1
    <3>2. i \in 1..Len(y) /\ y[i] = x[i]
      BY <2>2
    <3>3. QED
      BY <3>1, <3>2
  <2>4. p.block.sent = q.block.sent
    OBVIOUS
  <2>5. QED
    BY <2>3, <2>4 DEF SentShown
<1>13. Calm(q) => Delivered(q.tasks, y, <<>>, u)
  <2> SUFFICES ASSUME Calm(q) PROVE Delivered(q.tasks, y, <<>>, u)
    OBVIOUS
  <2>1. Delivered(q.tasks, x, <<>>, t)
    BY <1>9 DEF Inv
  <2>2. Delivered(TRUE, x, <<>>, t)
    BY <2>1 DEF Delivered, IsDue
  <2>3. Delivered(TRUE, y, <<>>, u)
    <3>1. Grown(x, y, n, items) /\ CardItems(items, id, st) /\ CardTold(t, u, id) /\ Listed(t)
      OBVIOUS
    <3> HIDE DEF x, y, n
    <3>2. QED
      BY <1>1, <2>2, <3>1, CardDelivered
  <2>4. QED
    BY <2>3 DEF Delivered, IsDue
<1>14. SpinsOnly(x, s) => SpinsOnly(y, v)
  <2> SUFFICES ASSUME SpinsOnly(x, s), NEW i \in 1..Len(y), y[i].item.k = "card"
               PROVE  \/ y[i].item.st \in {"complete", "error"}
                      \/ y[i].item.id \in v
                      \/ \E j \in 1..Len(y) : i < j /\ ShowsItem(y, j, y[i].item)
    BY DEF SpinsOnly
  <2>1. CASE i \notin 1..Len(x)
    BY <1>3, <2>1
  <2>2. CASE i \in 1..Len(x)
    <3>1. y[i] = x[i]
      BY <1>2, <2>2
    <3>2. \/ x[i].item.st \in {"complete", "error"}
          \/ x[i].item.id \in s
          \/ \E j \in 1..Len(x) : i < j /\ ShowsItem(x, j, x[i].item)
      BY <2>2, <3>1 DEF SpinsOnly
    <3>3. CASE x[i].item.id \in s /\ x[i].item.id = id
      <4>1. i < Len(y) /\ ShowsItem(y, Len(y), y[i].item)
        BY <1>1, <1>4, <1>5, <2>2, <3>1, <3>3 DEF ShowsItem
      <4>2. QED
        BY <1>4, <4>1
    <3>4. CASE \E j \in 1..Len(x) : i < j /\ ShowsItem(x, j, x[i].item)
      <4>1. PICK j \in 1..Len(x) : i < j /\ ShowsItem(x, j, x[i].item)
        BY <3>4
      <4>2. j \in 1..Len(y) /\ y[j] = x[j]
        BY <1>2
      <4>3. ShowsItem(y, j, y[i].item)
        BY <3>1, <4>1, <4>2 DEF ShowsItem
      <4>4. QED
        BY <4>1, <4>2, <4>3
    <3>5. QED
      BY <3>1, <3>2, <3>3, <3>4
  <2>3. QED
    BY <2>1, <2>2
<1>15. Streams(q) => Streams(p)
  BY DEF Streams
<1>16. Inv(p, u, v)
  BY <1>6, <1>7, <1>8, <1>9, <1>10, <1>11, <1>12, <1>13, <1>14, <1>15 DEF Inv, SameSections
<1>17. QED
  BY <1>4, <1>5, <1>16

\* Atoms of the reply, or of a notice, that are told when u takes the place of t.
AtomsTold(t, u, atoms) ==
    /\ Listed(atoms) /\ Extends(t, u)
    /\ \A i \in 1..Len(atoms) : ToldAtom(atoms[i], u) /\ (atoms[i].id = 0 \/ atoms[i].id > Len(t))
    /\ \A i, j \in 1..Len(atoms) :
         i < j /\ atoms[i].id > 0 /\ atoms[j].id > 0 => atoms[i].id < atoms[j].id
    /\ \A a \in 1..Len(u) : a \notin 1..Len(t) => IsPending(atoms, u[a])

LEMMA BufferedInOrder ==
    ASSUME NEW x, NEW a, Listed(a), NEW t, NEW u, NEW atoms, AtomsTold(t, u, atoms),
           InOrder(x, a, t)
    PROVE  InOrder(x, a \o atoms, u)
<1> DEFINE c == a \o atoms
<1>1. /\ Listed(atoms) /\ Len(c) = Len(a) + Len(atoms)
      /\ \A i \in 1..Len(c) : \/ i \in 1..Len(a) /\ c[i] = a[i]
                              \/ i - Len(a) \in 1..Len(atoms) /\ c[i] = atoms[i - Len(a)]
  <2>1. Listed(atoms)
    BY DEF AtomsTold
  <2>2. QED
    BY <2>1, JoinIs
<1>2. Len(a) \in Nat /\ Len(atoms) \in Nat /\ Len(t) \in Nat
  BY <1>1 DEF Listed, AtomsTold, Extends
<1> HIDE DEF c
<1>3. InOrder(x, a, u)
  BY InOrderExtends DEF AtomsTold
<1>4. \A i \in 1..Len(a) : a[i].id \in Nat /\ a[i].id <= Len(t)
  BY <1>2 DEF InOrder, ToldAtom
<1>5. \A i \in 1..Len(atoms) : /\ ToldAtom(atoms[i], u) /\ atoms[i].id \in Nat
                               /\ atoms[i].id = 0 \/ atoms[i].id > Len(t)
  BY DEF AtomsTold, ToldAtom
<1>6. \A i \in 1..Len(c) : ToldAtom(c[i], u)
  BY <1>1, <1>3, <1>5 DEF InOrder
<1>7. ASSUME NEW i \in 1..Len(c), NEW j \in 1..Len(c), i < j, c[i].id > 0, c[j].id > 0
      PROVE  c[i].id < c[j].id
  <2>1. CASE j \in 1..Len(a)
    <3>1. i \in 1..Len(a)
      BY <1>2, <1>7, <2>1
    <3>2. c[i] = a[i] /\ c[j] = a[j]
      BY <1>1, <1>2, <2>1, <3>1
    <3>3. QED
      BY <1>3, <1>7, <2>1, <3>1, <3>2 DEF InOrder
  <2>2. CASE j \notin 1..Len(a) /\ i \in 1..Len(a)
    <3>1. j - Len(a) \in 1..Len(atoms) /\ c[j] = atoms[j - Len(a)] /\ c[i] = a[i]
      BY <1>1, <1>2, <2>2
    <3>2. QED
      BY <1>2, <1>4, <1>5, <1>7, <2>2, <3>1
  <2>3. CASE j \notin 1..Len(a) /\ i \notin 1..Len(a)
    <3>1. /\ j - Len(a) \in 1..Len(atoms) /\ c[j] = atoms[j - Len(a)]
          /\ i - Len(a) \in 1..Len(atoms) /\ c[i] = atoms[i - Len(a)]
          /\ i - Len(a) < j - Len(a)
      BY <1>1, <1>2, <1>7, <2>3
    <3>2. QED
      BY <1>7, <3>1 DEF AtomsTold
  <2>4. QED
    BY <2>1, <2>2, <2>3
<1>8. ASSUME NEW i \in 1..Len(x), NEW j \in 1..Len(c), IsText(x, i), c[j].id > 0
      PROVE  x[i].item.id < c[j].id
  <2>1. x[i].item.id \in Nat /\ x[i].item.id <= Len(t)
    BY <1>2, <1>8 DEF InOrder, ToldAtom, IsText
  <2>2. CASE j \in 1..Len(a)
    <3>1. c[j] = a[j]
      BY <1>1, <1>2, <2>2
    <3>2. QED
      BY <1>8, <2>2, <3>1 DEF InOrder
  <2>3. CASE j \notin 1..Len(a)
    <3> DEFINE k == j - Len(a)
    <3>1. k \in 1..Len(atoms) /\ c[j] = atoms[k]
      BY <1>1, <2>3
    <3> HIDE DEF k
    <3>2. atoms[k].id > Len(t) /\ atoms[k].id \in Nat
      <4>1. atoms[k].id \in Nat /\ (atoms[k].id = 0 \/ atoms[k].id > Len(t))
        BY <1>5, <3>1
      <4>2. atoms[k].id > 0
        BY <1>8, <3>1
      <4>3. QED
        BY <4>1, <4>2
    <3>3. x[i].item.id < atoms[k].id
      BY <1>2, <2>1, <3>2
    <3>4. QED
      BY <3>1, <3>3
  <2>4. QED
    BY <2>2, <2>3
<1>9. InOrder(x, c, u)
  BY <1>3, <1>6, <1>7, <1>8 DEF InOrder
<1>10. QED
  BY <1>9 DEF c

LEMMA BufferedDelivered ==
    ASSUME NEW x, NEW a, Listed(a), NEW t, NEW u, NEW atoms, AtomsTold(t, u, atoms),
           InOrder(x, a, t), NEW tasks, Delivered(tasks, x, a, t)
    PROVE  Delivered(tasks, x, a \o atoms, u)
<1> DEFINE c == a \o atoms
<1>1. /\ Listed(atoms) /\ Len(c) = Len(a) + Len(atoms)
      /\ \A i \in 1..Len(a) : c[i] = a[i]
      /\ \A i \in 1..Len(atoms) : c[Len(a) + i] = atoms[i]
  <2>1. Listed(atoms)
    BY DEF AtomsTold
  <2>2. QED
    BY <2>1, JoinIs
<1>2. Len(a) \in Nat /\ Len(atoms) \in Nat
  BY <1>1 DEF Listed
<1> HIDE DEF c
<1>3. ASSUME NEW it, IsPending(a, it)
      PROVE  IsPending(c, it)
  <2>1. PICK i \in 1..Len(a) : a[i].id = it.id /\ it.k = "text"
    BY <1>3 DEF IsPending
  <2>2. i \in 1..Len(c) /\ c[i].id = it.id
    BY <1>1, <1>2, <2>1
  <2>3. QED
    BY <2>1, <2>2 DEF IsPending
<1>4. ASSUME NEW it, IsPending(atoms, it)
      PROVE  IsPending(c, it)
  <2>1. PICK i \in 1..Len(atoms) : atoms[i].id = it.id /\ it.k = "text"
    BY <1>4 DEF IsPending
  <2>2. Len(a) + i \in 1..Len(c) /\ c[Len(a) + i].id = it.id
    BY <1>1, <1>2, <2>1
  <2>3. QED
    BY <2>1, <2>2 DEF IsPending
<1>5. /\ Len(t) \in Nat /\ Len(u) \in Nat /\ Numbered(u)
      /\ \A i \in 1..Len(t) : i \in 1..Len(u) /\ u[i] = t[i]
      /\ \A i \in 1..Len(u) : i \notin 1..Len(t) => IsPending(atoms, u[i])
  BY DEF AtomsTold, Extends
<1>6. ASSUME NEW d \in 1..Len(u), IsDue(tasks, u, d)
      PROVE  IsPending(c, u[d]) \/ \E i \in 1..Len(x) : ShowsItem(x, i, u[d])
  <2>1. CASE d \in 1..Len(t)
    <3>1. u[d] = t[d] /\ IsDue(tasks, t, d)
      BY <1>5, <1>6, <2>1 DEF IsDue
    <3>2. QED
      BY <1>3, <2>1, <3>1 DEF Delivered
  <2>2. CASE d \notin 1..Len(t)
    BY <1>4, <1>5, <2>2
  <2>3. QED
    BY <2>1, <2>2
<1>7. \A i \in 1..Len(x) : x[i].item.k = "card" /\ x[i].item.id \in Tools =>
         tasks /\ \E d \in 1..Len(u) : ShowsItem(x, i, u[d])
  <2> SUFFICES ASSUME NEW i \in 1..Len(x), x[i].item.k = "card", x[i].item.id \in Tools
               PROVE  tasks /\ \E d \in 1..Len(u) : ShowsItem(x, i, u[d])
    OBVIOUS
  <2>1. tasks /\ \E d \in 1..Len(t) : ShowsItem(x, i, t[d])
    BY DEF Delivered
  <2>2. QED
    BY <1>5, <2>1
<1>8. ASSUME NEW e \in 1..Len(u), NEW d \in 1..Len(u), NEW j \in 1..Len(x), e < d,
             IsDue(tasks, u, e), IsDue(tasks, u, d), ShowsItem(x, j, u[d])
      PROVE  \E i \in 1..Len(x) : i < j /\ ShowsItem(x, i, u[e])
  <2>1. d \in 1..Len(t)
    <3> SUFFICES ASSUME d \notin 1..Len(t) PROVE FALSE
      OBVIOUS
    <3>1. u[d].k = "text" /\ u[d].id = d
      BY <1>5 DEF IsPending, Numbered
    <3>2. x[j].item.k = "text" /\ x[j].item.id = d
      BY <1>8, <3>1 DEF ShowsItem
    <3>3. d \in 1..Len(t)
      BY <3>2 DEF InOrder, ToldAtom
    <3>4. QED
      BY <3>3
  <2>2. e \in 1..Len(t) /\ u[e] = t[e] /\ u[d] = t[d]
    BY <1>5, <1>8, <2>1
  <2>3. IsDue(tasks, t, e) /\ IsDue(tasks, t, d) /\ ShowsItem(x, j, t[d])
    BY <1>8, <2>2 DEF IsDue
  <2>4. \E i \in 1..Len(x) : i < j /\ ShowsItem(x, i, t[e])
    BY <1>8, <2>1, <2>2, <2>3 DEF Delivered
  <2>5. QED
    BY <2>2, <2>4
<1>9. Delivered(tasks, x, c, u)
  BY <1>6, <1>7, <1>8 DEF Delivered
<1>10. QED
  BY <1>9 DEF c

\* Text is buffered.
LEMMA Buffered ==
    ASSUME NEW q, NEW p, NEW t, NEW s, Inv(q, t, s), q.mode = "text",
           NEW u, NEW atoms, AtomsTold(t, u, atoms),
           SameSections(q, p), p.shown = q.shown, p.painted = q.painted, p.block = q.block,
           Calm(p) => Calm(q),
           DOMAIN p.text = WriterFields, p.text.msg = q.text.msg, p.text.stopped = q.text.stopped,
           p.text.pending = q.text.pending \o atoms
    PROVE  Inv(p, u, s)
<1>1. Listed(q.text.pending) /\ Listed(atoms)
  BY DEF Inv, Shaped, AtomsTold
<1>2. Listed(q.text.pending \o atoms)
  BY <1>1, JoinIs
<1>3. Shaped(p)
  BY <1>2 DEF Inv, Shaped, SameSections
<1>4. Sections(p)
  BY DEF Inv, Sections, SameSections
<1>5. Placed(p)
  BY DEF Inv, Placed
<1>6. InOrder(p.painted, p.text.pending, u)
  BY <1>1, BufferedInOrder DEF Inv
<1>7. SentShown(p) /\ (Streams(q) => Streams(p))
  BY DEF Inv, SentShown, Streams
<1>8. Calm(q) => Delivered(p.tasks, p.painted, p.text.pending, u)
  BY <1>1, BufferedDelivered DEF Inv, SameSections
<1>9. Numbered(u)
  BY DEF AtomsTold, Extends
<1>10. QED
  BY <1>3, <1>4, <1>5, <1>6, <1>7, <1>8, <1>9 DEF Inv

-----------------------------------------------------------------------------
(* The writers.                                                            *)

\* p has the sections of q, the same cards running, and comes later.
Frame(q, p) == SameSections(q, p) /\ p.block.running = q.block.running /\ Later(q, p)

\* p is q with the items painted on message n.
Onto(q, p, n, items) ==
    /\ Frame(q, p) /\ p.text = q.text /\ p.block = q.block /\ p.shown = q.shown
    /\ (Calm(q) => Calm(p)) /\ Grown(q.painted, p.painted, n, items)

LEMMA FrameThen ==
    ASSUME NEW q, NEW p, NEW u, Frame(q, p), Frame(p, u)
    PROVE  Frame(q, u)
  BY LaterTrans DEF Frame, SameSections

LEMMA FrameSelf ==
    ASSUME NEW q, NEW t, NEW s, Inv(q, t, s)
    PROVE  Frame(q, q)
  BY LaterSelf DEF Frame, SameSections, Inv, Shaped

\* A call changes nothing but what says that the turn was disturbed.
LEMMA ServeFrames ==
    ASSUME NEW q, NEW t, NEW s, Inv(q, t, s), NEW o, o \in Serve(q)
    PROVE  Frame(q, o.r)
<1>1. DOMAIN q = Fields /\ DOMAIN q.block = BlockFields
  BY DEF Inv, Shaped
<1>2. o.r = q \/ o.r = [q EXCEPT !.faults = @ - 1, !.refused = TRUE]
      \/ o.r = [q EXCEPT !.cancelled = TRUE]
  <2>1. o = Result("ok", q) \/ o = Result("err", q)
        \/ o = Result("err", [q EXCEPT !.faults = @ - 1, !.refused = TRUE])
        \/ o = Result("err", [q EXCEPT !.cancelled = TRUE])
    BY Zenon DEF Serve, Ok
  <2>2. QED
    BY <2>1, ResultIs
<1>3. CASE o.r = q
  BY <1>3, FrameSelf
<1>4. CASE o.r = [q EXCEPT !.faults = @ - 1, !.refused = TRUE]
  BY <1>1, <1>4 DEF Frame, SameSections, Later, Fields
<1>5. CASE o.r = [q EXCEPT !.cancelled = TRUE]
  BY <1>1, <1>5 DEF Frame, SameSections, Later, Fields
<1>6. QED
  BY <1>2, <1>3, <1>4, <1>5

\* The indicator goes out.
LEMMA DimmedIs ==
    ASSUME NEW q, NEW t, NEW s, Inv(q, t, s)
    PROVE  LET p == [q EXCEPT !.thinking = FALSE] IN
           /\ Inv(p, t, s) /\ Frame(q, p) /\ p.text = q.text /\ p.block = q.block
           /\ p.shown = q.shown /\ p.painted = q.painted /\ (Calm(q) <=> Calm(p))
<1> DEFINE p == [q EXCEPT !.thinking = FALSE]
<1>1. DOMAIN q = Fields /\ DOMAIN q.block = BlockFields
  BY DEF Inv, Shaped
<1>2. /\ Frame(q, p) /\ p.text = q.text /\ p.block = q.block
      /\ p.shown = q.shown /\ p.painted = q.painted
  BY <1>1 DEF Frame, SameSections, Later, Fields
<1>3. Alike(q, p) /\ (Calm(q) <=> Calm(p))
  BY <1>1 DEF Alike, Fields, Calm
<1> HIDE DEF p
<1>4. Inv(p, t, s)
  BY <1>3, AlikeInv
<1>5. QED
  BY <1>2, <1>3, <1>4 DEF p

\* A message of a writer is finalized, and the record says so.
LEMMA FinalizedIs ==
    ASSUME NEW q, NEW t, NEW s, Inv(q, t, s), NEW k \in {"text", "block"}, Begun(Writer(q, k))
    PROVE  /\ Inv(Finalize(q, k), t, s) /\ Frame(q, Finalize(q, k))
           /\ Finalize(q, k).text = q.text /\ Finalize(q, k).block = q.block
           /\ Finalize(q, k).painted = q.painted /\ ~Streaming(Finalize(q, k), k)
<1> DEFINE n == Writer(q, k).msg
           x == [q.shown EXCEPT ![n].open = FALSE]
           p == [q EXCEPT !.shown = x, !.finals = @ - 1]
<1>1. DOMAIN q = Fields /\ q.shown \in Seq(Messages)
  BY DEF Inv, Shaped
<1>2. n \in 1..Len(q.shown)
  BY DEF Inv, Placed, Writer, Begun
<1>3. Sealed(q.shown, x, n)
  BY <1>1, <1>2, SealIs
<1>4. p = Finalize(q, k)
  BY <1>1 DEF Finalize, Fields
<1> HIDE DEF x
<1>5. p.shown = x
  BY <1>1 DEF Fields
<1>6. Frame(q, p) /\ p.text = q.text /\ p.block = q.block /\ p.painted = q.painted
  BY <1>1 DEF Frame, SameSections, Later, Fields
<1>7. Calm(p) => Calm(q)
  BY <1>1 DEF Calm, Fields
<1> HIDE DEF p
<1>8. Inv(p, t, s)
  BY <1>3, <1>5, <1>6, <1>7, SealedInv DEF Frame
<1>9. ~Streaming(p, k)
  BY <1>2, <1>3, <1>5, <1>6 DEF Streaming, Sealed, Writer
<1>10. QED
  BY <1>4, <1>6, <1>8, <1>9

\* A call whose answer is lost changes nothing more than what says so.
LEMMA LostIs ==
    ASSUME NEW q, NEW p, DOMAIN p = Fields, NEW o, o \in Lost(q, p)
    PROVE  /\ o.res = "err" /\ ~Calm(o.r) /\ Frame(p, o.r) /\ o.r.shown = p.shown
           /\ o.r.painted = p.painted /\ o.r.text = p.text /\ o.r.block = p.block
           /\ o.r.refused \/ ~q.fresh
<1>1. \/ o = Result("err", [p EXCEPT !.faults = @ - 1, !.refused = TRUE])
      \/ o = Result("err", [p EXCEPT !.cancelled = TRUE]) /\ ~q.fresh
  BY Zenon DEF Lost
<1>2. CASE o = Result("err", [p EXCEPT !.faults = @ - 1, !.refused = TRUE])
  <2>1. o.res = "err" /\ o.r = [p EXCEPT !.faults = @ - 1, !.refused = TRUE]
    BY <1>2, ResultIs
  <2>2. QED
    BY <2>1 DEF Fields, Frame, SameSections, Later, Calm
<1>3. CASE o = Result("err", [p EXCEPT !.cancelled = TRUE]) /\ ~q.fresh
  <2>1. o.res = "err" /\ o.r = [p EXCEPT !.cancelled = TRUE]
    BY <1>3, ResultIs
  <2>2. QED
    BY <1>3, <2>1 DEF Fields, Frame, SameSections, Later, Calm
<1>4. QED
  BY <1>1, <1>2, <1>3

\* A message that no writer knows of: only the order matters from then on.
LEMMA OrphanInv ==
    ASSUME NEW q, NEW p, NEW t, NEW s, Inv(q, t, s), q.text.msg = 0, NEW m \in Messages,
           SameSections(q, p), p.painted = q.painted, p.text = q.text, p.block = q.block,
           ~Calm(p), p.shown = Append(q.shown, m)
    PROVE  Inv(p, t, s)
<1>1. /\ p.shown \in Seq(Messages) /\ Len(p.shown) = Len(q.shown) + 1 /\ Len(q.shown) \in Nat
      /\ \A i \in 1..Len(q.shown) : p.shown[i] = q.shown[i]
  <2>1. q.shown \in Seq(Messages)
    BY DEF Inv, Shaped
  <2>2. QED
    BY <2>1
<1>2. Shaped(p) /\ SentShown(p)
  BY <1>1 DEF Inv, Shaped, SentShown, SameSections
<1>3. Sections(p)
  BY DEF Inv, Sections, SameSections
<1>4. Placed(p)
  BY <1>1 DEF Inv, Placed
<1>5. QED
  BY <1>2, <1>3, <1>4 DEF Inv, SameSections

\* What a call whose answer is lost may have done: nothing the invariant looks at,
\* settle a message, or post one.
LEMMA LostInv ==
    ASSUME NEW q, NEW t, NEW s, Inv(q, t, s), NEW p, Frame(q, p),
           p.painted = q.painted, p.text = q.text, p.block = q.block, NEW n,
           \/ p.shown = q.shown
           \/ Sealed(q.shown, p.shown, n)
           \/ q.text.msg = 0 /\ \E m \in Messages : p.shown = Append(q.shown, m),
           NEW o, o \in Lost(q, p)
    PROVE  o.res = "err" /\ Frame(q, o.r) /\ Inv(o.r, t, s) /\ ~Calm(o.r)
<1>1. /\ o.res = "err" /\ ~Calm(o.r) /\ Frame(p, o.r) /\ o.r.shown = p.shown
      /\ o.r.painted = p.painted /\ o.r.text = p.text /\ o.r.block = p.block
  BY LostIs DEF Frame, SameSections
<1>2. Frame(q, o.r)
  BY <1>1, FrameThen
<1>3. SameSections(q, o.r) /\ DOMAIN q.block = BlockFields
  BY <1>2 DEF Frame, Inv, Shaped
<1>4. CASE p.shown = q.shown
  <2>1. Alike(q, o.r)
    BY <1>1, <1>3, <1>4 DEF Alike, SameSections
  <2>2. QED
    BY <1>1, <1>2, <2>1, AlikeInv
<1>5. CASE Sealed(q.shown, p.shown, n)
  BY <1>1, <1>2, <1>3, <1>5, SealedInv
<1>6. CASE q.text.msg = 0 /\ \E m \in Messages : p.shown = Append(q.shown, m)
  BY <1>1, <1>2, <1>3, <1>6, OrphanInv
<1>7. QED
  BY <1>4, <1>5, <1>6

\* A new message, whoever posts it.
LEMMA PostIs ==
    ASSUME NEW q, DOMAIN q = Fields, NEW k \in Kinds, NEW open \in BOOLEAN
    PROVE  LET p == Post(q, k, open) IN
           /\ Frame(q, p) /\ p.painted = q.painted /\ p.text = q.text /\ p.block = q.block
           /\ \E m \in Messages : p.shown = Append(q.shown, m)
<1> DEFINE m == [kind |-> k, open |-> open]
           x == Append(q.shown, m)
           p == [q EXCEPT !.shown = x]
<1>1. p = Post(q, k, open)
  BY DEF Post, Fields
<1>2. m \in Messages
  BY DEF Messages
<1> HIDE DEF m
<1>3. /\ Frame(q, p) /\ p.painted = q.painted /\ p.text = q.text /\ p.block = q.block
      /\ p.shown = x
  BY DEF Fields, Frame, SameSections, Later
<1>4. QED
  BY <1>1, <1>2, <1>3

\* Items that Slack painted for a call it did not confirm.
LEMMA StrayingIs ==
    ASSUME NEW q, DOMAIN q = Fields, NEW n, NEW items
    PROVE  LET p == Straying(q, n, items) IN
           /\ Frame(q, p) /\ p.painted = q.painted /\ p.text = q.text /\ p.block = q.block
           /\ p.shown = q.shown
<1> DEFINE z == q.stray \cup {[item |-> items[i], msg |-> n] : i \in DOMAIN items}
           p == [q EXCEPT !.thinking = FALSE, !.stray = z]
<1>1. p = Straying(q, n, items)
  BY DEF Straying, Fields
<1> HIDE DEF z
<1>2. /\ Frame(q, p) /\ p.painted = q.painted /\ p.text = q.text /\ p.block = q.block
      /\ p.shown = q.shown
  BY DEF Fields, Frame, SameSections, Later
<1>3. QED
  BY <1>1, <1>2

\* Items are appended to the message of a writer, it is met finalized, or the call fails.
LEMMA AppendStreamIs ==
    ASSUME NEW q, NEW t, NEW s, Inv(q, t, s), NEW k \in {"text", "block"}, Begun(Writer(q, k)),
           NEW items, Listed(items), NEW o, o \in AppendStream(q, k, items)
    PROVE  /\ o.res \in {"ok", "final", "err"} /\ Frame(q, o.r)
           /\ o.res = "ok" => Onto(q, o.r, Writer(q, k).msg, items)
           /\ o.res = "final" => /\ Inv(o.r, t, s) /\ o.r.text = q.text /\ o.r.block = q.block
                                 /\ ~Streaming(o.r, k)
           /\ o.res = "err" => Inv(o.r, t, s) /\ ~Calm(o.r)
<1> DEFINE stray == Straying(q, Writer(q, k).msg, items)
<1>0. CASE o \in Lost(q, stray)
  <2>1. DOMAIN q = Fields
    BY DEF Inv, Shaped
  <2>2. /\ Frame(q, stray) /\ stray.painted = q.painted /\ stray.text = q.text
        /\ stray.block = q.block /\ stray.shown = q.shown
    BY <2>1, StrayingIs
  <2> HIDE DEF stray
  <2>3. o.res = "err" /\ Frame(q, o.r) /\ Inv(o.r, t, s) /\ ~Calm(o.r)
    BY <1>0, <2>2, LostInv
  <2>4. QED
    BY <2>3
<1> SUFFICES ASSUME o \notin Lost(q, stray)
             PROVE  /\ o.res \in {"ok", "final", "err"} /\ Frame(q, o.r)
                    /\ o.res = "ok" => Onto(q, o.r, Writer(q, k).msg, items)
                    /\ o.res = "final" => /\ Inv(o.r, t, s) /\ o.r.text = q.text
                                          /\ o.r.block = q.block /\ ~Streaming(o.r, k)
                    /\ o.res = "err" => Inv(o.r, t, s) /\ ~Calm(o.r)
  BY <1>0
<1> HIDE DEF stray
<1>1. PICK e \in Serve(q) :
        \/ e.res # "ok" /\ o = e
        \/ /\ e.res = "ok"
           /\ \/ ~Streaming(e.r, k) /\ o = Result("final", e.r)
              \/ o = Result("final", Finalize(e.r, k))
              \/ o \in Ok(Painting([e.r EXCEPT !.thinking = FALSE], Writer(e.r, k).msg, items))
  BY Zenon DEF AppendStream, Then, stray
<1>2. Fine(q, e, t, s) /\ e.res \in {"ok", "err"} /\ (e.res = "ok" => e.r = q) /\ Frame(q, e.r)
  BY ServeIs, ServeFrames
<1>3. CASE e.res # "ok" /\ o = e
  BY <1>2, <1>3 DEF Fine
<1>4. CASE e.r = q /\ ~Streaming(e.r, k) /\ o = Result("final", e.r)
  <2>1. o.res = "final" /\ o.r = q
    BY <1>4, ResultIs
  <2>2. QED
    BY <1>2, <1>4, <2>1
<1>5. CASE e.r = q /\ o = Result("final", Finalize(e.r, k))
  <2>1. o.res = "final" /\ o.r = Finalize(q, k)
    BY <1>5, ResultIs
  <2>2. QED
    BY <2>1, FinalizedIs
<1>6. CASE e.r = q /\ o \in Ok(Painting([e.r EXCEPT !.thinking = FALSE], Writer(e.r, k).msg, items))
  <2> DEFINE p == [q EXCEPT !.thinking = FALSE]
             n == Writer(q, k).msg
  <2>1. /\ Inv(p, t, s) /\ Frame(q, p) /\ p.text = q.text /\ p.block = q.block
        /\ p.shown = q.shown /\ p.painted = q.painted /\ (Calm(q) <=> Calm(p))
    BY DimmedIs
  <2>2. o.res = "ok" /\ o.r = Painting(p, n, items)
    BY <1>6, OkIs
  <2> HIDE DEF p, n
  <2>3. DOMAIN p = Fields /\ Listed(p.painted)
    BY <2>1 DEF Inv, Shaped
  <2>4. /\ SameSections(p, o.r) /\ Later(p, o.r) /\ o.r.text = p.text /\ o.r.block = p.block
        /\ o.r.shown = p.shown /\ (Calm(p) => Calm(o.r))
        /\ Grown(p.painted, o.r.painted, n, items)
    BY <2>2, <2>3, PaintingIs
  <2>5. Frame(p, o.r)
    BY <2>4 DEF Frame
  <2>6. Frame(q, o.r)
    BY <2>1, <2>5, FrameThen
  <2>7. Onto(q, o.r, n, items)
    BY <2>1, <2>4, <2>6 DEF Onto
  <2>8. QED
    BY <2>2, <2>6, <2>7 DEF n
<1>7. QED
  BY <1>1, <1>2, <1>3, <1>4, <1>5, <1>6

\* A call that a finalized message refused is refused for good.
LEMMA RefusedIs ==
    ASSUME NEW q, NEW t, NEW s, Inv(q, t, s)
    PROVE  LET p == [q EXCEPT !.refused = TRUE] IN
           Inv(p, t, s) /\ Frame(q, p) /\ p.text = q.text /\ p.block = q.block /\ ~Calm(p)
<1> DEFINE p == [q EXCEPT !.refused = TRUE]
<1>1. DOMAIN q = Fields /\ DOMAIN q.block = BlockFields
  BY DEF Inv, Shaped
<1>2. Frame(q, p) /\ p.text = q.text /\ p.block = q.block /\ ~Calm(p)
  BY <1>1 DEF Frame, SameSections, Later, Fields, Calm
<1>3. Alike(q, p)
  BY <1>1 DEF Alike, Fields
<1> HIDE DEF p
<1>4. Inv(p, t, s)
  BY <1>2, <1>3, AlikeInv
<1>5. QED
  BY <1>2, <1>4 DEF p

\* The writer k is that of the open section.
Writes(q, k) == (k = "text" /\ q.mode = "text") \/ (k = "block" /\ q.mode = "tools" /\ q.tasks)

\* p has the writers of q, which may stream to other messages.
Kept(q, p) ==
    /\ p.text.pending = q.text.pending /\ p.text.flushed = q.text.flushed
    /\ (~q.text.stopped => ~p.text.stopped)
    /\ p.block.sent = q.block.sent /\ p.block.line = q.block.line /\ p.block.done = q.block.done

\* p is the record of a writer, with its message, that the items are painted on.
Onward(q, p, k, items, t, s) ==
    \E w : /\ Inv(w, t, s) /\ Frame(q, w) /\ Kept(q, w) /\ Begun(Writer(w, k))
           /\ Onto(w, p, Writer(w, k).msg, items)

LEMMA OntoNothing ==
    ASSUME NEW q, NEW t, NEW s, Inv(q, t, s), NEW p, NEW n, Onto(q, p, n, <<>>)
    PROVE  Inv(p, t, s)
<1>1. Listed(q.painted)
  BY DEF Inv, Shaped
<1>2. p.painted = q.painted
  BY <1>1, GrownByNothing DEF Onto
<1>3. DOMAIN q.block = BlockFields
  BY DEF Inv, Shaped
<1>4. Alike(q, p) /\ (Calm(p) => Calm(q))
  BY <1>2, <1>3, LaterCalm DEF Alike, Onto, Frame, SameSections
<1>5. QED
  BY <1>4, AlikeInv

\* The writer that has no message posts one.
LEMMA OpenedIs ==
    ASSUME NEW q, NEW t, NEW s, Inv(q, t, s), NEW k \in {"text", "block"}, Writes(q, k),
           ~Begun(Writer(q, k))
    PROVE  LET p == Post(q, k, TRUE)
               n == Len(p.shown)
               w == WithWriter(p, k, [Writer(p, k) EXCEPT !.msg = n])
           IN Inv(w, t, s) /\ Frame(q, w) /\ Kept(q, w) /\ Begun(Writer(w, k)) /\ Writer(w, k).msg = n
<1> DEFINE x == Append(q.shown, [kind |-> k, open |-> TRUE])
           p == [q EXCEPT !.shown = x]
           n == Len(p.shown)
           w == WithWriter(p, k, [Writer(p, k) EXCEPT !.msg = n])
<1>1. /\ DOMAIN q = Fields /\ q.shown \in Seq(Messages) /\ DOMAIN q.block = BlockFields
      /\ DOMAIN q.text = WriterFields /\ DOMAIN q.block.writer = WriterFields
  BY DEF Inv, Shaped
<1>2. p = Post(q, k, TRUE)
  BY <1>1 DEF Post, Fields
<1>3. Len(x) = Len(q.shown) + 1 /\ Len(q.shown) \in Nat
  BY <1>1, ShownIs DEF Kinds
<1>4. DOMAIN p = Fields /\ p.shown = x /\ p.text = q.text /\ p.block = q.block
      /\ p.painted = q.painted /\ Frame(q, p) /\ (Calm(p) <=> Calm(q))
  BY <1>1 DEF Fields, Frame, SameSections, Later, Calm
<1>5. n = Len(q.shown) + 1
  BY <1>3, <1>4
<1> HIDE DEF x, p
<1>6. CASE k = "text"
  <2> DEFINE v == [p.text EXCEPT !.msg = n]
             u == [p EXCEPT !.text = v]
  <2>1. DOMAIN v = WriterFields /\ v.msg = n /\ v.pending = q.text.pending
        /\ v.flushed = q.text.flushed /\ v.stopped = q.text.stopped
    BY <1>1, <1>4 DEF WriterFields
  <2>2. w = u
    BY <1>6 DEF WithWriter, Writer
  <2> HIDE DEF v, n, w
  <2>3. u.text = v /\ u.block = q.block /\ u.painted = q.painted /\ u.shown = x
        /\ Frame(q, u) /\ (Calm(u) <=> Calm(q))
    BY <1>4 DEF Fields, Frame, SameSections, Later, Calm
  <2> HIDE DEF u
  <2>4. Inv(u, t, s)
    <3>1. q.mode = "text" /\ q.text.msg = 0
      BY <1>6 DEF Writes, Begun, Writer
    <3>2. SameSections(q, u) /\ x = Append(q.shown, [kind |-> "text", open |-> TRUE])
      BY <1>6, <2>3 DEF Frame, x
    <3>3. QED
      BY <1>5, <2>1, <2>3, <3>1, <3>2, TextBegins
  <2>5. Kept(q, u)
    BY <2>1, <2>3 DEF Kept
  <2>6. Writer(u, k).msg = n /\ Begun(Writer(u, k))
    BY <1>3, <1>5, <1>6, <2>1, <2>3 DEF Begun, Writer
  <2>7. QED
    BY <1>2, <2>2, <2>3, <2>4, <2>5, <2>6 DEF n, w
<1>7. CASE k = "block"
  <2> DEFINE v == [p.block.writer EXCEPT !.msg = n]
             b == [p.block EXCEPT !.writer = v]
             u == [p EXCEPT !.block = b]
  <2>1. DOMAIN v = WriterFields /\ v.msg = n /\ v.pending = q.block.writer.pending
        /\ v.stopped = q.block.writer.stopped
    BY <1>1, <1>4 DEF WriterFields
  <2>2. w = u
    BY <1>1, <1>4, <1>7 DEF WithWriter, Writer, Fields, BlockFields
  <2> HIDE DEF v, n, w
  <2>3. /\ DOMAIN b = BlockFields /\ b.writer = v /\ b.sent = q.block.sent /\ b.line = q.block.line
        /\ b.done = q.block.done /\ b.running = q.block.running
    BY <1>1, <1>4 DEF BlockFields
  <2> HIDE DEF b
  <2>4. u.block = b /\ u.text = q.text /\ u.painted = q.painted /\ u.shown = x
        /\ Frame(q, u) /\ (Calm(u) <=> Calm(q))
    BY <1>4, <2>3 DEF Fields, Frame, SameSections, Later, Calm
  <2> HIDE DEF u
  <2>5. Inv(u, t, s)
    <3>1. q.mode = "tools" /\ q.tasks /\ q.block.writer.msg = 0
      BY <1>7 DEF Writes, Begun, Writer
    <3>2. SameSections(q, u) /\ x = Append(q.shown, [kind |-> "block", open |-> TRUE])
      BY <1>7, <2>4 DEF Frame, x
    <3>3. QED
      BY <1>5, <2>1, <2>3, <2>4, <3>1, <3>2, BlockBegins
  <2>6. Kept(q, u)
    BY <2>3, <2>4 DEF Kept
  <2>7. Writer(u, k).msg = n /\ Begun(Writer(u, k))
    BY <1>3, <1>5, <1>7, <2>1, <2>3, <2>4 DEF Begun, Writer
  <2>8. QED
    BY <1>2, <2>2, <2>4, <2>5, <2>6, <2>7 DEF n, w
<1>8. QED
  BY <1>6, <1>7

LEMMA KeptThen ==
    ASSUME NEW q, NEW p, NEW u, Kept(q, p), Kept(p, u)
    PROVE  Kept(q, u)
  BY DEF Kept

LEMMA KeptIf ==
    ASSUME NEW q, NEW p, p.text = q.text, p.block = q.block
    PROVE  Kept(q, p)
  BY DEF Kept

LEMMA StartIs ==
    ASSUME NEW q, NEW t, NEW s, Inv(q, t, s), NEW k \in {"text", "block"}, Writes(q, k),
           ~Begun(Writer(q, k)), NEW items, Listed(items), NEW o, o \in StartWithOptions(q, k, items)
    PROVE  /\ o.res \in {"ok", "err"} /\ Frame(q, o.r)
           /\ o.res = "ok" => Onward(q, o.r, k, items, t, s)
           /\ o.res = "err" => Inv(o.r, t, s) /\ ~Calm(o.r)
<1> DEFINE Opened(d) ==
               LET p == Post(d, k, TRUE)
                   n == Len(p.shown)
               IN Painting(WithWriter(p, k, [Writer(p, k) EXCEPT !.msg = n]), n, items)
           post == Post(q, k, TRUE)
           stray == Straying(post, Len(q.shown) + 1, items)
<1>0. CASE o \in Lost(q, stray)
  <2>1. DOMAIN q = Fields /\ k \in Kinds
    BY DEF Inv, Shaped, Kinds
  <2>2. /\ Frame(q, post) /\ post.painted = q.painted /\ post.text = q.text /\ post.block = q.block
        /\ \E m \in Messages : post.shown = Append(q.shown, m)
    BY <2>1, PostIs
  <2> HIDE DEF post
  <2>3. /\ Frame(post, stray) /\ stray.painted = post.painted /\ stray.text = post.text
        /\ stray.block = post.block /\ stray.shown = post.shown
    BY <2>2, StrayingIs DEF Frame, SameSections
  <2> HIDE DEF stray
  <2>4. q.text.msg = 0
    BY DEF Writes, Begun, Writer, Inv, Sections, NoWriter
  <2>5. Frame(q, stray)
    BY <2>2, <2>3, FrameThen
  <2>6. o.res = "err" /\ Frame(q, o.r) /\ Inv(o.r, t, s) /\ ~Calm(o.r)
    BY <1>0, <2>2, <2>3, <2>4, <2>5, LostInv
  <2>7. QED
    BY <2>6
<1> SUFFICES ASSUME o \notin Lost(q, stray)
             PROVE  /\ o.res \in {"ok", "err"} /\ Frame(q, o.r)
                    /\ o.res = "ok" => Onward(q, o.r, k, items, t, s)
                    /\ o.res = "err" => Inv(o.r, t, s) /\ ~Calm(o.r)
  BY <1>0
<1> HIDE DEF stray
<1>1. PICK e \in Serve(q) :
        \/ e.res # "ok" /\ o = e
        \/ e.res = "ok" /\ o \in Ok(Opened([e.r EXCEPT !.thinking = FALSE]))
  BY Zenon DEF StartWithOptions, Then, stray, post
<1>2. Fine(q, e, t, s) /\ e.res \in {"ok", "err"} /\ (e.res = "ok" => e.r = q) /\ Frame(q, e.r)
  BY ServeIs, ServeFrames
<1>3. CASE e.res # "ok" /\ o = e
  BY <1>2, <1>3 DEF Fine
<1>4. CASE e.r = q /\ o \in Ok(Opened([e.r EXCEPT !.thinking = FALSE]))
  <2> DEFINE d == [q EXCEPT !.thinking = FALSE]
             p == Post(d, k, TRUE)
             n == Len(p.shown)
             w == WithWriter(p, k, [Writer(p, k) EXCEPT !.msg = n])
  <2>1. Inv(d, t, s) /\ Frame(q, d) /\ d.text = q.text /\ d.block = q.block
    BY DimmedIs
  <2>2. o.res = "ok" /\ o.r = Painting(w, n, items)
    BY <1>4, OkIs
  <2> HIDE DEF d
  <2>3. Writes(d, k) /\ ~Begun(Writer(d, k))
    BY <2>1 DEF Writes, Writer, Frame, SameSections
  <2>4. Inv(w, t, s) /\ Frame(d, w) /\ Kept(d, w) /\ Begun(Writer(w, k)) /\ Writer(w, k).msg = n
    BY <2>1, <2>3, OpenedIs
  <2> HIDE DEF w, n, p
  <2>5. Frame(q, w) /\ Kept(q, w)
    BY <2>1, <2>4, FrameThen, KeptThen, KeptIf
  <2>6. DOMAIN w = Fields /\ Listed(w.painted)
    BY <2>4 DEF Inv, Shaped
  <2>7. Onto(w, o.r, n, items)
    BY <2>2, <2>6, PaintingIs DEF Onto, Frame
  <2>8. Frame(q, o.r)
    BY <2>5, <2>7, FrameThen DEF Onto
  <2>9. QED
    BY <2>2, <2>4, <2>5, <2>7, <2>8 DEF Onward
<1>5. QED
  BY <1>1, <1>2, <1>3, <1>4

LEMMA OnwardNothing ==
    ASSUME NEW q, NEW t, NEW s, NEW p, NEW k, Onward(q, p, k, <<>>, t, s)
    PROVE  Inv(p, t, s) /\ Frame(q, p) /\ Kept(q, p) /\ Begun(Writer(p, k))
<1>1. PICK w : /\ Inv(w, t, s) /\ Frame(q, w) /\ Kept(q, w) /\ Begun(Writer(w, k))
               /\ Onto(w, p, Writer(w, k).msg, <<>>)
  BY DEF Onward
<1>2. Inv(p, t, s)
  BY <1>1, OntoNothing
<1>3. Frame(q, p)
  BY <1>1, FrameThen DEF Onto
<1>4. Kept(q, p)
  BY <1>1, KeptThen, KeptIf DEF Onto
<1>5. QED
  BY <1>1, <1>2, <1>3, <1>4 DEF Onto, Writer

\* A writer forgets the message that Slack has finalized.
LEMMA DroppedIs ==
    ASSUME NEW q, NEW t, NEW s, Inv(q, t, s), NEW k \in {"text", "block"}, Writes(q, k),
           Begun(Writer(q, k)), ~Streaming(q, k)
    PROVE  LET w == WithWriter(q, k, [Writer(q, k) EXCEPT !.msg = 0, !.stopped = FALSE])
           IN Inv(w, t, s) /\ Frame(q, w) /\ Kept(q, w) /\ ~Begun(Writer(w, k))
<1> DEFINE w == WithWriter(q, k, [Writer(q, k) EXCEPT !.msg = 0, !.stopped = FALSE])
<1>1. /\ DOMAIN q = Fields /\ q.shown \in Seq(Messages) /\ DOMAIN q.block = BlockFields
      /\ DOMAIN q.text = WriterFields /\ DOMAIN q.block.writer = WriterFields
  BY DEF Inv, Shaped
<1>2. CASE k = "text"
  <2> DEFINE v == [q.text EXCEPT !.msg = 0, !.stopped = FALSE]
             u == [q EXCEPT !.text = v]
  <2>1. DOMAIN v = WriterFields /\ v.msg = 0 /\ v.pending = q.text.pending
        /\ v.flushed = q.text.flushed /\ ~v.stopped
    BY <1>1 DEF WriterFields
  <2>2. w = u
    BY <1>2 DEF WithWriter, Writer
  <2> HIDE DEF v, w
  <2>3. u.text = v /\ u.block = q.block /\ u.painted = q.painted /\ u.shown = q.shown
        /\ Frame(q, u) /\ (Calm(u) <=> Calm(q))
    BY <1>1 DEF Fields, Frame, SameSections, Later, Calm
  <2> HIDE DEF u
  <2>4. q.mode = "text" /\ ~q.shown[q.text.msg].open
    BY <1>2 DEF Writes, Streaming, Writer
  <2>5. Shaped(u) /\ SentShown(u)
    BY <2>1, <2>3 DEF Inv, Shaped, SentShown, Frame, SameSections
  <2>6. Sections(u)
    BY <2>1, <2>3, <2>4 DEF Inv, Sections, Frame, SameSections
  <2>7. Placed(u)
    <3>1. Len(q.shown) \in Nat
      BY <1>1
    <3>2. QED
      BY <2>1, <2>3, <3>1 DEF Inv, Placed
  <2>8. Streams(q) => Streams(u)
    BY <2>1, <2>3, <2>4 DEF Streams
  <2>9. Inv(u, t, s)
    BY <2>1, <2>3, <2>5, <2>6, <2>7, <2>8 DEF Inv, Frame, SameSections
  <2>10. Kept(q, u) /\ ~Begun(Writer(u, k))
    BY <1>2, <2>1, <2>3 DEF Kept, Begun, Writer
  <2>11. QED
    BY <2>2, <2>3, <2>9, <2>10 DEF w
<1>3. CASE k = "block"
  <2> DEFINE v == [q.block.writer EXCEPT !.msg = 0, !.stopped = FALSE]
             b == [q.block EXCEPT !.writer = v]
             u == [q EXCEPT !.block = b]
  <2>1. DOMAIN v = WriterFields /\ v.msg = 0 /\ v.pending = q.block.writer.pending /\ ~v.stopped
    BY <1>1 DEF WriterFields
  <2>2. w = u
    BY <1>1, <1>3 DEF WithWriter, Writer, Fields, BlockFields
  <2> HIDE DEF v, w
  <2>3. /\ DOMAIN b = BlockFields /\ b.writer = v /\ b.sent = q.block.sent /\ b.line = q.block.line
        /\ b.done = q.block.done /\ b.running = q.block.running
    BY <1>1 DEF BlockFields
  <2> HIDE DEF b
  <2>4. u.block = b /\ u.text = q.text /\ u.painted = q.painted /\ u.shown = q.shown
        /\ Frame(q, u) /\ (Calm(u) <=> Calm(q))
    BY <1>1, <2>3 DEF Fields, Frame, SameSections, Later, Calm
  <2> HIDE DEF u
  <2>5. q.mode = "tools" /\ q.tasks /\ ~q.shown[q.block.writer.msg].open
    BY <1>3 DEF Writes, Streaming, Writer
  <2>6. Shaped(u) /\ SentShown(u)
    BY <2>1, <2>3, <2>4 DEF Inv, Shaped, SentShown, Frame, SameSections
  <2>7. Sections(u)
    BY <2>1, <2>3, <2>4, <2>5 DEF Inv, Sections, Frame, SameSections
  <2>8. Placed(u)
    <3>1. Len(q.shown) \in Nat
      BY <1>1
    <3>2. QED
      BY <2>1, <2>3, <2>4, <3>1 DEF Inv, Placed
  <2>9. Streams(q) => Streams(u)
    BY <2>1, <2>3, <2>4, <2>5 DEF Streams
  <2>10. Inv(u, t, s)
    BY <2>4, <2>6, <2>7, <2>8, <2>9 DEF Inv, Frame, SameSections
  <2>11. Kept(q, u) /\ ~Begun(Writer(u, k))
    BY <1>3, <2>1, <2>3, <2>4 DEF Kept, Begun, Writer
  <2>12. QED
    BY <2>2, <2>4, <2>10, <2>11 DEF w
<1>4. QED
  BY <1>2, <1>3

LEMMA WritesFrame ==
    ASSUME NEW q, NEW p, NEW k, Writes(q, k), Frame(q, p)
    PROVE  Writes(p, k)
  BY DEF Writes, Frame, SameSections

LEMMA RolloverIs ==
    ASSUME NEW q, NEW t, NEW s, Inv(q, t, s), NEW k \in {"text", "block"}, Writes(q, k),
           Begun(Writer(q, k)), ~Streaming(q, k), NEW o, o \in Rollover(q, k)
    PROVE  /\ o.res \in {"ok", "err"} /\ Frame(q, o.r) /\ Inv(o.r, t, s)
           /\ o.res = "ok" => Kept(q, o.r) /\ Begun(Writer(o.r, k))
           /\ o.res = "err" => ~Calm(o.r)
<1> DEFINE w == WithWriter(q, k, [Writer(q, k) EXCEPT !.msg = 0, !.stopped = FALSE])
<1>1. Inv(w, t, s) /\ Frame(q, w) /\ Kept(q, w) /\ ~Begun(Writer(w, k))
  BY DroppedIs, Zenon
<1>2. o \in StartWithOptions(w, k, <<>>)
  BY DEF Rollover
<1> HIDE DEF w
<1>3. Writes(w, k) /\ Listed(<<>>)
  BY <1>1, WritesFrame, OneIs
<1>4. /\ o.res \in {"ok", "err"} /\ Frame(w, o.r)
      /\ o.res = "ok" => Onward(w, o.r, k, <<>>, t, s)
      /\ o.res = "err" => Inv(o.r, t, s) /\ ~Calm(o.r)
  BY <1>1, <1>2, <1>3, StartIs
<1>5. o.res = "ok" => Inv(o.r, t, s) /\ Kept(w, o.r) /\ Begun(Writer(o.r, k))
  BY <1>4, OnwardNothing
<1>6. QED
  BY <1>1, <1>4, <1>5, FrameThen, KeptThen

\* What a result that is not served again says.
LEMMA UnpaintedIs ==
    ASSUME NEW q, NEW t, NEW s, Inv(q, t, s), NEW k \in {"text", "block"}, Begun(Writer(q, k)),
           NEW items, Listed(items), NEW o, o \in Unpainted(AppendStream(q, k, items))
    PROVE  /\ o.res \in {"ok", "err"} /\ Frame(q, o.r)
           /\ o.res = "ok" => Onto(q, o.r, Writer(q, k).msg, items)
           /\ o.res = "err" => Inv(o.r, t, s) /\ ~Calm(o.r)
<1>1. PICK e \in AppendStream(q, k, items) :
        o = IF e.res = "final" THEN Result("err", [e.r EXCEPT !.refused = TRUE]) ELSE e
  BY Zenon DEF Unpainted
<1>2. /\ e.res \in {"ok", "final", "err"} /\ Frame(q, e.r)
      /\ e.res = "ok" => Onto(q, e.r, Writer(q, k).msg, items)
      /\ e.res = "final" => Inv(e.r, t, s)
      /\ e.res = "err" => Inv(e.r, t, s) /\ ~Calm(e.r)
  BY AppendStreamIs
<1>3. CASE e.res = "final"
  <2> DEFINE p == [e.r EXCEPT !.refused = TRUE]
  <2>1. Inv(p, t, s) /\ Frame(e.r, p) /\ ~Calm(p)
    BY <1>2, <1>3, RefusedIs
  <2>2. o.res = "err" /\ o.r = p
    BY <1>1, <1>3, ResultIs
  <2> HIDE DEF p
  <2>3. QED
    BY <1>2, <2>1, <2>2, FrameThen
<1>4. QED
  BY <1>1, <1>2, <1>3

LEMMA PaintIs ==
    ASSUME NEW q, NEW t, NEW s, Inv(q, t, s), NEW k \in {"text", "block"}, Writes(q, k),
           Begun(Writer(q, k)), NEW items, Listed(items), NEW o, o \in Paint(q, k, items)
    PROVE  /\ o.res \in {"ok", "err"} /\ Frame(q, o.r)
           /\ o.res = "ok" => Onward(q, o.r, k, items, t, s)
           /\ o.res = "err" => Inv(o.r, t, s) /\ ~Calm(o.r)
<1> DEFINE Again(d) == Unpainted(AppendStream(d, k, items))
<1>0. PICK e \in AppendStream(q, k, items) :
        o \in IF e.res = "final" THEN Then(Rollover(e.r, k), Again) ELSE {e}
  BY Zenon DEF Paint
<1>1. IF e.res = "final"
      THEN \E d \in Rollover(e.r, k) :
               \/ d.res # "ok" /\ o = d
               \/ d.res = "ok" /\ o \in Unpainted(AppendStream(d.r, k, items))
      ELSE o = e
  <2>1. ASSUME e.res = "final"
        PROVE  \E d \in Rollover(e.r, k) :
                   \/ d.res # "ok" /\ o = d
                   \/ d.res = "ok" /\ o \in Again(d.r)
    <3>1. o \in Then(Rollover(e.r, k), Again)
      BY <1>0, <2>1
    <3> HIDE DEF Again
    <3>2. QED
      BY <3>1, Zenon DEF Then
  <2>2. ASSUME e.res # "final" PROVE o = e
    BY <1>0, <2>2
  <2>3. QED
    BY <2>1, <2>2
<1> HIDE DEF Again
<1>2. /\ e.res \in {"ok", "final", "err"} /\ Frame(q, e.r)
      /\ e.res = "ok" => Onto(q, e.r, Writer(q, k).msg, items)
      /\ e.res = "final" => /\ Inv(e.r, t, s) /\ e.r.text = q.text /\ e.r.block = q.block
                            /\ ~Streaming(e.r, k)
      /\ e.res = "err" => Inv(e.r, t, s) /\ ~Calm(e.r)
  BY AppendStreamIs
<1>3. Kept(q, q) /\ Frame(q, q)
  BY KeptIf, FrameSelf
<1>4. CASE e.res = "ok"
  BY <1>1, <1>2, <1>3, <1>4 DEF Onward
<1>5. CASE e.res = "err"
  BY <1>1, <1>2, <1>5
<1>6. CASE e.res = "final"
  <2>1. PICK d \in Rollover(e.r, k) :
           \/ d.res # "ok" /\ o = d
           \/ d.res = "ok" /\ o \in Unpainted(AppendStream(d.r, k, items))
    BY <1>1, <1>6
  <2>2. Writes(e.r, k) /\ Begun(Writer(e.r, k)) /\ Kept(q, e.r)
    BY <1>2, <1>6, WritesFrame, KeptIf DEF Writer
  <2>3. /\ d.res \in {"ok", "err"} /\ Frame(e.r, d.r) /\ Inv(d.r, t, s)
        /\ d.res = "ok" => Kept(e.r, d.r) /\ Begun(Writer(d.r, k))
        /\ d.res = "err" => ~Calm(d.r)
    BY <1>2, <1>6, <2>2, RolloverIs
  <2>4. Frame(q, d.r)
    BY <1>2, <2>3, FrameThen
  <2>5. CASE d.res = "ok" /\ o \in Unpainted(AppendStream(d.r, k, items))
    <3>1. Kept(q, d.r) /\ Kept(d.r, d.r) /\ Frame(d.r, d.r)
      BY <2>2, <2>3, <2>5, KeptThen, KeptIf, FrameSelf
    <3>2. /\ o.res \in {"ok", "err"} /\ Frame(d.r, o.r)
          /\ o.res = "ok" => Onto(d.r, o.r, Writer(d.r, k).msg, items)
          /\ o.res = "err" => Inv(o.r, t, s) /\ ~Calm(o.r)
      BY <2>3, <2>5, UnpaintedIs
    <3>3. Frame(q, o.r)
      BY <2>4, <3>2, FrameThen
    <3>4. o.res = "ok" => Onward(q, o.r, k, items, t, s)
      BY <2>3, <2>4, <2>5, <3>1, <3>2 DEF Onward
    <3>5. QED
      BY <3>2, <3>3, <3>4
  <2>6. QED
    BY <2>1, <2>3, <2>4, <2>5
<1>7. QED
  BY <1>2, <1>4, <1>5, <1>6

LEMMA LeastExists ==
    ASSUME NEW S, S \subseteq Nat, S # {}
    PROVE  \E x \in S : \A y \in S : x <= y
<1>1. PICK x \in S : \A y \in S : ~(<<y, x>> \in OpToRel(<, Nat))
  BY NatLessThanWellFounded, WFMin
<1>2. \A y \in S : ~(y < x)
  BY <1>1 DEF OpToRel
<1>3. QED
  BY <1>2

LEMMA GreatestExists ==
    ASSUME NEW n \in Nat, NEW S, S \subseteq 1..n, S # {}
    PROVE  \E x \in S : \A y \in S : x >= y
<1> DEFINE T == {n - y : y \in S}
<1>1. T \subseteq Nat /\ T # {}
  OBVIOUS
<1> HIDE DEF T
<1>2. PICK m \in T : \A z \in T : m <= z
  BY <1>1, LeastExists
<1>3. PICK x \in S : m = n - x
  BY <1>2 DEF T
<1>4. ASSUME NEW y \in S PROVE x >= y
  <2>1. n - y \in T
    BY DEF T
  <2>2. n - x <= n - y /\ x \in Nat /\ y \in Nat
    BY <1>2, <1>3, <2>1
  <2>3. QED
    BY <2>2
<1>5. QED
  BY <1>4

\* The place of the last element that passes a test, or 0.
LEMMA LastIs ==
    ASSUME NEW n \in Nat, NEW I, I \subseteq 1..n
    PROVE  (IF I # {} THEN Max(I) ELSE 0) \in 0..n
<1>1. CASE I # {}
  <2> DEFINE m == CHOOSE z \in I : \A y \in I : z >= y
  <2>1. Max(I) = m
    BY DEF Max
  <2>2. \E z \in I : \A y \in I : z >= y
    BY <1>1, GreatestExists
  <2>3. m \in I
    BY <2>2
  <2> HIDE DEF m
  <2>4. m \in 1..n
    BY <2>3
  <2>5. QED
    BY <1>1, <2>1, <2>4
<1>2. QED
  BY <1>1

LEMMA LastBreakIs ==
    ASSUME NEW x, Listed(x), NEW breaks
    PROVE  LastBreak(x, breaks) \in 0..Len(x)
<1> DEFINE I == {i \in 1..Len(x) : x[i].brk \in breaks}
<1>1. LastBreak(x, breaks) = IF I # {} THEN Max(I) ELSE 0
  BY DEF LastBreak, SelectLastInSeq
<1>2. Len(x) \in Nat /\ I \subseteq 1..Len(x)
  BY DEF Listed
<1> HIDE DEF I
<1>3. QED
  BY <1>1, <1>2, LastIs

\* A buffer with nothing in it.
LEMMA NothingIs ==
    ASSUME NEW x, Listed(x), Len(x) = 0
    PROVE  x = <<>>
<1>1. x = [i \in 1..0 |-> x[i]]
  BY DEF Listed
<1>2. QED
  BY <1>1

\* The first n atoms of the buffer are painted, and leave it.
LEMMA EmitIs ==
    ASSUME NEW q, NEW t, NEW s, Inv(q, t, s), Len(t) \in Nat, q.mode = "text",
           NEW n \in 0..Len(q.text.pending), NEW o, o \in Emit(q, "text", n)
    PROVE  /\ o.res \in {"ok", "err"} /\ Frame(q, o.r) /\ Inv(o.r, t, s)
           /\ o.res = "err" => ~Calm(o.r)
           /\ o.res = "ok" /\ (~Begun(q.text) \/ q.text.stopped) => o.r = q
           /\ o.res = "ok" /\ Begun(q.text) /\ ~q.text.stopped =>
                /\ Begun(o.r.text) /\ ~o.r.text.stopped
                /\ Len(o.r.text.pending) = Len(q.text.pending) - n
<1> DEFINE a == q.text.pending
           items == Pieces(SubSeq(a, 1, n))
           Left(p) == Ok(WithWriter(p, "text", [Writer(p, "text") EXCEPT
                            !.pending = SubSeq(@, n + 1, Len(@)), !.flushed = TRUE]))
<1>0. Listed(a) /\ Len(a) \in Nat
  BY DEF Inv, Shaped, Listed
<1>1. CASE ~Begun(q.text) \/ q.text.stopped \/ n = 0
  <2>1. o \in Ok(q)
    BY <1>1 DEF Emit, Writer
  <2>2. QED
    BY <1>0, <1>1, <2>1, OkIs, FrameSelf
<1>2. CASE Begun(q.text) /\ ~q.text.stopped /\ n # 0
  <2>1. PICK e \in Paint(q, "text", items) :
           \/ e.res # "ok" /\ o = e
           \/ e.res = "ok" /\ o \in Left(e.r)
    <3>1. o \in Then(Paint(q, "text", items), Left)
      BY <1>2 DEF Emit, Writer
    <3> HIDE DEF Left, items
    <3>2. QED
      BY <3>1, Zenon DEF Then
  <2>2. Writes(q, "text") /\ Begun(Writer(q, "text")) /\ Listed(items)
    <3>1. Listed(SubSeq(a, 1, n))
      BY <1>0, PrefixIs
    <3>2. QED
      BY <1>2, <3>1, PiecesAre DEF Writes, Writer
  <2> HIDE DEF items
  <2>3. /\ e.res \in {"ok", "err"} /\ Frame(q, e.r)
        /\ e.res = "ok" => Onward(q, e.r, "text", items, t, s)
        /\ e.res = "err" => Inv(e.r, t, s) /\ ~Calm(e.r)
    BY <2>2, PaintIs
  <2>4. CASE e.res # "ok" /\ o = e
    BY <2>3, <2>4
  <2>5. CASE e.res = "ok" /\ o \in Left(e.r)
    <3>1. PICK w : /\ Inv(w, t, s) /\ Frame(q, w) /\ Kept(q, w) /\ Begun(Writer(w, "text"))
                   /\ Onto(w, e.r, Writer(w, "text").msg, items)
      BY <2>3, <2>5 DEF Onward
    <3> DEFINE p == e.r
               b == SubSeq(p.text.pending, n + 1, Len(p.text.pending))
               v == [p.text EXCEPT !.pending = b, !.flushed = TRUE]
               u == [p EXCEPT !.text = v]
    <3>2. p.text = w.text /\ w.text.pending = a /\ ~w.text.stopped
      BY <1>2, <3>1 DEF Onto, Kept
    <3>3. DOMAIN p = Fields /\ DOMAIN p.text = WriterFields
      BY <3>1 DEF Onto, Frame, SameSections, Inv, Shaped
    <3>4. DOMAIN v = WriterFields /\ v.msg = p.text.msg /\ v.stopped = p.text.stopped /\ v.pending = b
      BY <3>3 DEF WriterFields
    <3>5. o.res = "ok" /\ o.r = u
      <4>1. v = [p.text EXCEPT !.pending = SubSeq(@, n + 1, Len(@)), !.flushed = TRUE]
        BY <3>3 DEF WriterFields
      <4>2. o \in Ok(u)
        BY <2>5, <4>1 DEF WithWriter, Writer
      <4> HIDE DEF u
      <4>3. QED
        BY <4>2, OkIs
    <3> HIDE DEF v, b
    <3>6. /\ Frame(p, u) /\ u.text = v /\ u.block = p.block /\ u.shown = p.shown
          /\ u.painted = p.painted /\ (Calm(u) <=> Calm(p))
      BY <3>3 DEF Fields, Frame, SameSections, Later, Calm
    <3> HIDE DEF p, u
    <3>7. Frame(w, u) /\ Frame(q, u)
      BY <3>1, <3>6, FrameThen DEF Onto, p
    <3>8. b = SubSeq(a, n + 1, Len(a))
      BY <3>2 DEF b
    <3>9. w.mode = "text" /\ w.text.msg # 0
      BY <3>1 DEF Frame, SameSections, Begun, Writer
    <3>10. Inv(u, t, s)
      <4>1. Grown(w.painted, u.painted, w.text.msg, Pieces(SubSeq(w.text.pending, 1, n)))
        BY <3>1, <3>2, <3>6 DEF Onto, Writer, items, p
      <4>2. /\ SameSections(w, u) /\ u.shown = w.shown /\ u.block = w.block
            /\ (Calm(u) => Calm(w))
        BY <3>1, <3>6, <3>7, LaterCalm DEF Frame, Onto, p
      <4>3. /\ DOMAIN u.text = WriterFields /\ u.text.msg = w.text.msg
            /\ u.text.stopped = w.text.stopped
            /\ u.text.pending = SubSeq(w.text.pending, n + 1, Len(w.text.pending))
        BY <3>2, <3>4, <3>6, <3>8
      <4>4. n \in 0..Len(w.text.pending)
        BY <3>2
      <4>5. QED
        BY <3>1, <3>9, <4>1, <4>2, <4>3, <4>4, TextPainted
    <3>11. Begun(u.text) /\ ~u.text.stopped /\ Len(u.text.pending) = Len(a) - n
      <4>1. Len(b) = Len(a) - n
        BY <1>0, <3>8, RestIs
      <4>2. QED
        BY <3>2, <3>4, <3>6, <3>9, <4>1 DEF Begun
    <3>12. QED
      BY <1>2, <3>5, <3>7, <3>10, <3>11 DEF u
  <2>6. QED
    BY <2>1, <2>4, <2>5
<1>3. QED
  BY <1>1, <1>2

\* Text is appended: told in u, buffered, and painted on a coherent boundary.
LEMMA AppendTextIs ==
    ASSUME NEW q, NEW t, NEW s, Inv(q, t, s), q.mode = "text", NEW u, NEW atoms,
           AtomsTold(t, u, atoms), q.text.stopped => u = t,
           NEW o, o \in AppendText(q, atoms)
    PROVE  /\ o.res \in {"ok", "err"} /\ Frame(q, o.r) /\ Inv(o.r, u, s)
           /\ o.res = "err" => ~Calm(o.r)
           /\ o.res = "ok" /\ q.text.stopped => o.r = q
           /\ o.res = "ok" /\ ~q.text.stopped => Begun(o.r.text) /\ ~o.r.text.stopped
<1> DEFINE Cut(b) ==
             LET nl == LastBreak(b.text.pending, {"nl"})
                 sp == LastBreak(b.text.pending, {"sp"})
             IN IF ~b.text.flushed THEN Flush(b, "text")
                ELSE IF nl > 0 THEN Emit(b, "text", nl)
                ELSE Ok(b) \cup (IF sp > 0 THEN Emit(b, "text", sp) ELSE Flush(b, "text"))
           Buffer(d) == Cut([d EXCEPT !.text.pending = @ \o atoms])
<1>1. CASE q.text.stopped
  <2>1. o.res = "ok" /\ o.r = q
    BY <1>1, OkIs DEF AppendText
  <2>2. QED
    BY <1>1, <2>1, FrameSelf
<1>2. CASE ~q.text.stopped
  <2>1. PICK e \in StartWithOptions(q, "text", <<>>) :
           \/ e.res # "ok" /\ o = e
           \/ e.res = "ok" /\ o \in Buffer(e.r)
    <3>1. o \in Then(StartWithOptions(q, "text", <<>>), Buffer)
      BY <1>2 DEF AppendText
    <3> HIDE DEF Buffer
    <3>2. QED
      BY <3>1, Zenon DEF Then
  <2> HIDE DEF Cut
  <2>2. Writes(q, "text") /\ Listed(<<>>)
    BY OneIs DEF Writes
  <2>3. /\ e.res \in {"ok", "err"} /\ Frame(q, e.r) /\ Inv(e.r, t, s)
        /\ e.res = "ok" => Kept(q, e.r) /\ Begun(e.r.text)
        /\ e.res = "err" => ~Calm(e.r)
    <3>1. CASE Begun(Writer(q, "text"))
      <4>1. e.res = "ok" /\ e.r = q
        BY <3>1, OkIs DEF StartWithOptions
      <4>2. QED
        BY <3>1, <4>1, KeptIf, FrameSelf DEF Writer
    <3>2. CASE ~Begun(Writer(q, "text"))
      <4>1. /\ e.res \in {"ok", "err"} /\ Frame(q, e.r)
            /\ e.res = "ok" => Onward(q, e.r, "text", <<>>, t, s)
            /\ e.res = "err" => Inv(e.r, t, s) /\ ~Calm(e.r)
        BY <2>2, <3>2, StartIs
      <4>2. QED
        BY <4>1, OnwardNothing DEF Writer
    <3>3. QED
      BY <3>1, <3>2
  <2>4. CASE e.res # "ok" /\ o = e
    <3>1. Inv(o.r, u, s)
      BY <2>3, <2>4, DisturbedExtends DEF AtomsTold
    <3>2. QED
      BY <2>3, <2>4, <3>1
  <2>5. CASE e.res = "ok" /\ o \in Buffer(e.r)
    <3> DEFINE d == e.r
               x == d.text.pending \o atoms
               v == [d.text EXCEPT !.pending = x]
               b == [d EXCEPT !.text = v]
    <3>1. DOMAIN d = Fields /\ DOMAIN d.text = WriterFields
      BY <2>3 DEF Inv, Shaped
    <3>2. DOMAIN v = WriterFields /\ v.msg = d.text.msg /\ v.stopped = d.text.stopped /\ v.pending = x
      BY <3>1 DEF WriterFields
    <3>3. o \in Cut(b)
      <4>1. b = [d EXCEPT !.text.pending = @ \o atoms]
        BY <3>1 DEF Fields, WriterFields
      <4>2. QED
        BY <2>5, <4>1
    <3> HIDE DEF v, x
    <3>4. /\ Frame(d, b) /\ b.text = v /\ b.block = d.block /\ b.shown = d.shown
          /\ b.painted = d.painted /\ (Calm(b) <=> Calm(d))
      BY <3>1 DEF Fields, Frame, SameSections, Later, Calm
    <3> HIDE DEF b
    <3>5. d.mode = "text" /\ ~d.text.stopped /\ Begun(d.text)
      BY <1>2, <2>3, <2>5 DEF Kept, Frame, SameSections
    <3> HIDE DEF d
    <3>6. Inv(b, u, s) /\ b.mode = "text" /\ Begun(b.text) /\ ~b.text.stopped
      <4>1. Inv(d, t, s)
        BY <2>3 DEF d
      <4>2. Inv(b, u, s)
        BY <3>2, <3>4, <3>5, <4>1, Buffered DEF Frame, x
      <4>3. QED
        BY <3>2, <3>4, <3>5, <4>2 DEF Frame, SameSections, Begun
    <3>7. Frame(q, b) /\ Len(u) \in Nat
      BY <2>3, <3>4, FrameThen DEF d, AtomsTold, Extends
    <3>8. o \in Ok(b) \/ \E n \in 0..Len(b.text.pending) : o \in Emit(b, "text", n)
      <4>1. Listed(b.text.pending)
        BY <3>6 DEF Inv, Shaped
      <4>2. Len(b.text.pending) \in 0..Len(b.text.pending)
        BY <4>1 DEF Listed
      <4>3. /\ LastBreak(b.text.pending, {"nl"}) \in 0..Len(b.text.pending)
            /\ LastBreak(b.text.pending, {"sp"}) \in 0..Len(b.text.pending)
        BY <4>1, LastBreakIs
      <4>4. o \in Ok(b) \/ o \in Emit(b, "text", Len(b.text.pending))
            \/ o \in Emit(b, "text", LastBreak(b.text.pending, {"nl"}))
            \/ o \in Emit(b, "text", LastBreak(b.text.pending, {"sp"}))
        BY <3>3, Zenon DEF Cut, Flush, Writer
      <4>5. QED
        BY <4>2, <4>3, <4>4
    <3>9. /\ o.res \in {"ok", "err"} /\ Frame(b, o.r) /\ Inv(o.r, u, s)
          /\ o.res = "err" => ~Calm(o.r)
          /\ o.res = "ok" => Begun(o.r.text) /\ ~o.r.text.stopped
      <4>1. CASE o \in Ok(b)
        BY <3>6, <4>1, OkIs, FrameSelf
      <4>2. CASE \E n \in 0..Len(b.text.pending) : o \in Emit(b, "text", n)
        BY <3>6, <3>7, <4>2, EmitIs
      <4>3. QED
        BY <3>8, <4>1, <4>2
    <3>10. QED
      BY <1>2, <3>7, <3>9, FrameThen
  <2>6. QED
    BY <2>1, <2>3, <2>4, <2>5
<1>3. QED
  BY <1>1, <1>2

\* The record after the message of a writer is stopped.
Settled(q, k) ==
    LET w == Writer(q, k)
    IN WithWriter([q EXCEPT !.shown[w.msg].open = FALSE, !.thinking = FALSE], k,
                  [w EXCEPT !.stopped = TRUE])

\* A writer stops its message: it is settled.
LEMMA StoppedIs ==
    ASSUME NEW q, NEW t, NEW s, Inv(q, t, s), NEW k \in {"text", "block"}, Writes(q, k),
           Begun(Writer(q, k))
    PROVE  LET p == Settled(q, k)
           IN /\ Inv(p, t, s) /\ Frame(q, p) /\ Writer(p, k).stopped
              /\ p.text.pending = q.text.pending
<1> DEFINE w == Writer(q, k)
           n == w.msg
           x == [q.shown EXCEPT ![n].open = FALSE]
           d == [q EXCEPT !.shown = x, !.thinking = FALSE]
           v == [w EXCEPT !.stopped = TRUE]
           p == WithWriter(d, k, v)
<1>1. /\ DOMAIN q = Fields /\ q.shown \in Seq(Messages) /\ DOMAIN q.block = BlockFields
      /\ DOMAIN q.text = WriterFields /\ DOMAIN q.block.writer = WriterFields
  BY DEF Inv, Shaped
<1>2. n \in 1..Len(q.shown)
  BY DEF Inv, Placed, Writer, Begun
<1>3. Sealed(q.shown, x, n)
  BY <1>1, <1>2, SealIs
<1>4. d = [q EXCEPT !.shown[n].open = FALSE, !.thinking = FALSE]
  BY <1>1 DEF Fields
<1>5. DOMAIN v = WriterFields /\ v.msg = n /\ v.pending = w.pending /\ v.stopped
  BY <1>1 DEF WriterFields, Writer
<1> HIDE DEF x
<1>6. /\ Frame(q, d) /\ d.text = q.text /\ d.block = q.block /\ d.painted = q.painted /\ d.shown = x
      /\ (Calm(d) <=> Calm(q)) /\ DOMAIN d = Fields
  BY <1>1 DEF Fields, Frame, SameSections, Later, Calm
<1> HIDE DEF d, v
<1>7. CASE k = "text"
  <2>1. p = [d EXCEPT !.text = v]
    BY <1>7 DEF WithWriter
  <2>2. /\ Frame(q, p) /\ p.text = v /\ p.block = q.block /\ p.painted = q.painted /\ p.shown = x
        /\ (Calm(p) <=> Calm(q))
    BY <1>6, <2>1 DEF Fields, Frame, SameSections, Later, Calm
  <2> HIDE DEF p
  <2>3. q.mode = "text" /\ q.text.msg # 0 /\ w = q.text
    BY <1>7 DEF Writes, Begun, Writer
  <2>4. Inv(p, t, s)
    BY <1>3, <1>5, <2>2, <2>3, TextEnds DEF Frame
  <2>5. Writer(p, k).stopped /\ p.text.pending = q.text.pending
    BY <1>5, <1>7, <2>2, <2>3 DEF Writer
  <2>6. QED
    BY <1>4, <2>2, <2>4, <2>5 DEF p, v, Settled
<1>8. CASE k = "block"
  <2> DEFINE b == [q.block EXCEPT !.writer = v]
  <2>1. p = [d EXCEPT !.block = b]
    BY <1>1, <1>6, <1>8 DEF WithWriter, Fields, BlockFields
  <2>2. /\ DOMAIN b = BlockFields /\ b.writer = v /\ b.sent = q.block.sent /\ b.line = q.block.line
        /\ b.done = q.block.done /\ b.running = q.block.running
    BY <1>1 DEF BlockFields
  <2> HIDE DEF b
  <2>3. /\ Frame(q, p) /\ p.text = q.text /\ p.block = b /\ p.painted = q.painted /\ p.shown = x
        /\ (Calm(p) <=> Calm(q))
    BY <1>6, <2>1, <2>2 DEF Fields, Frame, SameSections, Later, Calm
  <2> HIDE DEF p
  <2>4. q.mode = "tools" /\ q.block.writer.msg # 0 /\ w = q.block.writer
    BY <1>8 DEF Writes, Begun, Writer
  <2>5. Inv(p, t, s)
    BY <1>3, <1>5, <2>2, <2>3, <2>4, BlockEnds DEF Frame
  <2>6. Writer(p, k).stopped /\ p.text.pending = q.text.pending
    BY <1>5, <1>8, <2>2, <2>3 DEF Writer
  <2>7. QED
    BY <1>4, <2>3, <2>5, <2>6 DEF p, v, Settled
<1>9. QED
  BY <1>7, <1>8

\* The rest of a stop, once the buffer is empty.
Ending(q, k) ==
    LET w == Writer(q, k) IN
    IF ~Begun(w) \/ w.stopped THEN Ok(q)
    ELSE Then(Serve(q), LAMBDA p :
           Ok(WithWriter([p EXCEPT !.shown[w.msg].open = FALSE, !.thinking = FALSE], k,
                         [w EXCEPT !.stopped = TRUE])))
         \cup Lost(q, [q EXCEPT !.shown[w.msg].open = FALSE, !.thinking = FALSE])

LEMMA StopIs ==
    ASSUME NEW q, NEW k, NEW o, o \in StopStream(q, k)
    PROVE  \E e \in Flush(q, k) : \/ e.res # "ok" /\ o = e
                                  \/ e.res = "ok" /\ o \in Ending(e.r, k)
<1>1. o \in Then(Flush(q, k), LAMBDA s : Ending(s, k))
  BY DEF StopStream, Ending
<1>2. QED
  BY <1>1, Zenon DEF Then

LEMMA EndingIs ==
    ASSUME NEW q, NEW t, NEW s, Inv(q, t, s), NEW k \in {"text", "block"}, Writes(q, k),
           NEW o, o \in Ending(q, k)
    PROVE  /\ o.res \in {"ok", "err"} /\ Frame(q, o.r) /\ Inv(o.r, t, s)
           /\ o.res = "err" => ~Calm(o.r)
           /\ o.res = "ok" /\ (~Begun(Writer(q, k)) \/ Writer(q, k).stopped) => o.r = q
           /\ o.res = "ok" /\ Begun(Writer(q, k)) =>
                Writer(o.r, k).stopped /\ o.r.text.pending = q.text.pending
<1> DEFINE w == Writer(q, k)
           Ended(p) == Ok(WithWriter([p EXCEPT !.shown[w.msg].open = FALSE, !.thinking = FALSE], k,
                                     [w EXCEPT !.stopped = TRUE]))
<1>1. CASE ~Begun(w) \/ w.stopped
  <2>1. o.res = "ok" /\ o.r = q
    BY <1>1, OkIs DEF Ending
  <2>2. QED
    BY <1>1, <2>1, FrameSelf
<1>2. CASE Begun(w) /\ ~w.stopped
  <2> DEFINE sealed == [q EXCEPT !.shown[w.msg].open = FALSE, !.thinking = FALSE]
  <2>0. CASE o \in Lost(q, sealed)
    <3> DEFINE x == [q.shown EXCEPT ![w.msg].open = FALSE]
               d == [q EXCEPT !.shown = x, !.thinking = FALSE]
    <3>1. DOMAIN q = Fields /\ q.shown \in Seq(Messages)
      BY DEF Inv, Shaped
    <3>2. w.msg \in 1..Len(q.shown)
      BY <1>2 DEF Inv, Placed, Writer, Begun
    <3>3. Sealed(q.shown, x, w.msg)
      BY <3>1, <3>2, SealIs
    <3>4. sealed = d
      BY <3>1 DEF Fields
    <3> HIDE DEF x, w
    <3>5. /\ Frame(q, d) /\ d.painted = q.painted /\ d.text = q.text /\ d.block = q.block
          /\ d.shown = x
      BY <3>1 DEF Fields, Frame, SameSections, Later
    <3> HIDE DEF d, sealed
    <3>6. o.res = "err" /\ Frame(q, o.r) /\ Inv(o.r, t, s) /\ ~Calm(o.r)
      BY <2>0, <3>3, <3>4, <3>5, LostInv
    <3>7. QED
      BY <3>6
  <2> SUFFICES ASSUME o \notin Lost(q, sealed)
               PROVE  /\ o.res \in {"ok", "err"} /\ Frame(q, o.r) /\ Inv(o.r, t, s)
                      /\ o.res = "err" => ~Calm(o.r)
                      /\ o.res = "ok" /\ Begun(w) =>
                           Writer(o.r, k).stopped /\ o.r.text.pending = q.text.pending
    BY <1>2, <2>0
  <2> HIDE DEF sealed
  <2>1. PICK e \in Serve(q) : \/ e.res # "ok" /\ o = e
                              \/ e.res = "ok" /\ o \in Ended(e.r)
    <3>1. o \in Then(Serve(q), Ended)
      BY <1>2 DEF Ending, sealed
    <3> HIDE DEF Ended
    <3>2. QED
      BY <3>1, Zenon DEF Then
  <2>2. Fine(q, e, t, s) /\ e.res \in {"ok", "err"} /\ (e.res = "ok" => e.r = q) /\ Frame(q, e.r)
    BY ServeIs, ServeFrames
  <2>3. CASE e.res # "ok" /\ o = e
    BY <2>2, <2>3 DEF Fine
  <2>4. CASE e.res = "ok" /\ o \in Ended(e.r)
    <3> DEFINE p == WithWriter([q EXCEPT !.shown[w.msg].open = FALSE, !.thinking = FALSE], k,
                               [w EXCEPT !.stopped = TRUE])
    <3>1. o.res = "ok" /\ o.r = p
      BY <2>2, <2>4, OkIs
    <3>2. /\ Inv(p, t, s) /\ Frame(q, p) /\ Writer(p, k).stopped
          /\ p.text.pending = q.text.pending
      <4>1. Begun(Writer(q, k))
        BY <1>2
      <4>2. p = Settled(q, k)
        BY DEF Settled
      <4> HIDE DEF p
      <4>3. QED
        BY <4>1, <4>2, StoppedIs
    <3> HIDE DEF p
    <3>3. QED
      BY <1>2, <3>1, <3>2
  <2>5. QED
    BY <2>1, <2>3, <2>4
<1>3. QED
  BY <1>1, <1>2

LEMMA StopTextIs ==
    ASSUME NEW q, NEW t, NEW s, Inv(q, t, s), Len(t) \in Nat, q.mode = "text",
           NEW o, o \in StopStream(q, "text")
    PROVE  /\ o.res \in {"ok", "err"} /\ Frame(q, o.r) /\ Inv(o.r, t, s)
           /\ o.res = "err" => ~Calm(o.r)
           /\ o.res = "ok" /\ (~Begun(q.text) \/ q.text.stopped) => o.r = q
           /\ o.res = "ok" /\ Begun(q.text) /\ ~q.text.stopped =>
                o.r.text.stopped /\ o.r.text.pending = <<>>
<1>1. PICK e \in Flush(q, "text") : \/ e.res # "ok" /\ o = e
                                    \/ e.res = "ok" /\ o \in Ending(e.r, "text")
  BY StopIs
<1>2. Listed(q.text.pending) /\ Len(q.text.pending) \in 0..Len(q.text.pending)
  BY DEF Inv, Shaped, Listed
<1>3. /\ e.res \in {"ok", "err"} /\ Frame(q, e.r) /\ Inv(e.r, t, s)
      /\ e.res = "err" => ~Calm(e.r)
      /\ e.res = "ok" /\ (~Begun(q.text) \/ q.text.stopped) => e.r = q
      /\ e.res = "ok" /\ Begun(q.text) /\ ~q.text.stopped =>
           /\ Begun(e.r.text) /\ ~e.r.text.stopped
           /\ Len(e.r.text.pending) = Len(q.text.pending) - Len(q.text.pending)
  <2>1. e \in Emit(q, "text", Len(q.text.pending))
    BY DEF Flush, Writer
  <2>2. QED
    BY <1>2, <2>1, EmitIs
<1>4. CASE e.res # "ok" /\ o = e
  BY <1>3, <1>4
<1>5. CASE e.res = "ok" /\ o \in Ending(e.r, "text")
  <2>1. Writes(e.r, "text")
    BY <1>3 DEF Writes, Frame, SameSections
  <2>2. /\ o.res \in {"ok", "err"} /\ Frame(e.r, o.r) /\ Inv(o.r, t, s)
        /\ o.res = "err" => ~Calm(o.r)
        /\ o.res = "ok" /\ (~Begun(e.r.text) \/ e.r.text.stopped) => o.r = e.r
        /\ o.res = "ok" /\ Begun(e.r.text) => o.r.text.stopped /\ o.r.text.pending = e.r.text.pending
    BY <1>3, <1>5, <2>1, EndingIs DEF Writer
  <2>3. Frame(q, o.r)
    BY <1>3, <2>2, FrameThen
  <2>4. ASSUME o.res = "ok", Begun(q.text), ~q.text.stopped
        PROVE  o.r.text.stopped /\ o.r.text.pending = <<>>
    <3>1. o.r.text.stopped /\ o.r.text.pending = e.r.text.pending /\ Len(e.r.text.pending) = 0
      BY <1>2, <1>3, <1>5, <2>2, <2>4
    <3>2. Listed(e.r.text.pending)
      BY <1>3 DEF Inv, Shaped
    <3>3. QED
      BY <3>1, <3>2, NothingIs
  <2>5. QED
    BY <1>3, <1>5, <2>2, <2>3, <2>4
<1>6. QED
  BY <1>1, <1>4, <1>5

LEMMA StopBlockIs ==
    ASSUME NEW q, NEW t, NEW s, Inv(q, t, s), q.mode = "tools", q.tasks,
           NEW o, o \in StopStream(q, "block")
    PROVE  /\ o.res \in {"ok", "err"} /\ Frame(q, o.r) /\ Inv(o.r, t, s)
           /\ o.res = "err" => ~Calm(o.r)
           /\ o.res = "ok" => o.r.block.writer.msg = 0 \/ o.r.block.writer.stopped
<1>1. PICK e \in Flush(q, "block") : \/ e.res # "ok" /\ o = e
                                     \/ e.res = "ok" /\ o \in Ending(e.r, "block")
  BY StopIs
<1>2. e.res = "ok" /\ e.r = q
  <2>1. Len(q.block.writer.pending) = 0
    BY OneIs DEF Inv, Sections
  <2>2. e \in Ok(q)
    BY <2>1 DEF Flush, Emit, Writer
  <2>3. QED
    BY <2>2, OkIs
<1>3. Writes(q, "block")
  BY DEF Writes
<1>4. /\ o.res \in {"ok", "err"} /\ Frame(q, o.r) /\ Inv(o.r, t, s)
      /\ o.res = "err" => ~Calm(o.r)
      /\ o.res = "ok" /\ (~Begun(q.block.writer) \/ q.block.writer.stopped) => o.r = q
      /\ o.res = "ok" /\ Begun(q.block.writer) => o.r.block.writer.stopped
  BY <1>1, <1>2, <1>3, EndingIs DEF Writer
<1>5. QED
  BY <1>4 DEF Begun

-----------------------------------------------------------------------------
(* The block of cards and the line.                                        *)

\* A card of the block counts as sent.
LEMMA SentIs ==
    ASSUME NEW q, NEW t, NEW s, Inv(q, t, s), q.mode = "tools", NEW id,
           \E i \in 1..Len(q.painted) : q.painted[i].item.k = "card" /\ q.painted[i].item.id = id
    PROVE  LET p == [q EXCEPT !.block.sent = @ \cup {id}] IN
           Inv(p, t, s) /\ Frame(q, p)
<1> DEFINE b == [q.block EXCEPT !.sent = @ \cup {id}]
           p == [q EXCEPT !.block = b]
<1>1. DOMAIN q = Fields /\ DOMAIN q.block = BlockFields
  BY DEF Inv, Shaped
<1>2. p = [q EXCEPT !.block.sent = @ \cup {id}]
  BY <1>1 DEF Fields, BlockFields
<1>3. /\ DOMAIN b = BlockFields /\ b.writer = q.block.writer /\ b.line = q.block.line
      /\ b.done = q.block.done /\ b.running = q.block.running /\ b.sent = q.block.sent \cup {id}
  BY <1>1 DEF BlockFields
<1> HIDE DEF b
<1>4. /\ Frame(q, p) /\ p.text = q.text /\ p.block = b /\ p.painted = q.painted
      /\ p.shown = q.shown /\ (Calm(p) <=> Calm(q))
  BY <1>1, <1>3 DEF Fields, Frame, SameSections, Later, Calm
<1> HIDE DEF p
<1>5. Shaped(p)
  BY <1>3, <1>4 DEF Inv, Shaped, Frame, SameSections
<1>6. Sections(p)
  BY <1>3, <1>4 DEF Inv, Sections, Frame, SameSections
<1>7. Placed(p)
  BY <1>3, <1>4 DEF Inv, Placed
<1>8. SentShown(p)
  BY <1>3, <1>4 DEF Inv, SentShown
<1>9. Streams(q) => Streams(p)
  BY <1>3, <1>4 DEF Streams
<1>10. Inv(p, t, s)
  BY <1>4, <1>5, <1>6, <1>7, <1>8, <1>9 DEF Inv, Frame, SameSections
<1>11. QED
  BY <1>2, <1>4, <1>10

\* More cards may spin than do.
LEMMA SpinsMore ==
    ASSUME NEW q, NEW t, NEW s, NEW v, Inv(q, t, s), Calm(q) => s \subseteq v
    PROVE  Inv(q, t, v)
  BY DEF Inv, SpinsOnly

\* What an update writes down about its card and the heading is no matter of the invariant.
LEMMA NotedIs ==
    ASSUME NEW q, NEW t, NEW s, Inv(q, t, s), q.mode = "tools", NEW b,
           DOMAIN b = BlockFields, b.writer = q.block.writer, b.sent = q.block.sent,
           b.running = q.block.running, b.line = q.block.line, b.done = q.block.done
    PROVE  LET p == [q EXCEPT !.block = b] IN
           Inv(p, t, s) /\ Frame(q, p) /\ Kept(q, p) /\ p.block = b /\ (Calm(p) <=> Calm(q))
<1> DEFINE p == [q EXCEPT !.block = b]
<1>1. DOMAIN q = Fields
  BY DEF Inv, Shaped
<1>2. /\ Frame(q, p) /\ p.text = q.text /\ p.block = b /\ p.painted = q.painted
      /\ p.shown = q.shown /\ (Calm(p) <=> Calm(q)) /\ DOMAIN p = Fields
  BY <1>1 DEF Fields, Frame, SameSections, Later, Calm
<1> HIDE DEF p
<1>3. Alike(q, p) /\ Kept(q, p)
  BY <1>2 DEF Alike, Kept, Frame, SameSections
<1>4. Inv(p, t, s)
  BY <1>2, <1>3, AlikeInv
<1>5. QED
  BY <1>2, <1>3, <1>4 DEF p

LEMMA HeadIs ==
    ASSUME NEW b, NEW id, NEW st
    PROVE  CardItems(PlanPrefix(b) \o <<Item("card", id, st)>>, id, st)
<1> DEFINE c == <<Item("card", id, st)>>
           h == <<Item("plan", "heading", "-")>>
           pre == PlanPrefix(b)
           x == pre \o c
<1>1. Listed(c) /\ Len(c) = 1 /\ c[1] = Item("card", id, st)
  BY OneIs
<1>2. Listed(h) /\ Len(h) = 1 /\ h[1] = Item("plan", "heading", "-")
  BY OneIs
<1>3. c[1].k = "card" /\ c[1].id = id /\ c[1].st = st /\ h[1].k = "plan"
  BY <1>1, <1>2 DEF Item
<1>4. Listed(<<>>) /\ Len(<<>>) = 0
  BY OneIs
<1>5. pre = h \/ pre = <<>>
  BY DEF PlanPrefix
<1> HIDE DEF c, h, pre
<1>6. Listed(pre) /\ (Len(pre) = 0 \/ (Len(pre) = 1 /\ pre[1].k = "plan"))
  BY <1>2, <1>3, <1>4, <1>5
<1>7. Joins(pre, c, x)
  BY <1>1, <1>6, JoinsIs
<1> HIDE DEF x
<1>8. /\ Listed(x) /\ Len(x) = Len(pre) + 1
      /\ \A i \in 1..Len(pre) : x[i] = pre[i]
      /\ x[Len(pre) + 1] = c[1]
  BY <1>1, <1>7 DEF Joins
<1>9. CardItems(x, id, st)
  BY <1>3, <1>6, <1>8 DEF CardItems
<1>10. QED
  BY <1>9 DEF x, pre, c

CardSent(p, id) == Ok([p EXCEPT !.block.sent = @ \cup {id}])

\* The cards that may spin once a card with status st was painted for id.
Spins(s, v, id, st) == (\A z \in s : z # id => z \in v) /\ (st \notin {"complete", "error"} => id \in v)

LEMMA CardSentIs ==
    ASSUME NEW q, NEW t, NEW s, Inv(q, t, s), Listed(t), q.mode = "tools", q.tasks,
           NEW id, NEW st, NEW items, CardItems(items, id, st), NEW p, Onward(q, p, "block", items, t, s),
           NEW u, CardTold(t, u, id), NEW v, Spins(s, v, id, st), NEW o, o \in CardSent(p, id)
    PROVE  o.res = "ok" /\ Frame(q, o.r) /\ Inv(o.r, u, v)
<1>1. PICK w : /\ Inv(w, t, s) /\ Frame(q, w) /\ Kept(q, w) /\ Begun(Writer(w, "block"))
               /\ Onto(w, p, Writer(w, "block").msg, items)
  BY DEF Onward
<1>2. w.mode = "tools" /\ w.tasks /\ w.block.writer.msg # 0
  BY <1>1 DEF Frame, SameSections, Begun, Writer
<1>3. /\ SameSections(w, p) /\ p.shown = w.shown /\ p.text = w.text /\ p.block = w.block
      /\ (Calm(p) => Calm(w)) /\ Grown(w.painted, p.painted, w.block.writer.msg, items)
      /\ Frame(w, p)
  BY <1>1, LaterCalm DEF Onto, Frame, Writer
<1>4. (\A z \in s : z # id => z \in v) /\ (st \notin {"complete", "error"} => id \in v)
  BY DEF Spins
<1>5. /\ Inv(p, u, v)
      /\ \E i \in 1..Len(p.painted) : p.painted[i].item.k = "card" /\ p.painted[i].item.id = id
  BY <1>1, <1>2, <1>3, <1>4, CardPainted
<1> DEFINE d == [p EXCEPT !.block.sent = @ \cup {id}]
<1>6. p.mode = "tools"
  BY <1>2, <1>3 DEF SameSections
<1>7. Inv(d, u, v) /\ Frame(p, d)
  BY <1>5, <1>6, SentIs
<1>8. o.res = "ok" /\ o.r = d
  BY OkIs DEF CardSent
<1> HIDE DEF d
<1>9. Frame(q, d)
  BY <1>1, <1>3, <1>7, FrameThen
<1>10. QED
  BY <1>7, <1>8, <1>9

\* An update that is not sent now: its card was, and the tool was told.
LEMMA CardKept ==
    ASSUME NEW q, NEW t, NEW s, Inv(q, t, s), Listed(t), q.mode = "tools", q.tasks, NEW id, NEW st,
           id \in q.block.sent, st \notin {"complete", "error"},
           NEW u, CardTold(t, u, id), NEW v, Spins(s, v, id, st)
    PROVE  Inv(q, u, v)
<1>1. Extends(t, u)
  BY CardToldIs DEF Inv
<1>2. CASE ~Calm(q)
  BY <1>1, <1>2, DisturbedExtends
<1>3. CASE Calm(q)
  <2>1. PICK i \in 1..Len(q.painted) :
          q.painted[i].item.k = "card" /\ q.painted[i].item.id = id
    BY DEF Inv, SentShown
  <2>2. id \in Tools => IsTold(t, id)
    <3>1. Delivered(q.tasks, q.painted, q.text.pending, t)
      BY <1>3 DEF Inv
    <3>2. id \in Tools => \E a \in 1..Len(t) : ShowsItem(q.painted, i, t[a])
      BY <2>1, <3>1 DEF Delivered
    <3>3. QED
      BY <2>1, <3>2 DEF ShowsItem, IsTold
  <2>3. u = t
    BY <2>2 DEF CardTold
  <2>4. s \subseteq v
    BY DEF Spins
  <2>5. QED
    BY <2>3, <2>4, SpinsMore
<1>4. QED
  BY <1>2, <1>3

\* After a rollover the fresh message gets its own heading.
SentAgain(q, x, id, st) ==
    Then(Unpainted(AppendStream([q EXCEPT !.block.planOpen = TRUE], "block",
                                PlanPrefix(x) \o <<Item("card", id, st)>>)),
         LAMBDA p : CardSent(p, id))

LEMMA AgainIs ==
    ASSUME NEW q, NEW t, NEW s, Inv(q, t, s), Listed(t), q.mode = "tools", q.tasks,
           Begun(Writer(q, "block")), NEW x, NEW id, NEW st,
           NEW u, CardTold(t, u, id), NEW v, Spins(s, v, id, st),
           NEW o, o \in SentAgain(q, x, id, st)
    PROVE  /\ o.res \in {"ok", "err"} /\ Frame(q, o.r) /\ Inv(o.r, u, v)
           /\ o.res = "err" => ~Calm(o.r)
<1> DEFINE items == PlanPrefix(x) \o <<Item("card", id, st)>>
           b == [q.block EXCEPT !.planOpen = TRUE]
           d == [q EXCEPT !.block = b]
<1>1. DOMAIN q = Fields /\ DOMAIN q.block = BlockFields
  BY DEF Inv, Shaped
<1>2. d = [q EXCEPT !.block.planOpen = TRUE]
  BY <1>1 DEF Fields, BlockFields
<1>3. /\ DOMAIN b = BlockFields /\ b.writer = q.block.writer /\ b.sent = q.block.sent
      /\ b.running = q.block.running /\ b.line = q.block.line /\ b.done = q.block.done
  BY <1>1 DEF BlockFields
<1> HIDE DEF b
<1>4. Inv(d, t, s) /\ Frame(q, d) /\ Kept(q, d) /\ d.block = b
  BY <1>3, NotedIs
<1>5. CardItems(items, id, st)
  BY HeadIs
<1> HIDE DEF items
<1>6. PICK e \in Unpainted(AppendStream(d, "block", items)) :
        \/ e.res # "ok" /\ o = e
        \/ e.res = "ok" /\ o \in CardSent(e.r, id)
  <2>1. o \in Then(Unpainted(AppendStream(d, "block", items)), LAMBDA p : CardSent(p, id))
    BY <1>2 DEF items, SentAgain
  <2> HIDE DEF d
  <2>2. QED
    BY <2>1, Zenon DEF Then
<1> HIDE DEF d
<1>7. Begun(Writer(d, "block")) /\ d.mode = "tools" /\ d.tasks /\ Listed(items)
  BY <1>3, <1>4, <1>5 DEF Writer, Frame, SameSections, CardItems
<1>8. /\ e.res \in {"ok", "err"} /\ Frame(d, e.r)
      /\ e.res = "ok" => Onto(d, e.r, Writer(d, "block").msg, items)
      /\ e.res = "err" => Inv(e.r, t, s) /\ ~Calm(e.r)
  BY <1>4, <1>7, UnpaintedIs
<1>9. CASE e.res # "ok" /\ o = e
  <2>1. Inv(o.r, u, v)
    <3>1. Extends(t, u)
      BY CardToldIs DEF Inv
    <3>2. QED
      BY <1>8, <1>9, <3>1, DisturbedExtends
  <2>2. QED
    BY <1>4, <1>8, <1>9, <2>1, FrameThen
<1>10. CASE e.res = "ok" /\ o \in CardSent(e.r, id)
  <2>1. Onward(d, e.r, "block", items, t, s)
    BY <1>4, <1>7, <1>8, <1>10, KeptIf, FrameSelf DEF Onward
  <2>2. o.res = "ok" /\ Frame(d, o.r) /\ Inv(o.r, u, v)
    BY <1>4, <1>5, <1>7, <1>10, <2>1, CardSentIs
  <2>3. QED
    BY <1>4, <2>2, FrameThen
<1>11. QED
  BY <1>6, <1>9, <1>10

\* An update paints its card, or keeps it for later.
LEMMA UpdateIs ==
    ASSUME NEW q, NEW t, NEW s, Inv(q, t, s), Listed(t), q.mode = "tools", q.tasks, NEW id, NEW st,
           NEW u, CardTold(t, u, id), NEW v, Spins(s, v, id, st),
           NEW o, o \in Update(q, id, st)
    PROVE  /\ o.res \in {"ok", "err"} /\ Frame(q, o.r) /\ Inv(o.r, u, v)
           /\ o.res = "err" => ~Calm(o.r)
<1> DEFINE b == [q.block EXCEPT !.last[id] = st]
           c == [b EXCEPT !.planOpen = TRUE]
           p == [q EXCEPT !.block = c]
           card == <<Item("card", id, st)>>
           head == PlanPrefix(b) \o card
           Sent(d) == CardSent(d, id)
           Again(d) == Then(Unpainted(AppendStream([d EXCEPT !.block.planOpen = TRUE], "block",
                                          PlanPrefix([d EXCEPT !.block.planOpen = FALSE].block) \o card)),
                            Sent)
           Outs == AppendStream(p, "block", head)
           Started == Then(StartWithOptions(p, "block", head), Sent)
           Rolled(d) == Then(Rollover(d, "block"), Again)
           Send == IF ~Begun(p.block.writer) THEN Started
                   ELSE UNION {CASE e.res = "ok" -> Sent(e.r)
                                 [] e.res = "final" -> Rolled(e.r)
                                 [] OTHER -> {e} : e \in Outs}
<1>0. DOMAIN q = Fields /\ DOMAIN q.block = BlockFields
  BY DEF Inv, Shaped
<1>1. \/ o \in Send
      \/ o \in Ok([q EXCEPT !.block = b]) /\ st \notin {"complete", "error"} /\ id \in b.sent
  <2>1. \E flush \in ShouldFlush(b, id, st) : o \in IF flush THEN Send ELSE Ok([q EXCEPT !.block = b])
    BY Zenon DEF Update, CardSent
  <2> HIDE DEF Send
  <2>2. QED
    BY <2>1 DEF ShouldFlush
<1>2. /\ DOMAIN b = BlockFields /\ b.writer = q.block.writer /\ b.sent = q.block.sent
      /\ b.running = q.block.running /\ b.line = q.block.line /\ b.done = q.block.done
  BY <1>0 DEF BlockFields
<1>3. CASE o \in Ok([q EXCEPT !.block = b]) /\ st \notin {"complete", "error"} /\ id \in b.sent
  <2> DEFINE d == [q EXCEPT !.block = b]
  <2> HIDE DEF b
  <2>1. Inv(d, t, s) /\ Frame(q, d) /\ d.block = b
    BY <1>2, NotedIs
  <2>2. o.res = "ok" /\ o.r = d
    BY <1>3, OkIs
  <2> HIDE DEF d
  <2>3. d.mode = "tools" /\ d.tasks /\ id \in d.block.sent
    BY <1>3, <2>1 DEF Frame, SameSections
  <2>4. Inv(d, u, v)
    BY <1>3, <2>1, <2>3, CardKept
  <2>5. QED
    BY <2>1, <2>2, <2>4
<1>4. CASE o \in Send
  <2>1. /\ DOMAIN c = BlockFields /\ c.writer = q.block.writer /\ c.sent = q.block.sent
        /\ c.running = q.block.running /\ c.line = q.block.line /\ c.done = q.block.done
    BY <1>2 DEF BlockFields
  <2>2. CardItems(head, id, st)
    BY HeadIs
  <2>3. Extends(t, u)
    BY CardToldIs DEF Inv
  <2>4. CASE Begun(p.block.writer)
    <3>1. PICK e \in Outs : \/ e.res = "ok" /\ o \in Sent(e.r)
                            \/ e.res = "final" /\ o \in Rolled(e.r)
                            \/ e.res \notin {"ok", "final"} /\ o = e
      <4>1. PICK e \in Outs : o \in CASE e.res = "ok" -> Sent(e.r)
                                      [] e.res = "final" -> Rolled(e.r)
                                      [] OTHER -> {e}
        BY <1>4, <2>4
      <4> HIDE DEF Sent, Rolled, Outs
      <4>2. QED
        BY <4>1
    <3> HIDE DEF c, b, head, Send
    <3>2. Inv(p, t, s) /\ Frame(q, p) /\ Kept(q, p) /\ p.block = c
      BY <2>1, NotedIs
    <3> HIDE DEF p
    <3>3. /\ Begun(Writer(p, "block")) /\ p.mode = "tools" /\ p.tasks /\ Listed(head)
          /\ Writes(p, "block")
      BY <2>2, <2>4, <3>2 DEF Writer, Frame, SameSections, CardItems, Writes
    <3>4. /\ e.res \in {"ok", "final", "err"} /\ Frame(p, e.r)
          /\ e.res = "ok" => Onto(p, e.r, Writer(p, "block").msg, head)
          /\ e.res = "final" => /\ Inv(e.r, t, s) /\ e.r.text = p.text /\ e.r.block = p.block
                                /\ ~Streaming(e.r, "block")
          /\ e.res = "err" => Inv(e.r, t, s) /\ ~Calm(e.r)
      BY <3>2, <3>3, AppendStreamIs
    <3>5. CASE e.res = "ok" /\ o \in Sent(e.r)
      <4>1. Onward(p, e.r, "block", head, t, s)
        BY <3>2, <3>3, <3>4, <3>5, KeptIf, FrameSelf DEF Onward
      <4>2. o.res = "ok" /\ Frame(p, o.r) /\ Inv(o.r, u, v)
        BY <2>2, <3>2, <3>3, <3>5, <4>1, CardSentIs
      <4>3. QED
        BY <3>2, <4>2, FrameThen
    <3>6. CASE e.res = "final" /\ o \in Rolled(e.r)
      <4> DEFINE z == e.r
      <4>1. PICK d \in Rollover(z, "block") : \/ d.res # "ok" /\ o = d
                                              \/ d.res = "ok" /\ o \in Again(d.r)
        <5>1. o \in Then(Rollover(z, "block"), Again)
          BY <3>6
        <5> HIDE DEF Again, z
        <5>2. QED
          BY <5>1, Zenon DEF Then
      <4>2. Inv(z, t, s) /\ Writes(z, "block") /\ Begun(Writer(z, "block")) /\ ~Streaming(z, "block")
        BY <3>3, <3>4, <3>6, WritesFrame DEF Writer
      <4> HIDE DEF z
      <4>3. /\ d.res \in {"ok", "err"} /\ Frame(z, d.r) /\ Inv(d.r, t, s)
            /\ d.res = "ok" => Kept(z, d.r) /\ Begun(Writer(d.r, "block"))
            /\ d.res = "err" => ~Calm(d.r)
        BY <4>2, RolloverIs
      <4>4. Frame(q, d.r)
        BY <3>2, <3>4, <4>3, FrameThen DEF z
      <4>5. CASE d.res # "ok" /\ o = d
        BY <2>3, <4>3, <4>4, <4>5, DisturbedExtends
      <4>6. CASE d.res = "ok" /\ o \in Again(d.r)
        <5>1. d.r.mode = "tools" /\ d.r.tasks
          BY <4>4 DEF Frame, SameSections
        <5> DEFINE x == [d.r EXCEPT !.block.planOpen = FALSE].block
        <5>0. o \in SentAgain(d.r, x, id, st)
          BY <4>6 DEF SentAgain
        <5> HIDE DEF x, Again
        <5>2. /\ o.res \in {"ok", "err"} /\ Frame(d.r, o.r) /\ Inv(o.r, u, v)
              /\ o.res = "err" => ~Calm(o.r)
          BY <4>3, <4>6, <5>0, <5>1, AgainIs
        <5>3. QED
          BY <4>4, <5>2, FrameThen
      <4>7. QED
        BY <4>1, <4>5, <4>6
    <3>7. CASE e.res \notin {"ok", "final"} /\ o = e
      <4>1. Inv(o.r, u, v)
        BY <2>3, <3>4, <3>7, DisturbedExtends
      <4>2. QED
        BY <3>2, <3>4, <3>7, <4>1, FrameThen
    <3>8. QED
      BY <3>1, <3>5, <3>6, <3>7
  <2>5. CASE ~Begun(p.block.writer)
    <3>1. PICK e \in StartWithOptions(p, "block", head) : \/ e.res # "ok" /\ o = e
                                                          \/ e.res = "ok" /\ o \in Sent(e.r)
      <4>1. o \in Started
        BY <1>4, <2>5
      <4> HIDE DEF p, head, Sent
      <4>2. QED
        BY <4>1, Zenon DEF Then
    <3> HIDE DEF c, b, head, Send
    <3>2. Inv(p, t, s) /\ Frame(q, p) /\ Kept(q, p) /\ p.block = c
      BY <2>1, NotedIs
    <3> HIDE DEF p
    <3>3. /\ ~Begun(Writer(p, "block")) /\ p.mode = "tools" /\ p.tasks /\ Listed(head)
          /\ Writes(p, "block")
      BY <2>2, <2>5, <3>2 DEF Writer, Frame, SameSections, CardItems, Writes
    <3>4. /\ e.res \in {"ok", "err"} /\ Frame(p, e.r)
          /\ e.res = "ok" => Onward(p, e.r, "block", head, t, s)
          /\ e.res = "err" => Inv(e.r, t, s) /\ ~Calm(e.r)
      BY <3>2, <3>3, StartIs
    <3>5. CASE e.res = "ok" /\ o \in Sent(e.r)
      <4>1. o.res = "ok" /\ Frame(p, o.r) /\ Inv(o.r, u, v)
        BY <2>2, <3>2, <3>3, <3>4, <3>5, CardSentIs
      <4>2. QED
        BY <3>2, <4>1, FrameThen
    <3>6. CASE e.res # "ok" /\ o = e
      <4>1. Inv(o.r, u, v)
        BY <2>3, <3>4, <3>6, DisturbedExtends
      <4>2. QED
        BY <3>2, <3>4, <3>6, <4>1, FrameThen
    <3>7. QED
      BY <3>1, <3>5, <3>6
  <2>6. QED
    BY <2>4, <2>5
<1>5. QED
  BY <1>1, <1>3, <1>4

\* The cards that run are of ids that are known, and the tools among them were told.
Running(q, t) ==
    /\ q.block.running \subseteq Tools \cup Plans
    /\ \A id \in q.block.running : id \in Tools => IsTold(t, id)
    /\ ~q.tasks => q.block.running = {}

\* The invariant: the cards that may spin are those that run.
Whole(q, t) == Inv(q, t, q.block.running) /\ Running(q, t) /\ Listed(t)

\* p has the sections of q, and comes later.
Stays(q, p) == SameSections(q, p) /\ Later(q, p)

LEMMA StaysThen ==
    ASSUME NEW q, NEW p, NEW u, Stays(q, p), Stays(p, u)
    PROVE  Stays(q, u)
  BY LaterTrans DEF Stays, SameSections

\* Cards start or stop running.
LEMMA RunIs ==
    ASSUME NEW q, NEW t, NEW v, Inv(q, t, v), q.mode = "tools", NEW w,
           Calm(q) => w = v
    PROVE  LET p == [q EXCEPT !.block.running = w] IN
           Inv(p, t, w) /\ Stays(q, p) /\ p.block.running = w /\ (Calm(p) <=> Calm(q))
<1> DEFINE b == [q.block EXCEPT !.running = w]
           p == [q EXCEPT !.block = b]
<1>1. DOMAIN q = Fields /\ DOMAIN q.block = BlockFields
  BY DEF Inv, Shaped
<1>2. p = [q EXCEPT !.block.running = w]
  BY <1>1 DEF Fields, BlockFields
<1>3. /\ DOMAIN b = BlockFields /\ b.writer = q.block.writer /\ b.sent = q.block.sent
      /\ b.line = q.block.line /\ b.done = q.block.done /\ b.running = w
  BY <1>1 DEF BlockFields
<1> HIDE DEF b
<1>4. /\ Stays(q, p) /\ p.text = q.text /\ p.block = b /\ p.painted = q.painted
      /\ p.shown = q.shown /\ (Calm(p) <=> Calm(q)) /\ DOMAIN p = Fields
  BY <1>1 DEF Fields, Stays, SameSections, Later, Calm
<1> HIDE DEF p
<1>5. Alike(q, p)
  BY <1>3, <1>4 DEF Alike, Stays, SameSections
<1>6. Inv(p, t, v)
  BY <1>4, <1>5, AlikeInv
<1>7. Inv(p, t, w)
  BY <1>4, <1>6, SpinsMore
<1>8. QED
  BY <1>2, <1>3, <1>4, <1>7

LEMMA UpdateCardIs ==
    ASSUME NEW q, NEW t, Whole(q, t), q.mode = "tools", q.tasks, NEW ev, ev.id \in Tools \cup Plans,
           NEW u, CardTold(t, u, ev.id), NEW o, o \in UpdateCard(q, ev)
    PROVE  /\ o.res \in {"ok", "err"} /\ Stays(q, o.r) /\ Whole(o.r, u)
           /\ o.res = "err" => ~Calm(o.r)
<1> DEFINE s == q.block.running
           id == ev.id
           v == IF ev.status \in Terminal THEN s \ {id} ELSE s \cup {id}
           st == ResolveStatus(q.block, ev)
           Run(d) == Ok([d EXCEPT !.block.running = IF ev.status \in Terminal THEN @ \ {ev.id}
                                                    ELSE @ \cup {ev.id}])
<1>1. PICK e \in Update(q, id, st) : \/ e.res # "ok" /\ o = e
                                     \/ e.res = "ok" /\ o \in Run(e.r)
  <2>1. o \in Then(Update(q, id, st), Run)
    BY DEF UpdateCard
  <2> HIDE DEF Run, id, st
  <2>2. QED
    BY <2>1, Zenon DEF Then
<1>2. Inv(q, t, s) /\ Listed(t) /\ Running(q, t) /\ Numbered(t)
  BY DEF Whole, Inv
<1>3. Spins(s, v, id, st)
  <2>1. st \notin {"complete", "error"} => ev.status \notin Terminal
    BY DEF ResolveStatus, CardStatus, Terminal
  <2> HIDE DEF st, s, id
  <2>2. QED
    BY <2>1 DEF Spins
<1>4. /\ Extends(t, u) /\ Listed(u) /\ (id \in Tools => IsTold(u, id))
  BY <1>2, CardToldIs
<1> HIDE DEF st, v
<1>5. /\ e.res \in {"ok", "err"} /\ Frame(q, e.r) /\ Inv(e.r, u, v)
      /\ e.res = "err" => ~Calm(e.r)
  BY <1>1, <1>2, <1>3, UpdateIs
<1>6. \A z \in s : z \in Tools => IsTold(u, z)
  <2>1. \A a \in 1..Len(t) : a \in 1..Len(u) /\ u[a] = t[a]
    BY <1>4 DEF Extends
  <2>2. ASSUME NEW z, IsTold(t, z) PROVE IsTold(u, z)
    BY <2>1, <2>2 DEF IsTold
  <2>3. QED
    BY <1>2, <2>2 DEF Running
<1>7. CASE e.res # "ok" /\ o = e
  <2>1. Inv(e.r, u, e.r.block.running)
    BY <1>5, <1>7, SpinsMore
  <2>2. Running(e.r, u)
    BY <1>2, <1>5, <1>6 DEF Running, Frame, SameSections
  <2>3. QED
    BY <1>4, <1>5, <1>7, <2>1, <2>2 DEF Whole, Stays, Frame
<1>8. CASE e.res = "ok" /\ o \in Run(e.r)
  <2> DEFINE d == e.r
             w == [d EXCEPT !.block.running = v]
  <2>1. o.res = "ok" /\ o.r = w
    <3>1. DOMAIN d = Fields /\ DOMAIN d.block = BlockFields /\ d.block.running = s
      BY <1>5 DEF Inv, Shaped, Frame
    <3>2. o.res = "ok" /\ o.r = [d EXCEPT !.block.running = IF ev.status \in Terminal THEN @ \ {ev.id}
                                                            ELSE @ \cup {ev.id}]
      BY <1>8, OkIs
    <3>3. w = [d EXCEPT !.block.running = IF ev.status \in Terminal THEN @ \ {ev.id}
                                          ELSE @ \cup {ev.id}]
      <4>1. v = IF ev.status \in Terminal THEN d.block.running \ {ev.id}
                ELSE d.block.running \cup {ev.id}
        BY <3>1 DEF v
      <4> HIDE DEF d
      <4>2. QED
        BY <3>1, <4>1 DEF Fields, BlockFields
    <3>4. QED
      BY <3>2, <3>3
  <2>2. d.mode = "tools" /\ d.tasks
    BY <1>5 DEF Frame, SameSections
  <2>3. Inv(w, u, v) /\ Stays(d, w) /\ w.block.running = v
    BY <1>5, <2>2, RunIs
  <2> HIDE DEF w
  <2>4. Running(w, u)
    <3>1. v \subseteq Tools \cup Plans /\ \A z \in v : z \in Tools => IsTold(u, z)
      <4>1. s \subseteq Tools \cup Plans
        BY <1>2 DEF Running
      <4>2. QED
        BY <1>4, <1>6, <4>1 DEF v
    <3>2. w.tasks
      BY <2>2, <2>3 DEF Stays, SameSections
    <3>3. QED
      BY <2>3, <3>1, <3>2 DEF Running
  <2>5. Whole(w, u)
    BY <1>4, <2>3, <2>4 DEF Whole
  <2>6. Stays(q, w)
    BY <1>5, <2>3, StaysThen DEF Stays, Frame
  <2>7. QED
    BY <2>1, <2>5, <2>6
<1>9. QED
  BY <1>1, <1>5, <1>7, <1>8

\* A status line names no tool.
LEMMA ToolTold ==
    ASSUME NEW q, NEW t, NEW s, Inv(q, t, s), Listed(t), ~q.tasks, NEW id, NEW u, CardTold(t, u, id)
    PROVE  Inv(q, u, s)
<1>0. Numbered(t)
  BY DEF Inv
<1>1. /\ Extends(t, u) /\ Numbered(u) /\ Len(t) \in Nat /\ Len(u) \in Nat
      /\ \A a \in 1..Len(u) : a \notin 1..Len(t) => u[a].k = "card"
      /\ \A a \in 1..Len(t) : a \in 1..Len(u) /\ u[a] = t[a]
  <2>1. /\ Extends(t, u)
        /\ \A a \in 1..Len(u) : a \notin 1..Len(t) => u[a].k = "card"
    BY <1>0, CardToldIs
  <2>2. QED
    BY <2>1 DEF Extends
<1>2. InOrder(q.painted, q.text.pending, u)
  BY <1>1, InOrderExtends DEF Inv
<1>3. ASSUME Delivered(q.tasks, q.painted, q.text.pending, t)
      PROVE  Delivered(q.tasks, q.painted, q.text.pending, u)
  <2>1. \A a \in 1..Len(u) : IsDue(q.tasks, u, a) =>
          a \in 1..Len(t) /\ u[a] = t[a] /\ IsDue(q.tasks, t, a)
    BY <1>1 DEF IsDue
  <2>2. QED
    BY <1>1, <1>3, <2>1 DEF Delivered
<1>4. QED
  BY <1>1, <1>2, <1>3 DEF Inv

LEMMA RenderLineIs ==
    ASSUME NEW q, NEW t, NEW s, Inv(q, t, s), q.mode = "tools", ~q.tasks,
           NEW o, o \in RenderLine(q)
    PROVE  /\ o.res \in {"ok", "err"} /\ Frame(q, o.r) /\ Inv(o.r, t, s)
           /\ o.res = "err" => ~Calm(o.r)
<1> DEFINE Posts(d) ==
             LET p == Post(d, "line", TRUE) IN Ok([p EXCEPT !.block.line = Len(p.shown)])
<1>1. CASE q.block.done
  <2>1. o.res = "ok" /\ o.r = q
    BY <1>1, OkIs DEF RenderLine
  <2>2. QED
    BY <2>1, FrameSelf
<1>2. CASE ~q.block.done /\ q.block.line # 0
  <2>1. o \in Serve(q)
    BY <1>2 DEF RenderLine
  <2>2. QED
    BY <2>1, ServeIs, ServeFrames DEF Fine
<1>3. CASE ~q.block.done /\ q.block.line = 0
  <2> DEFINE post == Post(q, "line", TRUE)
  <2>0. CASE o \in Lost(q, post)
    <3>1. DOMAIN q = Fields /\ "line" \in Kinds /\ q.text.msg = 0
      BY DEF Inv, Shaped, Kinds, Sections, NoWriter
    <3>2. /\ Frame(q, post) /\ post.painted = q.painted /\ post.text = q.text
          /\ post.block = q.block /\ \E m \in Messages : post.shown = Append(q.shown, m)
      BY <3>1, PostIs
    <3> HIDE DEF post
    <3>3. o.res = "err" /\ Frame(q, o.r) /\ Inv(o.r, t, s) /\ ~Calm(o.r)
      BY <2>0, <3>1, <3>2, LostInv
    <3>4. QED
      BY <3>3
  <2> SUFFICES ASSUME o \notin Lost(q, post)
               PROVE  /\ o.res \in {"ok", "err"} /\ Frame(q, o.r) /\ Inv(o.r, t, s)
                      /\ o.res = "err" => ~Calm(o.r)
    BY <2>0
  <2> HIDE DEF post
  <2>1. PICK e \in Serve(q) : \/ e.res # "ok" /\ o = e
                              \/ e.res = "ok" /\ o \in Posts(e.r)
    <3>1. o \in Then(Serve(q), Posts)
      BY <1>3 DEF RenderLine, post
    <3> HIDE DEF Posts
    <3>2. QED
      BY <3>1, Zenon DEF Then
  <2>2. Fine(q, e, t, s) /\ e.res \in {"ok", "err"} /\ (e.res = "ok" => e.r = q) /\ Frame(q, e.r)
    BY ServeIs, ServeFrames
  <2>3. CASE e.res # "ok" /\ o = e
    BY <2>2, <2>3 DEF Fine
  <2>4. CASE e.res = "ok" /\ o \in Posts(e.r)
    <3> DEFINE x == Append(q.shown, [kind |-> "line", open |-> TRUE])
               b == [q.block EXCEPT !.line = Len(x)]
               p == [q EXCEPT !.shown = x, !.block = b]
    <3>1. DOMAIN q = Fields /\ DOMAIN q.block = BlockFields /\ q.shown \in Seq(Messages)
      BY DEF Inv, Shaped
    <3>2. Len(x) = Len(q.shown) + 1
      BY <3>1, ShownIs DEF Kinds
    <3>3. o.res = "ok" /\ o.r = p
      <4> DEFINE z == Post(q, "line", TRUE)
      <4>1. o.res = "ok" /\ o.r = [z EXCEPT !.block.line = Len(z.shown)]
        BY <2>2, <2>4, OkIs
      <4>2. z = [q EXCEPT !.shown = x]
        BY <3>1 DEF Post, Fields
      <4>3. DOMAIN z = Fields /\ z.shown = x /\ z.block = q.block
        BY <3>1, <4>2 DEF Fields
      <4> HIDE DEF x
      <4>4. [z EXCEPT !.block.line = Len(z.shown)] = [z EXCEPT !.block = b]
        BY <3>1, <4>3 DEF Fields, BlockFields
      <4>5. [z EXCEPT !.block = b] = p
        BY <3>1, <4>2 DEF Fields
      <4>6. QED
        BY <4>1, <4>4, <4>5
    <3>4. /\ DOMAIN b = BlockFields /\ b.writer = q.block.writer /\ b.sent = q.block.sent
          /\ b.line = Len(x) /\ b.done = q.block.done /\ b.running = q.block.running
      BY <3>1 DEF BlockFields
    <3> HIDE DEF b, x
    <3>5. /\ Frame(q, p) /\ p.text = q.text /\ p.block = b /\ p.painted = q.painted
          /\ p.shown = x /\ (Calm(p) <=> Calm(q))
      BY <3>1, <3>4 DEF Fields, Frame, SameSections, Later, Calm
    <3> HIDE DEF p
    <3>6. p.shown = Append(q.shown, [kind |-> "line", open |-> TRUE])
      BY <3>5 DEF x
    <3>7. Inv(p, t, s)
      BY <1>3, <3>2, <3>4, <3>5, <3>6, LineBegins DEF Frame
    <3>8. QED
      BY <3>3, <3>5, <3>7
  <2>5. QED
    BY <2>1, <2>3, <2>4
<1>4. QED
  BY <1>1, <1>2, <1>3

\* An event updates its card, or the line.
LEMMA UpdateFromEventIs ==
    ASSUME NEW q, NEW t, Whole(q, t), q.mode = "tools", NEW ev, ev.id \in Tools \cup Plans,
           NEW u, CardTold(t, u, ev.id), NEW o, o \in UpdateFromEvent(q, ev)
    PROVE  /\ o.res \in {"ok", "err"} /\ Stays(q, o.r) /\ Whole(o.r, u)
           /\ o.res = "err" => ~Calm(o.r)
<1>1. CASE q.tasks
  BY <1>1, UpdateCardIs DEF UpdateFromEvent
<1>2. CASE ~q.tasks
  <2>1. o \in RenderLine(q) \/ o \in Ok(q)
    <3>1. o \in UpdateLine(q)
      BY <1>2 DEF UpdateFromEvent
    <3>2. \E flush \in BOOLEAN : o \in IF flush THEN RenderLine(q) ELSE Ok(q)
      BY <3>1, Zenon DEF UpdateLine
    <3>3. QED
      BY <3>2
  <2>2. /\ o.res \in {"ok", "err"} /\ Frame(q, o.r) /\ Inv(o.r, t, q.block.running)
        /\ o.res = "err" => ~Calm(o.r)
    <3>1. CASE o \in RenderLine(q)
      BY <1>2, <3>1, RenderLineIs DEF Whole
    <3>2. CASE o \in Ok(q)
      BY <3>2, OkIs, FrameSelf DEF Whole
    <3>3. QED
      BY <2>1, <3>1, <3>2
  <2>3. Inv(o.r, t, o.r.block.running) /\ ~o.r.tasks /\ Listed(t)
    BY <1>2, <2>2 DEF Frame, SameSections, Whole
  <2>4. Inv(o.r, u, o.r.block.running)
    BY <2>3, ToolTold
  <2>5. Listed(u)
    BY CardToldIs DEF Whole, Inv
  <2>6. Running(o.r, u)
    <3>1. o.r.block.running = {}
      BY <1>2, <2>2 DEF Whole, Running, Frame
    <3>2. QED
      BY <3>1 DEF Running
  <2>7. QED
    BY <2>2, <2>4, <2>5, <2>6 DEF Whole, Stays, Frame
<1>3. QED
  BY <1>1, <1>2

\* The line counts as resolved: it was, it never appeared, or the turn was disturbed.
LEMMA DoneIs ==
    ASSUME NEW q, NEW p, NEW t, NEW s, Inv(q, t, s), SameSections(q, p), q.mode = "tools",
           p.shown = q.shown, p.painted = q.painted, p.text = q.text,
           DOMAIN p.block = BlockFields, p.block.writer = q.block.writer,
           p.block.sent = q.block.sent, p.block.line = q.block.line,
           Calm(p) => Calm(q) /\ (q.block.done \/ q.block.line = 0)
    PROVE  Inv(p, t, s)
<1>1. Shaped(p) /\ SentShown(p)
  BY DEF Inv, Shaped, SentShown, SameSections
<1>2. Sections(p)
  BY DEF Inv, Sections, SameSections
<1>3. Placed(p)
  BY DEF Inv, Placed
<1>4. ASSUME Calm(p) PROVE Streams(p)
  BY <1>4 DEF Inv, Streams
<1>5. QED
  BY <1>1, <1>2, <1>3, <1>4 DEF Inv, SameSections

LEMMA FinishLineIs ==
    ASSUME NEW q, NEW t, NEW s, Inv(q, t, s), q.mode = "tools", NEW o, o \in FinishLine(q)
    PROVE  /\ o.res \in {"ok", "err"} /\ Frame(q, o.r) /\ Inv(o.r, t, s)
           /\ o.res = "err" => ~Calm(o.r)
           /\ o.res = "ok" => o.r.block.line = 0 \/ o.r.block.done
<1> DEFINE n == q.block.line
           b == [q.block EXCEPT !.done = TRUE]
           d == [q EXCEPT !.block = b]
           Resolved(p) == Ok([p EXCEPT !.shown[n].open = FALSE])
<1>1. DOMAIN q = Fields /\ DOMAIN q.block = BlockFields /\ q.shown \in Seq(Messages)
  BY DEF Inv, Shaped
<1>2. d = [q EXCEPT !.block.done = TRUE]
  BY <1>1 DEF Fields, BlockFields
<1>3. /\ DOMAIN b = BlockFields /\ b.writer = q.block.writer /\ b.sent = q.block.sent
      /\ b.line = n /\ b.done /\ b.running = q.block.running
  BY <1>1 DEF BlockFields
<1>4. CASE q.block.done \/ n = 0
  <2> HIDE DEF b
  <2>1. o.res = "ok" /\ o.r = d
    BY <1>2, <1>4, OkIs DEF FinishLine
  <2>2. /\ Frame(q, d) /\ d.text = q.text /\ d.block = b /\ d.painted = q.painted
        /\ d.shown = q.shown /\ (Calm(d) <=> Calm(q)) /\ DOMAIN d = Fields
    BY <1>1, <1>3 DEF Fields, Frame, SameSections, Later, Calm
  <2> HIDE DEF d
  <2>3. Inv(d, t, s)
    BY <1>3, <1>4, <2>2, DoneIs DEF Frame
  <2>4. QED
    BY <1>3, <2>1, <2>2, <2>3
<1>5. CASE ~(q.block.done \/ n = 0)
  <2> DEFINE sealed == [d EXCEPT !.shown[n].open = FALSE]
  <2>0. CASE o \in Lost(d, sealed)
    <3> DEFINE x == [q.shown EXCEPT ![n].open = FALSE]
               p == [d EXCEPT !.shown = x]
    <3>1. n \in 1..Len(q.shown)
      BY <1>5 DEF Inv, Placed
    <3>2. Sealed(q.shown, x, n)
      BY <1>1, <3>1, SealIs
    <3> HIDE DEF b
    <3>3. /\ Frame(q, d) /\ d.text = q.text /\ d.block = b /\ d.painted = q.painted
          /\ d.shown = q.shown /\ DOMAIN d = Fields
      BY <1>1, <1>3 DEF Fields, Frame, SameSections, Later
    <3> HIDE DEF d
    <3>4. sealed = p
      BY <3>3 DEF Fields
    <3> HIDE DEF x
    <3>5. /\ Frame(d, p) /\ p.painted = d.painted /\ p.text = d.text /\ p.block = d.block
          /\ p.shown = x /\ DOMAIN p = Fields
      BY <3>3 DEF Fields, Frame, SameSections, Later
    <3> HIDE DEF p, sealed
    <3>6. /\ o.res = "err" /\ ~Calm(o.r) /\ Frame(p, o.r) /\ o.r.shown = x
          /\ o.r.painted = q.painted /\ o.r.text = q.text /\ o.r.block = b
      BY <2>0, <3>3, <3>4, <3>5, LostIs
    <3>7. Frame(q, o.r)
      BY <3>3, <3>5, <3>6, FrameThen
    <3>8. Inv(o.r, t, s)
      BY <1>3, <3>2, <3>6, <3>7, LineEnds DEF Frame
    <3>9. QED
      BY <3>6, <3>7, <3>8
  <2> SUFFICES ASSUME o \notin Lost(d, sealed)
               PROVE  /\ o.res \in {"ok", "err"} /\ Frame(q, o.r) /\ Inv(o.r, t, s)
                      /\ o.res = "err" => ~Calm(o.r)
                      /\ o.res = "ok" => o.r.block.line = 0 \/ o.r.block.done
    BY <2>0
  <2> HIDE DEF sealed
  <2>1. PICK e \in Serve(d) : \/ e.res # "ok" /\ o = e
                              \/ e.res = "ok" /\ o \in Resolved(e.r)
    <3>1. o \in Then(Serve(d), Resolved)
      BY <1>2, <1>5 DEF FinishLine, sealed
    <3> HIDE DEF Resolved, d
    <3>2. QED
      BY <3>1, Zenon DEF Then
  <2> HIDE DEF b
  <2>2. /\ Frame(q, d) /\ d.text = q.text /\ d.block = b /\ d.painted = q.painted
        /\ d.shown = q.shown /\ (Calm(d) <=> Calm(q)) /\ DOMAIN d = Fields
    BY <1>1, <1>3 DEF Fields, Frame, SameSections, Later, Calm
  <2>3. d.tasks = q.tasks /\ d.cancelled = q.cancelled /\ d.cancels = q.cancels
        /\ d.fresh = q.fresh /\ d.faults = q.faults
    BY <1>1 DEF Fields
  <2> HIDE DEF d
  <2>4. n \in 1..Len(q.shown)
    BY <1>5 DEF Inv, Placed
  <2> DEFINE x == [q.shown EXCEPT ![n].open = FALSE]
  <2>5. Sealed(q.shown, x, n)
    BY <1>1, <2>4, SealIs
  <2>6. CASE e.res = "ok" /\ o \in Resolved(e.r)
    <3>1. e.r = d
      <4>1. e = Result("ok", d) \/ e = Result("err", d)
            \/ e = Result("err", [d EXCEPT !.faults = @ - 1, !.refused = TRUE])
            \/ e = Result("err", [d EXCEPT !.cancelled = TRUE])
        BY Zenon DEF Serve, Ok
      <4>2. QED
        BY <2>6, <4>1, ResultIs
    <3> DEFINE p == [d EXCEPT !.shown = x]
    <3>2. o.res = "ok" /\ o.r = p
      <4>1. o.res = "ok" /\ o.r = [d EXCEPT !.shown[n].open = FALSE]
        BY <2>6, <3>1, OkIs
      <4>2. [d EXCEPT !.shown[n].open = FALSE] = p
        BY <2>2 DEF Fields
      <4>3. QED
        BY <4>1, <4>2
    <3> HIDE DEF x
    <3>3. /\ Frame(d, p) /\ p.text = d.text /\ p.block = d.block /\ p.painted = d.painted
          /\ p.shown = x /\ (Calm(p) <=> Calm(d))
      BY <2>2 DEF Fields, Frame, SameSections, Later, Calm
    <3> HIDE DEF p
    <3>4. Frame(q, p)
      BY <2>2, <3>3, FrameThen
    <3>5. Inv(p, t, s)
      BY <1>3, <2>2, <2>5, <3>3, <3>4, LineEnds DEF Frame
    <3>6. QED
      BY <1>3, <2>2, <3>2, <3>3, <3>4, <3>5
  <2>7. CASE e.res # "ok" /\ o = e
    <3>2. e.res = "err" /\ ~Calm(e.r) /\ Frame(d, e.r) /\ e.r.shown = d.shown
          /\ e.r.painted = d.painted /\ e.r.text = d.text /\ e.r.block = d.block
      <4>1. \/ e = Result("ok", d) \/ (e = Result("err", d) /\ d.cancelled)
            \/ e = Result("err", [d EXCEPT !.faults = @ - 1, !.refused = TRUE])
            \/ e = Result("err", [d EXCEPT !.cancelled = TRUE])
        BY Zenon DEF Serve, Ok
      <4>2. e.res = "err" /\ \/ (e.r = d /\ d.cancelled)
                             \/ e.r = [d EXCEPT !.faults = @ - 1, !.refused = TRUE]
                             \/ e.r = [d EXCEPT !.cancelled = TRUE]
        BY <2>7, <4>1, ResultIs
      <4>3. CASE e.r = d /\ d.cancelled
        BY <2>2, <4>2, <4>3 DEF Frame, SameSections, Later, Calm
      <4>4. CASE e.r = [d EXCEPT !.faults = @ - 1, !.refused = TRUE]
        BY <2>2, <4>2, <4>4 DEF Fields, Frame, SameSections, Later, Calm
      <4>5. CASE e.r = [d EXCEPT !.cancelled = TRUE]
        BY <2>2, <4>2, <4>5 DEF Fields, Frame, SameSections, Later, Calm
      <4>6. QED
        BY <4>2, <4>3, <4>4, <4>5
    <3>3. Frame(q, e.r) /\ ~Calm(e.r)
      BY <2>2, <3>2, FrameThen
    <3>4. Inv(e.r, t, s)
      BY <1>3, <2>2, <3>2, <3>3, DoneIs DEF Frame
    <3>5. QED
      BY <2>7, <3>2, <3>3, <3>4
  <2>8. QED
    BY <2>1, <2>6, <2>7
<1>6. QED
  BY <1>4, <1>5

\* What FinishCards computes on the way: the outcomes after the first n cards.
FinishStep(outs, id) == Then(outs, LAMBDA s : Swallowed(Update(s, id, "complete")))
Finishes(f, q, order, m) ==
    f = [n \in 0..m |-> IF n = 0 THEN Ok(q) ELSE FinishStep(f[n - 1], order[n])]

LEMMA FinishesExists ==
    ASSUME NEW q, NEW order, NEW m \in Nat
    PROVE  \E f : Finishes(f, q, order, m)
<1> DEFINE Bad == {k \in Nat : ~\E f : Finishes(f, q, order, k)}
<1> SUFFICES ASSUME Bad # {} PROVE FALSE
  OBVIOUS
<1>1. PICK k \in Bad : \A y \in Bad : k <= y
  <2>1. Bad \subseteq Nat
    OBVIOUS
  <2> HIDE DEF Bad
  <2>2. QED
    BY <2>1, LeastExists
<1>2. k \in Nat /\ ~\E f : Finishes(f, q, order, k)
  BY <1>1
<1>3. CASE k = 0
  <2> DEFINE g == [n \in 0..0 |-> Ok(q)]
  <2>1. g = [n \in 0..0 |-> IF n = 0 THEN Ok(q) ELSE FinishStep(g[n - 1], order[n])]
    OBVIOUS
  <2>2. QED
    BY <1>2, <1>3, <2>1 DEF Finishes
<1>4. CASE k # 0
  <2>1. k - 1 \in Nat /\ k - 1 \notin Bad
    BY <1>1, <1>2, <1>4
  <2>2. PICK f : Finishes(f, q, order, k - 1)
    BY <2>1
  <2>3. f = [n \in 0..(k - 1) |-> IF n = 0 THEN Ok(q) ELSE FinishStep(f[n - 1], order[n])]
    BY <2>2 DEF Finishes
  <2> DEFINE g == [n \in 0..k |-> IF n = k THEN FinishStep(f[k - 1], order[k]) ELSE f[n]]
  <2>4. \A n \in 0..k : g[n] = IF n = 0 THEN Ok(q) ELSE FinishStep(g[n - 1], order[n])
    <3> SUFFICES ASSUME NEW n \in 0..k
                 PROVE  g[n] = IF n = 0 THEN Ok(q) ELSE FinishStep(g[n - 1], order[n])
      OBVIOUS
    <3>1. CASE n = k
      <4>1. k - 1 \in 0..k /\ k - 1 # k
        BY <1>2, <2>1
      <4>2. g[k - 1] = f[k - 1] /\ g[k] = FinishStep(f[k - 1], order[k])
        BY <1>2, <4>1
      <4> HIDE DEF g
      <4>3. QED
        BY <1>4, <3>1, <4>2
    <3>2. CASE n # k
      <4>1. n \in 0..(k - 1) /\ (n # 0 => n - 1 \in 0..k /\ n - 1 # k)
        BY <1>2, <3>2
      <4>2. g[n] = f[n] /\ (n # 0 => g[n - 1] = f[n - 1])
        BY <3>2, <4>1
      <4>3. f[n] = IF n = 0 THEN Ok(q) ELSE FinishStep(f[n - 1], order[n])
        BY <2>3, <4>1
      <4> HIDE DEF g
      <4>4. QED
        BY <4>2, <4>3
    <3>3. QED
      BY <3>1, <3>2
  <2>5. g = [n \in 0..k |-> g[n]]
    OBVIOUS
  <2> HIDE DEF g
  <2>6. g = [n \in 0..k |-> IF n = 0 THEN Ok(q) ELSE FinishStep(g[n - 1], order[n])]
    BY <2>4, <2>5
  <2>7. QED
    BY <1>2, <2>6 DEF Finishes
<1>5. QED
  BY <1>3, <1>4

LEMMA SwallowedIs ==
    ASSUME NEW outs, NEW o, o \in Swallowed(outs)
    PROVE  \E e \in outs : o.res = "ok" /\ o.r = e.r
<1>1. PICK e \in outs : o = Result("ok", e.r)
  BY DEF Swallowed
<1>2. QED
  BY <1>1, ResultIs

LEMMA FinishStepIs ==
    ASSUME NEW outs, NEW id, NEW o, o \in FinishStep(outs, id)
    PROVE  \E d \in outs : \/ d.res # "ok" /\ o = d
                           \/ d.res = "ok" /\ \E e \in Update(d.r, id, "complete") :
                                                 o.res = "ok" /\ o.r = e.r
<1> DEFINE Step(s) == Swallowed(Update(s, id, "complete"))
<1>1. o \in Then(outs, Step)
  BY DEF FinishStep
<1> HIDE DEF Step
<1>2. PICK d \in outs : \/ d.res # "ok" /\ o = d
                        \/ d.res = "ok" /\ o \in Step(d.r)
  BY <1>1, Zenon DEF Then
<1>3. QED
  BY <1>2, SwallowedIs DEF Step

\* The order takes every card that runs.
LEMMA OrderIs ==
    ASSUME NEW S, IsFiniteSet(S), NEW order \in SetToSeqs(S)
    PROVE  /\ Len(order) \in Nat /\ \A i \in 1..Len(order) : order[i] \in S
           /\ \A id \in S : \E i \in 1..Len(order) : order[i] = id
<1> DEFINE m == Cardinality(S)
<1>1. m \in Nat /\ IsFiniteSet(1..m) /\ Cardinality(1..m) = m
  <2>1. m \in Nat
    BY FS_CardinalityType
  <2> HIDE DEF m
  <2>2. IsFiniteSet(1..m) /\ Cardinality(1..m) = IF 1 > m THEN 0 ELSE m - 1 + 1
    BY <2>1, FS_Interval
  <2>3. QED
    BY <2>1, <2>2
<1>2. order \in [1..m -> S] /\ \A i, j \in 1..m : i # j => order[i] # order[j]
  BY DEF SetToSeqs
<1>3. order \in Injection(1..m, S)
  BY <1>2 DEF Injection, IsInjective
<1>4. order \in Surjection(1..m, S)
  BY <1>1, <1>3, FS_Injection
<1> HIDE DEF m
<1>5. order \in Seq(S) /\ Len(order) = m
  BY <1>1, <1>2
<1>6. \A id \in S : \E i \in 1..m : order[i] = id
  BY <1>4 DEF Surjection
<1>7. QED
  BY <1>1, <1>2, <1>5, <1>6

\* Every card that runs is completed, and the message of the block is settled.
LEMMA FinishCardsIs ==
    ASSUME NEW q, NEW t, Whole(q, t), q.mode = "tools", q.tasks, NEW o, o \in FinishCards(q)
    PROVE  /\ o.res \in {"ok", "err"} /\ Stays(q, o.r) /\ Inv(o.r, t, {})
           /\ o.res = "err" => ~Calm(o.r)
           /\ o.res = "ok" => o.r.block.writer.msg = 0 \/ o.r.block.writer.stopped
<1> DEFINE S == q.block.running
<1>1. PICK order \in SetToSeqs(S) :
        o \in LET finished[n \in 0..Len(order)] ==
                    IF n = 0 THEN Ok(q) ELSE FinishStep(finished[n - 1], order[n])
              IN Then(finished[Len(order)], LAMBDA s : StopStream(s, "block"))
  BY Zenon DEF FinishCards, FinishStep
<1> DEFINE m == Len(order)
           f == CHOOSE f : f = [n \in 0..m |-> IF n = 0 THEN Ok(q) ELSE FinishStep(f[n - 1], order[n])]
<1>2. IsFiniteSet(S)
  <2>1. S \subseteq Tools \cup Plans /\ IsFiniteSet(Tools \cup Plans)
    BY IdsApart DEF Whole, Running
  <2>2. QED
    BY <2>1, FS_Subset
<1>3. /\ m \in Nat /\ \A i \in 1..m : order[i] \in S
      /\ \A id \in S : \E i \in 1..m : order[i] = id
  BY <1>2, OrderIs
<1>4. o \in Then(f[m], LAMBDA s : StopStream(s, "block"))
  BY <1>1
<1>5. Finishes(f, q, order, m)
  <2>1. \E g : Finishes(g, q, order, m)
    BY <1>3, FinishesExists
  <2>2. QED
    BY <2>1 DEF Finishes
<1> HIDE DEF f, m
<1>6. \A n \in 0..m : f[n] = IF n = 0 THEN Ok(q) ELSE FinishStep(f[n - 1], order[n])
  BY <1>5 DEF Finishes
<1> DEFINE Left(n) == {order[i] : i \in (n + 1)..m}
           Good(n) == \A d \in f[n] : d.res = "ok" /\ Frame(q, d.r) /\ Inv(d.r, t, Left(n))
           Bad == {n \in 0..m : ~Good(n)}
<1>7. Inv(q, t, S) /\ Listed(t) /\ \A id \in S : id \in Tools => IsTold(t, id)
  BY DEF Whole, Running
<1>8. Bad = {}
  <2> SUFFICES ASSUME Bad # {} PROVE FALSE
    OBVIOUS
  <2>1. PICK k \in Bad : \A y \in Bad : k <= y
    <3>1. Bad \subseteq Nat
      BY <1>3
    <3> HIDE DEF Bad
    <3>2. QED
      BY <3>1, LeastExists
  <2>2. k \in 0..m /\ ~Good(k)
    BY <2>1
  <2>3. CASE k = 0
    <3>1. f[0] = Ok(q)
      BY <1>3, <1>6
    <3>2. S \subseteq Left(0)
      BY <1>3
    <3> HIDE DEF Left, S
    <3>3. Inv(q, t, Left(0)) /\ Frame(q, q)
      BY <1>7, <3>2, SpinsMore, FrameSelf
    <3>4. QED
      BY <2>2, <2>3, <3>1, <3>3, OkIs
  <2>4. CASE k # 0
    <3>1. k - 1 \in 0..m /\ k \in 1..m /\ ~(k <= k - 1)
      BY <1>3, <2>2, <2>4
    <3>2. Good(k - 1)
      BY <2>1, <3>1
    <3>3. f[k] = FinishStep(f[k - 1], order[k])
      BY <1>6, <2>2, <2>4
    <3>4. Spins(Left(k - 1), Left(k), order[k], "complete")
      <4>1. ASSUME NEW z \in Left(k - 1), z # order[k]
            PROVE  z \in Left(k)
        <5>1. PICK i \in (k - 1 + 1)..m : z = order[i]
          BY <4>1
        <5>2. i # k /\ i \in (k + 1)..m
          BY <1>3, <3>1, <4>1, <5>1
        <5>3. QED
          BY <5>1, <5>2
      <4> HIDE DEF Left
      <4>2. QED
        BY <4>1 DEF Spins
    <3>5. CardTold(t, t, order[k])
      BY <1>3, <1>7, <3>1 DEF CardTold
    <3> DEFINE A == Left(k - 1)
               B == Left(k)
    <3>6. \A d \in f[k - 1] : d.res = "ok" /\ Frame(q, d.r) /\ Inv(d.r, t, A)
      BY <3>2
    <3>7. Spins(A, B, order[k], "complete")
      BY <3>4
    <3>8. ~\A d \in f[k] : d.res = "ok" /\ Frame(q, d.r) /\ Inv(d.r, t, B)
      BY <2>2
    <3> HIDE DEF A, B, Left, Good, Bad
    <3>9. ASSUME NEW d \in f[k]
          PROVE  d.res = "ok" /\ Frame(q, d.r) /\ Inv(d.r, t, B)
      <4>1. PICK e \in f[k - 1] :
              \/ e.res # "ok" /\ d = e
              \/ e.res = "ok" /\ \E w \in Update(e.r, order[k], "complete") :
                                    d.res = "ok" /\ d.r = w.r
        BY <3>3, <3>9, FinishStepIs
      <4>2. e.res = "ok" /\ Frame(q, e.r) /\ Inv(e.r, t, A)
        BY <3>6
      <4>3. PICK w \in Update(e.r, order[k], "complete") : d.res = "ok" /\ d.r = w.r
        BY <4>1, <4>2
      <4>4. e.r.mode = "tools" /\ e.r.tasks
        BY <4>2 DEF Frame, SameSections
      <4>5. Frame(e.r, w.r) /\ Inv(w.r, t, B)
        BY <1>7, <3>5, <3>7, <4>2, <4>4, UpdateIs
      <4>6. QED
        BY <4>2, <4>3, <4>5, FrameThen
    <3>10. QED
      BY <3>8, <3>9
  <2>5. QED
    BY <2>3, <2>4
<1>9. \A d \in f[m] : d.res = "ok" /\ Frame(q, d.r) /\ Inv(d.r, t, {})
  <2>1. m \in 0..m /\ Left(m) = {}
    BY <1>3
  <2>2. Good(m)
    BY <1>8, <2>1
  <2>3. QED
    BY <2>1, <2>2
<1> HIDE DEF Bad, Good, Left
<1> DEFINE Stop(s) == StopStream(s, "block")
<1>10. PICK d \in f[m] : \/ d.res # "ok" /\ o = d
                         \/ d.res = "ok" /\ o \in Stop(d.r)
  <2>1. o \in Then(f[m], Stop)
    BY <1>4
  <2> HIDE DEF Stop
  <2>2. QED
    BY <2>1, Zenon DEF Then
<1>11. d.res = "ok" /\ Frame(q, d.r) /\ Inv(d.r, t, {}) /\ o \in StopStream(d.r, "block")
  BY <1>9, <1>10
<1>12. d.r.mode = "tools" /\ d.r.tasks
  BY <1>11 DEF Frame, SameSections
<1>13. /\ o.res \in {"ok", "err"} /\ Frame(d.r, o.r) /\ Inv(o.r, t, {})
       /\ o.res = "err" => ~Calm(o.r)
       /\ o.res = "ok" => o.r.block.writer.msg = 0 \/ o.r.block.writer.stopped
  BY <1>11, <1>12, StopBlockIs
<1>14. Stays(q, o.r)
  BY <1>11, <1>13, FrameThen DEF Frame, Stays
<1>15. QED
  BY <1>13, <1>14

-----------------------------------------------------------------------------
(* The sections.                                                           *)

\* Nothing is buffered for a message that is not there, or has been stopped.
Idle(q) == Calm(q) /\ (q.text.msg = 0 \/ q.text.stopped) => q.text.pending = <<>>

LEMMA NotTextIs ==
    ASSUME NEW q, NEW t, NEW s, Inv(q, t, s), q.mode # "text"
    PROVE  q.text = NoWriter /\ ~q.text.stopped /\ Idle(q)
  BY DEF Inv, Sections, NoWriter, Idle

LEMMA RunningFrame ==
    ASSUME NEW q, NEW p, NEW t, Running(q, t), p.block.running = q.block.running, p.tasks = q.tasks
    PROVE  Running(p, t)
  BY DEF Running

LEMMA CloseTextIs ==
    ASSUME NEW q, NEW t, Whole(q, t), Idle(q), NEW o, o \in CloseText(q)
    PROVE  /\ o.res = "ok" /\ Whole(o.r, t) /\ Later(q, o.r)
           /\ o.r.mode = IF q.mode = "text" THEN "none" ELSE q.mode
<1> DEFINE S == q.block.running
           Forget(d) == [d EXCEPT !.hasText = FALSE, !.text = NoWriter,
                                  !.mode = IF @ = "text" THEN "none" ELSE @]
           Forgotten(d) == Ok(Forget(d))
           stop == IF q.hasText /\ Begun(q.text) /\ ~q.text.stopped
                   THEN Swallowed(StopStream(q, "text")) ELSE Ok(q)
<1>1. PICK e \in stop : \/ e.res # "ok" /\ o = e
                        \/ e.res = "ok" /\ o \in Forgotten(e.r)
  <2>1. o \in Then(stop, Forgotten)
    BY DEF CloseText
  <2> HIDE DEF stop, Forgotten
  <2>2. QED
    BY <2>1, Zenon DEF Then
<1>2. Inv(q, t, S) /\ Running(q, t) /\ Listed(t) /\ Len(t) \in Nat
  BY DEF Whole, Listed
<1>3. CASE q.mode = "text"
  <2>1. /\ e.res = "ok" /\ Inv(e.r, t, S) /\ Frame(q, e.r)
        /\ Calm(e.r) => e.r.text.pending = <<>> /\ (e.r.text.msg = 0 \/ e.r.text.stopped)
    <3>1. CASE Begun(q.text) /\ ~q.text.stopped
      <4>1. q.hasText
        BY <1>2, <1>3 DEF Inv, Sections
      <4>2. e \in Swallowed(StopStream(q, "text"))
        BY <3>1, <4>1
      <4>3. PICK d \in StopStream(q, "text") : e.res = "ok" /\ e.r = d.r
        BY <4>2, SwallowedIs
      <4>4. /\ d.res \in {"ok", "err"} /\ Frame(q, d.r) /\ Inv(d.r, t, S)
            /\ d.res = "err" => ~Calm(d.r)
            /\ d.res = "ok" => d.r.text.stopped /\ d.r.text.pending = <<>>
        BY <1>2, <1>3, <3>1, StopTextIs
      <4>5. QED
        BY <4>3, <4>4
    <3>2. CASE ~(Begun(q.text) /\ ~q.text.stopped)
      <4>1. e.res = "ok" /\ e.r = q
        BY <3>2, OkIs
      <4>2. q.text.msg = 0 \/ q.text.stopped
        BY <3>2 DEF Begun
      <4>3. QED
        BY <1>2, <4>1, <4>2, FrameSelf DEF Idle
    <3>3. QED
      BY <3>1, <3>2
  <2> DEFINE d == e.r
             p == Forget(d)
  <2>2. o.res = "ok" /\ o.r = p
    BY <1>1, <2>1, OkIs
  <2>3. DOMAIN d = Fields /\ d.mode = "text" /\ d.block.running = S /\ d.tasks = q.tasks
    BY <1>3, <2>1 DEF Frame, SameSections
  <2>4. Inv(d, t, S) /\ (Calm(d) => d.text.pending = <<>> /\ (d.text.msg = 0 \/ d.text.stopped))
    BY <2>1
  <2> HIDE DEF d
  <2>5. /\ DOMAIN p = Fields /\ p.tasks = d.tasks /\ p.plan = d.plan /\ p.mode = "none"
        /\ ~p.hasText /\ p.hasBlock = d.hasBlock /\ p.shown = d.shown
        /\ p.painted = d.painted /\ p.text = NoWriter /\ p.block = d.block
        /\ (Calm(p) <=> Calm(d)) /\ Later(d, p)
    BY <2>3 DEF Fields, Calm, Later
  <2> HIDE DEF p
  <2>6. Inv(p, t, S)
    BY <2>3, <2>4, <2>5, TextForgotten
  <2>7. Later(q, p)
    BY <2>1, <2>5, LaterTrans DEF Frame, d
  <2>8. Whole(p, t)
    BY <1>2, <2>3, <2>5, <2>6, RunningFrame DEF Whole
  <2>9. QED
    BY <1>3, <2>2, <2>5, <2>7, <2>8
<1>4. CASE q.mode # "text"
  <2> DEFINE p == Forget(q)
  <2>1. ~q.hasText /\ q.text = NoWriter
    BY <1>2, <1>4 DEF Inv, Sections
  <2>2. e.res = "ok" /\ e.r = q
    BY <2>1, OkIs
  <2>3. o.res = "ok" /\ o.r = p
    BY <1>1, <2>2, OkIs
  <2>4. DOMAIN q = Fields /\ DOMAIN q.block = BlockFields
    BY <1>2 DEF Inv, Shaped
  <2>5. /\ DOMAIN p = Fields /\ p.tasks = q.tasks /\ p.plan = q.plan /\ p.mode = q.mode
        /\ p.hasText = FALSE /\ p.hasBlock = q.hasBlock /\ p.shown = q.shown
        /\ p.painted = q.painted /\ p.text = NoWriter /\ p.block = q.block
        /\ (Calm(p) <=> Calm(q)) /\ Later(q, p)
    BY <1>4, <2>4 DEF Fields, Calm, Later
  <2> HIDE DEF p
  <2>6. Inv(p, t, S)
    <3>1. Shaped(p) /\ SentShown(p)
      BY <1>2, <2>1, <2>5 DEF Inv, Shaped, SentShown
    <3>2. Sections(p)
      BY <1>2, <2>1, <2>5 DEF Inv, Sections
    <3>3. Placed(p)
      BY <1>2, <2>1, <2>5 DEF Inv, Placed
    <3>4. Streams(q) => Streams(p)
      BY <2>1, <2>5 DEF Streams
    <3>5. QED
      BY <1>2, <2>1, <2>5, <3>1, <3>2, <3>3, <3>4 DEF Inv
  <2>7. Whole(p, t)
    BY <1>2, <2>5, <2>6, RunningFrame DEF Whole
  <2>8. QED
    BY <1>4, <2>3, <2>5, <2>7
<1>5. QED
  BY <1>3, <1>4

LEMMA CloseBlockIs ==
    ASSUME NEW q, NEW t, Whole(q, t), NEW o, o \in CloseBlock(q)
    PROVE  /\ o.res = "ok" /\ Whole(o.r, t) /\ Later(q, o.r)
           /\ o.r.mode = IF q.mode = "tools" THEN "none" ELSE q.mode
           /\ o.r.text = q.text \/ o.r.mode # "text"
<1> DEFINE S == q.block.running
           Forget(d) == [d EXCEPT !.hasBlock = FALSE, !.block = NoBlock,
                                  !.mode = IF @ = "tools" THEN "none" ELSE @]
           Forgotten(d) == Ok(Forget(d))
           finish == IF q.hasBlock THEN Swallowed(FinishWith(q)) ELSE Ok(q)
<1>1. PICK e \in finish : \/ e.res # "ok" /\ o = e
                          \/ e.res = "ok" /\ o \in Forgotten(e.r)
  <2>1. o \in Then(finish, Forgotten)
    BY DEF CloseBlock
  <2> HIDE DEF finish, Forgotten
  <2>2. QED
    BY <2>1, Zenon DEF Then
<1>2. Inv(q, t, S) /\ Running(q, t) /\ Listed(t)
  BY DEF Whole
<1>0. NoBlock.running = {}
  BY DEF NoBlock
<1>3. CASE q.mode = "tools"
  <2>1. q.hasBlock
    BY <1>2, <1>3 DEF Inv, Sections
  <2>2. PICK d \in FinishWith(q) : e.res = "ok" /\ e.r = d.r
    BY <2>1, SwallowedIs
  <2>3. /\ d.res \in {"ok", "err"} /\ Stays(q, d.r) /\ Inv(d.r, t, {})
        /\ d.res = "err" => ~Calm(d.r)
        /\ d.res = "ok" => /\ d.r.block.writer.msg = 0 \/ d.r.block.writer.stopped
                           /\ d.r.block.line = 0 \/ d.r.block.done
    <3>1. CASE q.tasks
      <4>1. /\ d.res \in {"ok", "err"} /\ Stays(q, d.r) /\ Inv(d.r, t, {})
            /\ d.res = "err" => ~Calm(d.r)
            /\ d.res = "ok" => d.r.block.writer.msg = 0 \/ d.r.block.writer.stopped
        BY <1>3, <2>2, <3>1, FinishCardsIs DEF FinishWith
      <4>2. d.r.block.line = 0
        BY <3>1, <4>1 DEF Stays, SameSections, Inv, Sections
      <4>3. QED
        BY <4>1, <4>2
    <3>2. CASE ~q.tasks
      <4>1. S = {}
        BY <1>2, <3>2 DEF Running
      <4>2. /\ d.res \in {"ok", "err"} /\ Frame(q, d.r) /\ Inv(d.r, t, {})
            /\ d.res = "err" => ~Calm(d.r)
            /\ d.res = "ok" => d.r.block.line = 0 \/ d.r.block.done
        BY <1>2, <1>3, <2>2, <3>2, <4>1, FinishLineIs DEF FinishWith
      <4>3. d.r.block.writer.msg = 0
        BY <3>2, <4>2 DEF Frame, SameSections, Inv, Sections, NoWriter
      <4>4. QED
        BY <4>2, <4>3 DEF Frame, Stays
    <3>3. QED
      BY <3>1, <3>2
  <2> DEFINE w == d.r
             p == Forget(w)
  <2>4. o.res = "ok" /\ o.r = p
    BY <1>1, <2>2, OkIs
  <2>5. DOMAIN w = Fields /\ w.mode = "tools" /\ w.tasks = q.tasks /\ Later(q, w)
    BY <1>3, <2>3 DEF Stays, SameSections
  <2>6. /\ Inv(w, t, {})
        /\ Calm(w) => /\ w.block.writer.msg = 0 \/ w.block.writer.stopped
                      /\ w.block.line = 0 \/ w.block.done
    BY <2>3
  <2> HIDE DEF w
  <2>7. /\ DOMAIN p = Fields /\ p.tasks = w.tasks /\ p.plan = w.plan /\ p.mode = "none"
        /\ p.hasText = w.hasText /\ ~p.hasBlock /\ p.shown = w.shown
        /\ p.painted = w.painted /\ p.text = w.text /\ p.block = NoBlock
        /\ (Calm(p) <=> Calm(w)) /\ Later(w, p)
    BY <2>5 DEF Fields, Calm, Later
  <2> HIDE DEF p
  <2>8. Calm(w) => SpinsOnly(w.painted, {})
    BY <2>6 DEF Inv
  <2>9. Inv(p, t, {})
    BY <2>5, <2>6, <2>7, <2>8, BlockForgotten
  <2>10. Running(p, t)
    BY <1>0, <2>7 DEF Running
  <2>11. Whole(p, t) /\ Later(q, p)
    BY <1>0, <1>2, <2>5, <2>7, <2>9, <2>10, LaterTrans DEF Whole
  <2>12. QED
    BY <1>3, <2>4, <2>7, <2>11
<1>4. CASE q.mode # "tools"
  <2> DEFINE p == Forget(q)
  <2>1. ~q.hasBlock /\ q.block = NoBlock
    BY <1>2, <1>4 DEF Inv, Sections
  <2>2. e.res = "ok" /\ e.r = q
    BY <2>1, OkIs
  <2>3. o.res = "ok" /\ o.r = p
    BY <1>1, <2>2, OkIs
  <2>4. DOMAIN q = Fields
    BY <1>2 DEF Inv, Shaped
  <2>5. /\ DOMAIN p = Fields /\ p.tasks = q.tasks /\ p.plan = q.plan /\ p.mode = q.mode
        /\ p.hasText = q.hasText /\ p.hasBlock = FALSE /\ p.shown = q.shown
        /\ p.painted = q.painted /\ p.text = q.text /\ p.block = NoBlock
        /\ (Calm(p) <=> Calm(q)) /\ Later(q, p)
    BY <1>4, <2>4 DEF Fields, Calm, Later
  <2> HIDE DEF p
  <2>6. Inv(p, t, S)
    <3>1. Shaped(p) /\ SentShown(p)
      BY <1>2, <2>1, <2>5 DEF Inv, Shaped, SentShown
    <3>2. Sections(p)
      BY <1>2, <2>1, <2>5 DEF Inv, Sections
    <3>3. Placed(p)
      BY <1>2, <2>1, <2>5 DEF Inv, Placed
    <3>4. Streams(q) => Streams(p)
      BY <2>1, <2>5 DEF Streams
    <3>5. QED
      BY <1>2, <2>1, <2>5, <3>1, <3>2, <3>3, <3>4 DEF Inv
  <2>7. Whole(p, t)
    BY <1>2, <2>1, <2>5, <2>6, RunningFrame DEF Whole
  <2>8. QED
    BY <1>4, <2>3, <2>5, <2>7
<1>5. QED
  BY <1>3, <1>4

Sound(q, t) == Whole(q, t) /\ Idle(q)

\* A section of text is open, with a writer.
LEMMA NewTextIs ==
    ASSUME NEW q, NEW t, Sound(q, t), q.mode # "tools"
    PROVE  /\ Sound(NewText(q), t) /\ Later(q, NewText(q)) /\ NewText(q).mode = "text"
           /\ ~q.text.stopped => ~NewText(q).text.stopped
<1> DEFINE p == [q EXCEPT !.hasText = TRUE, !.text = NoWriter, !.mode = "text"]
<1>1. Inv(q, t, q.block.running) /\ Running(q, t) /\ Listed(t)
  BY DEF Sound, Whole
<1>2. CASE q.mode = "text"
  <2>1. q.hasText
    BY <1>1, <1>2 DEF Inv, Sections
  <2>2. NewText(q) = q
    BY <1>2, <2>1 DEF NewText
  <2>3. QED
    BY <1>2, <2>2, LaterSelf
<1>3. CASE q.mode # "text"
  <2>1. NewText(q) = p
    BY <1>3 DEF NewText
  <2>2. q.mode = "none" /\ q.block = NoBlock /\ ~q.hasBlock
    BY <1>1, <1>3 DEF Inv, Sections
  <2>3. DOMAIN q = Fields
    BY <1>1 DEF Inv, Shaped
  <2>4. /\ DOMAIN p = Fields /\ p.tasks = q.tasks /\ p.plan = q.plan /\ p.mode = "text"
        /\ p.hasText = TRUE /\ p.hasBlock = q.hasBlock /\ p.shown = q.shown
        /\ p.painted = q.painted /\ p.text = NoWriter /\ p.block = q.block
        /\ (Calm(p) <=> Calm(q)) /\ Later(q, p)
    BY <2>3 DEF Fields, Calm, Later
  <2> HIDE DEF p
  <2>5. Inv(p, t, q.block.running)
    BY <1>1, <2>2, <2>4, SectionBegins
  <2>6. Whole(p, t)
    BY <1>1, <2>4, <2>5, RunningFrame DEF Whole
  <2>7. Idle(p) /\ ~p.text.stopped
    BY <2>4 DEF Idle, NoWriter
  <2>8. QED
    BY <2>1, <2>4, <2>6, <2>7 DEF Sound
<1>4. QED
  BY <1>2, <1>3

LEMMA RunningExtends ==
    ASSUME NEW q, NEW t, NEW u, Running(q, t), Extends(t, u)
    PROVE  Running(q, u)
<1>1. \A a \in 1..Len(t) : a \in 1..Len(u) /\ u[a] = t[a]
  BY DEF Extends
<1>2. ASSUME NEW z, IsTold(t, z) PROVE IsTold(u, z)
  BY <1>1, <1>2 DEF IsTold
<1>3. QED
  BY <1>2 DEF Running

LEMMA AppendSound ==
    ASSUME NEW q, NEW t, Sound(q, t), q.mode = "text", NEW u, Listed(u), NEW atoms,
           AtomsTold(t, u, atoms), q.text.stopped => u = t, NEW o, o \in AppendText(q, atoms)
    PROVE  /\ o.res \in {"ok", "err"} /\ Sound(o.r, u) /\ Stays(q, o.r)
           /\ o.res = "err" => ~Calm(o.r)
           /\ o.res = "ok" /\ ~q.text.stopped => ~o.r.text.stopped
<1>1. Inv(q, t, q.block.running) /\ Running(q, t) /\ Listed(t)
  BY DEF Sound, Whole
<1>2. /\ o.res \in {"ok", "err"} /\ Frame(q, o.r) /\ Inv(o.r, u, q.block.running)
      /\ o.res = "err" => ~Calm(o.r)
      /\ o.res = "ok" /\ q.text.stopped => o.r = q
      /\ o.res = "ok" /\ ~q.text.stopped => Begun(o.r.text) /\ ~o.r.text.stopped
  BY <1>1, AppendTextIs
<1>3. Running(q, u)
  BY <1>1, RunningExtends DEF AtomsTold
<1>4. Whole(o.r, u)
  BY <1>2, <1>3, RunningFrame DEF Whole, Frame, SameSections
<1>5. Idle(o.r)
  BY <1>2 DEF Idle, Begun, Sound
<1>6. QED
  BY <1>2, <1>4, <1>5 DEF Sound, Frame, Stays

LEMMA RenderTextIs ==
    ASSUME NEW q, NEW t, Sound(q, t), NEW u, Listed(u), NEW atoms,
           AtomsTold(t, u, atoms), q.text.stopped => u = t, NEW o, o \in RenderText(q, atoms)
    PROVE  /\ o.res \in {"ok", "err"} /\ Sound(o.r, u) /\ Later(q, o.r)
           /\ o.res = "err" => ~Calm(o.r)
           /\ o.res = "ok" /\ ~q.text.stopped => ~o.r.text.stopped
<1> DEFINE Write(s) == AppendText(NewText(s), atoms)
           close == IF q.mode = "tools" THEN CloseBlock(q) ELSE Ok(q)
<1>1. PICK e \in close : \/ e.res # "ok" /\ o = e
                         \/ e.res = "ok" /\ o \in Write(e.r)
  <2>1. o \in Then(close, Write)
    BY DEF RenderText
  <2> HIDE DEF close, Write
  <2>2. QED
    BY <2>1, Zenon DEF Then
<1>2. /\ e.res = "ok" /\ Sound(e.r, t) /\ Later(q, e.r) /\ e.r.mode # "tools"
      /\ (e.r.text.stopped => q.text.stopped)
  <2>1. CASE q.mode = "tools"
    <3>1. /\ e.res = "ok" /\ Whole(e.r, t) /\ Later(q, e.r) /\ e.r.mode = "none"
      BY <2>1, CloseBlockIs DEF Sound
    <3>2. Idle(e.r) /\ ~e.r.text.stopped
      BY <3>1, NotTextIs DEF Whole
    <3>3. QED
      BY <3>1, <3>2 DEF Sound
  <2>2. CASE q.mode # "tools"
    <3>1. e.res = "ok" /\ e.r = q
      BY <2>2, OkIs
    <3>2. QED
      BY <2>2, <3>1, LaterSelf
  <2>3. QED
    BY <2>1, <2>2
<1> DEFINE d == NewText(e.r)
<1>3. /\ Sound(d, t) /\ Later(e.r, d) /\ d.mode = "text" /\ (d.text.stopped => e.r.text.stopped)
  BY <1>2, NewTextIs
<1>4. o \in AppendText(d, atoms)
  BY <1>1, <1>2
<1> HIDE DEF d
<1>5. /\ o.res \in {"ok", "err"} /\ Sound(o.r, u) /\ Stays(d, o.r)
      /\ o.res = "err" => ~Calm(o.r)
      /\ o.res = "ok" /\ ~d.text.stopped => ~o.r.text.stopped
  BY <1>2, <1>3, <1>4, AppendSound
<1>6. Later(q, o.r)
  <2>1. Later(q, d)
    BY <1>2, <1>3, LaterTrans
  <2>2. QED
    BY <1>5, <2>1, LaterTrans DEF Stays
<1>7. QED
  BY <1>2, <1>3, <1>5, <1>6

\* A notice tells nothing.
LEMMA NoteIs ==
    ASSUME NEW t, Listed(t), Numbered(t), NEW brk
    PROVE  AtomsTold(t, t, Note(brk))
<1> DEFINE x == [id |-> 0, brk |-> brk]
           y == [id |-> 0, brk |-> "no"]
<1>1. x.id = 0 /\ y.id = 0
  OBVIOUS
<1>2. Note(brk) = <<x, y>>
  BY DEF Note
<1> HIDE DEF x, y
<1>3. <<x, y>> \in Seq({x, y}) /\ Len(<<x, y>>) = 2 /\ <<x, y>>[1] = x /\ <<x, y>>[2] = y
  OBVIOUS
<1>4. Listed(<<x, y>>) /\ \A i \in 1..Len(<<x, y>>) : <<x, y>>[i].id = 0
  <2> DEFINE S == {x, y}
  <2>1. <<x, y>> \in Seq(S)
    BY <1>3
  <2> HIDE DEF S
  <2>2. Listed(<<x, y>>)
    BY <2>1, SeqIsListed
  <2>3. \A i \in 1..2 : i = 1 \/ i = 2
    OBVIOUS
  <2>4. QED
    BY <1>1, <1>3, <2>2, <2>3
<1>5. Len(t) \in Nat
  BY DEF Listed
<1> DEFINE z == <<x, y>>
<1> HIDE DEF z
<1>6. Listed(z) /\ \A i \in 1..Len(z) : z[i].id = 0
  BY <1>4 DEF z
<1>7. AtomsTold(t, t, z)
  BY <1>5, <1>6 DEF AtomsTold, Extends, ToldAtom
<1>8. QED
  BY <1>2, <1>7 DEF z

\* What EnsureBlock computes on the way: the outcomes after the first n plan entries.
FoldStep(outs, ev) == Then(outs, LAMBDA s : Swallowed(UpdateFromEvent(s, ev)))
Folds(f, q, plan, m) ==
    f = [n \in 0..m |-> IF n = 0 THEN Ok(q) ELSE FoldStep(f[n - 1], plan[n])]

LEMMA FoldsExists ==
    ASSUME NEW q, NEW plan, NEW m \in Nat
    PROVE  \E f : Folds(f, q, plan, m)
<1> DEFINE Bad == {k \in Nat : ~\E f : Folds(f, q, plan, k)}
<1> SUFFICES ASSUME Bad # {} PROVE FALSE
  OBVIOUS
<1>1. PICK k \in Bad : \A y \in Bad : k <= y
  <2>1. Bad \subseteq Nat
    OBVIOUS
  <2> HIDE DEF Bad
  <2>2. QED
    BY <2>1, LeastExists
<1>2. k \in Nat /\ ~\E f : Folds(f, q, plan, k)
  BY <1>1
<1>3. CASE k = 0
  <2> DEFINE g == [n \in 0..0 |-> Ok(q)]
  <2>1. g = [n \in 0..0 |-> IF n = 0 THEN Ok(q) ELSE FoldStep(g[n - 1], plan[n])]
    OBVIOUS
  <2>2. QED
    BY <1>2, <1>3, <2>1 DEF Folds
<1>4. CASE k # 0
  <2>1. k - 1 \in Nat /\ k - 1 \notin Bad
    BY <1>1, <1>2, <1>4
  <2>2. PICK f : Folds(f, q, plan, k - 1)
    BY <2>1
  <2>3. f = [n \in 0..(k - 1) |-> IF n = 0 THEN Ok(q) ELSE FoldStep(f[n - 1], plan[n])]
    BY <2>2 DEF Folds
  <2> DEFINE g == [n \in 0..k |-> IF n = k THEN FoldStep(f[k - 1], plan[k]) ELSE f[n]]
  <2>4. \A n \in 0..k : g[n] = IF n = 0 THEN Ok(q) ELSE FoldStep(g[n - 1], plan[n])
    <3> SUFFICES ASSUME NEW n \in 0..k
                 PROVE  g[n] = IF n = 0 THEN Ok(q) ELSE FoldStep(g[n - 1], plan[n])
      OBVIOUS
    <3>1. CASE n = k
      <4>1. k - 1 \in 0..k /\ k - 1 # k
        BY <1>2, <2>1
      <4>2. g[k - 1] = f[k - 1] /\ g[k] = FoldStep(f[k - 1], plan[k])
        BY <1>2, <4>1
      <4> HIDE DEF g
      <4>3. QED
        BY <1>4, <3>1, <4>2
    <3>2. CASE n # k
      <4>1. n \in 0..(k - 1) /\ (n # 0 => n - 1 \in 0..k /\ n - 1 # k)
        BY <1>2, <3>2
      <4>2. g[n] = f[n] /\ (n # 0 => g[n - 1] = f[n - 1])
        BY <3>2, <4>1
      <4>3. f[n] = IF n = 0 THEN Ok(q) ELSE FoldStep(f[n - 1], plan[n])
        BY <2>3, <4>1
      <4> HIDE DEF g
      <4>4. QED
        BY <4>2, <4>3
    <3>3. QED
      BY <3>1, <3>2
  <2>5. g = [n \in 0..k |-> g[n]]
    OBVIOUS
  <2> HIDE DEF g
  <2>6. g = [n \in 0..k |-> IF n = 0 THEN Ok(q) ELSE FoldStep(g[n - 1], plan[n])]
    BY <2>4, <2>5
  <2>7. QED
    BY <1>2, <2>6 DEF Folds
<1>5. QED
  BY <1>3, <1>4

LEMMA FoldStepIs ==
    ASSUME NEW outs, NEW ev, NEW o, o \in FoldStep(outs, ev)
    PROVE  \E d \in outs : \/ d.res # "ok" /\ o = d
                           \/ d.res = "ok" /\ \E e \in UpdateFromEvent(d.r, ev) :
                                                 o.res = "ok" /\ o.r = e.r
<1> DEFINE Step(s) == Swallowed(UpdateFromEvent(s, ev))
<1>1. o \in Then(outs, Step)
  BY DEF FoldStep
<1> HIDE DEF Step
<1>2. PICK d \in outs : \/ d.res # "ok" /\ o = d
                        \/ d.res = "ok" /\ o \in Step(d.r)
  BY <1>1, Zenon DEF Then
<1>3. QED
  BY <1>2, SwallowedIs DEF Step

LEMMA StaysSelf ==
    ASSUME NEW q, NEW t, NEW s, Inv(q, t, s)
    PROVE  Stays(q, q)
  BY LaterSelf DEF Stays, SameSections, Inv, Shaped

\* A plan entry that says whether the plan was rendered.
LEMMA RenderedIs ==
    ASSUME NEW q, NEW t, Whole(q, t)
    PROVE  LET p == [q EXCEPT !.planRendered = TRUE] IN
           Whole(p, t) /\ Stays(q, p) /\ p.text = q.text
<1> DEFINE p == [q EXCEPT !.planRendered = TRUE]
<1>1. DOMAIN q = Fields /\ DOMAIN q.block = BlockFields
  BY DEF Whole, Inv, Shaped
<1>2. Alike(q, p) /\ Stays(q, p) /\ p.text = q.text /\ p.block = q.block /\ (Calm(p) => Calm(q))
  BY <1>1 DEF Fields, Alike, Stays, SameSections, Later, Calm
<1> HIDE DEF p
<1>3. Inv(p, t, q.block.running)
  BY <1>2, AlikeInv DEF Whole
<1>4. Running(p, t)
  BY <1>2, RunningFrame DEF Whole, Stays, SameSections
<1>5. Whole(p, t) /\ Stays(q, p) /\ p.text = q.text
  BY <1>2, <1>3, <1>4 DEF Whole
<1>6. QED
  BY <1>5 DEF p

\* The plan is folded into a block that has just been opened.
LEMMA FoldedIs ==
    ASSUME NEW q, NEW t, Whole(q, t), q.mode = "tools", NEW plan, plan = q.plan,
           NEW f, Folds(f, q, plan, Len(plan)), NEW o, o \in f[Len(plan)]
    PROVE  o.res = "ok" /\ Stays(q, o.r) /\ Whole(o.r, t)
<1> DEFINE m == Len(plan)
<1>1. m \in Nat /\ \A i \in 1..m : plan[i].id \in Plans
  BY DEF Whole, Inv, Shaped, Listed
<1>2. \A n \in 0..m : f[n] = IF n = 0 THEN Ok(q) ELSE FoldStep(f[n - 1], plan[n])
  BY DEF Folds
<1> HIDE DEF m
<1> DEFINE Good(n) == \A d \in f[n] : d.res = "ok" /\ Stays(q, d.r) /\ Whole(d.r, t)
           Bad == {n \in 0..m : ~Good(n)}
<1>3. Bad = {}
  <2> SUFFICES ASSUME Bad # {} PROVE FALSE
    OBVIOUS
  <2>1. PICK k \in Bad : \A y \in Bad : k <= y
    <3>1. Bad \subseteq Nat
      BY <1>1
    <3> HIDE DEF Bad
    <3>2. QED
      BY <3>1, LeastExists
  <2>2. k \in 0..m /\ ~Good(k)
    BY <2>1
  <2>3. CASE k = 0
    <3>1. f[0] = Ok(q)
      BY <1>1, <1>2
    <3>2. Stays(q, q)
      BY StaysSelf DEF Whole
    <3>3. QED
      BY <2>2, <2>3, <3>1, <3>2, OkIs
  <2>4. CASE k # 0
    <3>1. k - 1 \in 0..m /\ k \in 1..m /\ ~(k <= k - 1)
      BY <1>1, <2>2, <2>4
    <3>2. Good(k - 1)
      BY <2>1, <3>1
    <3>3. f[k] = FoldStep(f[k - 1], plan[k])
      BY <1>2, <2>2, <2>4
    <3>4. plan[k].id \in Tools \cup Plans /\ CardTold(t, t, plan[k].id)
      BY <1>1, <3>1, IdsApart DEF CardTold
    <3>5. \A d \in f[k - 1] : d.res = "ok" /\ Stays(q, d.r) /\ Whole(d.r, t)
      BY <3>2
    <3>6. ~\A d \in f[k] : d.res = "ok" /\ Stays(q, d.r) /\ Whole(d.r, t)
      BY <2>2
    <3> HIDE DEF Good, Bad
    <3>7. ASSUME NEW d \in f[k]
          PROVE  d.res = "ok" /\ Stays(q, d.r) /\ Whole(d.r, t)
      <4>1. PICK e \in f[k - 1] :
              \/ e.res # "ok" /\ d = e
              \/ e.res = "ok" /\ \E w \in UpdateFromEvent(e.r, plan[k]) :
                                    d.res = "ok" /\ d.r = w.r
        BY <3>3, <3>7, FoldStepIs
      <4>2. e.res = "ok" /\ Stays(q, e.r) /\ Whole(e.r, t)
        BY <3>5
      <4>3. PICK w \in UpdateFromEvent(e.r, plan[k]) : d.res = "ok" /\ d.r = w.r
        BY <4>1, <4>2
      <4>4. e.r.mode = "tools"
        BY <4>2 DEF Stays, SameSections
      <4>5. Stays(e.r, w.r) /\ Whole(w.r, t)
        BY <3>4, <4>2, <4>4, UpdateFromEventIs
      <4>6. QED
        BY <4>2, <4>3, <4>5, StaysThen
    <3>8. QED
      BY <3>6, <3>7
  <2>5. QED
    BY <2>3, <2>4
<1>4. Good(m)
  BY <1>1, <1>3
<1>5. QED
  BY <1>4 DEF m

\* A block is open, with the plan in it.
LEMMA EnsureBlockIs ==
    ASSUME NEW q, NEW t, Whole(q, t), q.mode # "text", NEW o, o \in EnsureBlock(q)
    PROVE  o.res = "ok" /\ Whole(o.r, t) /\ Later(q, o.r) /\ o.r.mode = "tools"
<1> DEFINE b == [q EXCEPT !.hasBlock = TRUE, !.block = NoBlock, !.mode = "tools"]
           Rendered(s) == Ok([s EXCEPT !.planRendered = TRUE])
<1>1. Inv(q, t, q.block.running) /\ Running(q, t) /\ Listed(t) /\ DOMAIN q = Fields
  BY DEF Whole, Inv, Shaped
<1>2. CASE q.mode = "tools"
  <2>1. q.hasBlock
    BY <1>1, <1>2 DEF Inv, Sections
  <2>2. o.res = "ok" /\ o.r = q
    BY <1>2, <2>1, OkIs DEF EnsureBlock
  <2>3. QED
    BY <1>2, <2>2, LaterSelf
<1>3. CASE q.mode # "tools"
  <2>1. q.mode = "none" /\ q.text = NoWriter /\ ~q.hasText /\ q.block = NoBlock
    BY <1>1, <1>3 DEF Inv, Sections
  <2>2. /\ DOMAIN b = Fields /\ b.tasks = q.tasks /\ b.plan = q.plan /\ b.mode = "tools"
        /\ b.hasText = q.hasText /\ b.hasBlock = TRUE /\ b.shown = q.shown
        /\ b.painted = q.painted /\ b.text = q.text /\ b.block = NoBlock
        /\ (Calm(b) <=> Calm(q)) /\ Later(q, b)
    BY <1>1 DEF Fields, Calm, Later
  <2>3. \/ o \in Ok(b)
        \/ o \in LET folded[n \in 0..Len(b.plan)] ==
                       IF n = 0 THEN Ok(b) ELSE FoldStep(folded[n - 1], b.plan[n])
                 IN Then(folded[Len(b.plan)], Rendered)
    BY <1>3 DEF EnsureBlock, FoldStep
  <2> HIDE DEF b
  <2>4. Inv(b, t, q.block.running)
    BY <1>1, <2>1, <2>2, SectionBegins
  <2>5. Whole(b, t)
    BY <1>1, <2>1, <2>2, <2>4, RunningFrame DEF Whole
  <2>6. CASE o \in Ok(b)
    BY <2>2, <2>5, <2>6, OkIs
  <2>7. CASE o \notin Ok(b)
    <3> DEFINE plan == b.plan
               m == Len(plan)
               f == CHOOSE f : f = [n \in 0..m |-> IF n = 0 THEN Ok(b) ELSE FoldStep(f[n - 1], plan[n])]
    <3>1. o \in Then(f[m], Rendered)
      BY <2>3, <2>7
    <3>2. m \in Nat
      BY <2>5 DEF Whole, Inv, Shaped, Listed
    <3>3. Folds(f, b, plan, m)
      <4>1. \E g : Folds(g, b, plan, m)
        BY <3>2, FoldsExists
      <4>2. QED
        BY <4>1 DEF Folds
    <3> HIDE DEF f, Rendered
    <3>4. PICK d \in f[m] : \/ d.res # "ok" /\ o = d
                            \/ d.res = "ok" /\ o \in Rendered(d.r)
      BY <3>1, Zenon DEF Then
    <3>5. d.res = "ok" /\ Stays(b, d.r) /\ Whole(d.r, t)
      BY <2>2, <2>5, <3>3, FoldedIs
    <3> DEFINE p == [d.r EXCEPT !.planRendered = TRUE]
    <3>6. o.res = "ok" /\ o.r = p
      BY <3>4, <3>5, OkIs DEF Rendered
    <3>7. Whole(p, t) /\ Stays(d.r, p)
      BY <3>5, RenderedIs
    <3> HIDE DEF p
    <3>8. Stays(b, p)
      BY <3>5, <3>7, StaysThen
    <3>9. p.mode = "tools" /\ Later(q, p)
      BY <2>2, <3>8, LaterTrans DEF Stays, SameSections
    <3>10. QED
      BY <3>6, <3>7, <3>9
  <2>8. QED
    BY <2>6, <2>7
<1>4. QED
  BY <1>2, <1>3

LEMMA ArrayIs ==
    ASSUME NEW n \in Nat, NEW T, NEW z \in [1..n -> T]
    PROVE  z \in Seq(T) /\ Len(z) = n
  OBVIOUS

\* An entry of a sequence is replaced.
LEMMA ReplacedIs ==
    ASSUME NEW x, Listed(x), NEW n \in 1..Len(x), NEW e,
           NEW y, y = [x EXCEPT ![n] = e]
    PROVE  Listed(y) /\ Len(y) = Len(x) /\ \A i \in 1..Len(x) : y[i] = e \/ y[i] = x[i]
<1>1. PICK S : x \in Seq(S)
  BY ListedIs
<1> DEFINE T == S \cup {e}
<1>2. x \in [1..Len(x) -> S] /\ Len(x) \in Nat
  BY <1>1
<1>3. y \in [1..Len(x) -> T] /\ \A i \in 1..Len(x) : y[i] = e \/ y[i] = x[i]
  BY <1>2
<1> HIDE DEF T
<1>4. y \in Seq(T) /\ Len(y) = Len(x)
  BY <1>2, <1>3, ArrayIs
<1>5. Listed(y)
  BY <1>4, SeqIsListed
<1>6. QED
  BY <1>3, <1>4, <1>5

\* The plan is what the agent made of it.
LEMMA PlanIs ==
    ASSUME NEW q, NEW t, Whole(q, t), NEW x, Listed(x), \A i \in 1..Len(x) : x[i].id \in Plans
    PROVE  LET p == [q EXCEPT !.plan = x] IN
           /\ Whole(p, t) /\ Later(q, p) /\ p.text = q.text /\ p.mode = q.mode
           /\ p.hasBlock = q.hasBlock
<1> DEFINE p == [q EXCEPT !.plan = x]
<1>1. Inv(q, t, q.block.running) /\ Running(q, t) /\ Listed(t) /\ DOMAIN q = Fields
  BY DEF Whole, Inv, Shaped
<1>2. /\ DOMAIN p = Fields /\ p.tasks = q.tasks /\ p.plan = x /\ p.mode = q.mode
      /\ p.hasText = q.hasText /\ p.hasBlock = q.hasBlock /\ p.shown = q.shown
      /\ p.painted = q.painted /\ p.text = q.text /\ p.block = q.block
      /\ (Calm(p) <=> Calm(q)) /\ Later(q, p)
  BY <1>1 DEF Fields, Calm, Later
<1> HIDE DEF p
<1>3. Shaped(p) /\ SentShown(p)
  BY <1>1, <1>2 DEF Inv, Shaped, SentShown
<1>4. Sections(p)
  BY <1>1, <1>2 DEF Inv, Sections
<1>5. Placed(p)
  BY <1>1, <1>2 DEF Inv, Placed
<1>6. Streams(q) => Streams(p)
  BY <1>2 DEF Streams
<1>7. Inv(p, t, q.block.running)
  BY <1>1, <1>2, <1>3, <1>4, <1>5, <1>6 DEF Inv
<1>8. Whole(p, t)
  BY <1>1, <1>2, <1>7, RunningFrame DEF Whole
<1>9. QED
  BY <1>2, <1>8 DEF p

\* An entry of the plan is new, or is updated.
LEMMA PlanUpdateIs ==
    ASSUME NEW q, NEW t, Whole(q, t), NEW ev, ev.id \in Plans, NEW o, o \in PlanUpdate(q, ev)
    PROVE  /\ o.res = "ok" /\ Whole(o.r, t) /\ Later(q, o.r) /\ o.r.mode = q.mode
           /\ q.mode = "text" => o.r.text = q.text
<1> DEFINE I == {i \in 1..Len(q.plan) : q.plan[i].id = ev.id}
           at == IF I # {} THEN Max(I) ELSE 0
           x == IF at > 0 THEN [q.plan EXCEPT ![at] = ev] ELSE Append(q.plan, ev)
           p == [q EXCEPT !.plan = x]
           s == [p EXCEPT !.planRendered = TRUE]
<1>1. DOMAIN q = Fields /\ Listed(q.plan) /\ Len(q.plan) \in Nat
      /\ (\A i \in 1..Len(q.plan) : q.plan[i].id \in Plans)
      /\ (q.hasBlock <=> q.mode = "tools")
  BY DEF Whole, Inv, Shaped, Sections, Listed
<1>2. at \in 0..Len(q.plan)
  <2>1. I \subseteq 1..Len(q.plan)
    OBVIOUS
  <2> HIDE DEF I
  <2>2. QED
    BY <1>1, <2>1, LastIs
<1>3. o \in IF p.mode = "tools" /\ p.hasBlock THEN Swallowed(UpdateFromEvent(s, ev)) ELSE Ok(p)
  <2> DEFINE z == IF at > 0 THEN [q EXCEPT !.plan[at] = ev] ELSE [q EXCEPT !.plan = Append(@, ev)]
  <2>1. o \in IF z.mode = "tools" /\ z.hasBlock
              THEN Swallowed(UpdateFromEvent([z EXCEPT !.planRendered = TRUE], ev)) ELSE Ok(z)
    BY DEF PlanUpdate, SelectLastInSeq
  <2> HIDE DEF at
  <2>2. z = p
    <3>1. CASE at > 0
      BY <1>1, <3>1 DEF Fields
    <3>2. CASE ~(at > 0)
      BY <1>1, <3>2 DEF Fields
    <3>3. QED
      BY <3>1, <3>2
  <2> HIDE DEF z, p
  <2>3. QED
    BY <2>1, <2>2
<1> HIDE DEF at
<1>4. Listed(x) /\ \A i \in 1..Len(x) : x[i].id \in Plans
  <2>1. CASE at > 0
    <3> DEFINE y == [q.plan EXCEPT ![at] = ev]
    <3>1. at \in 1..Len(q.plan)
      BY <1>2, <2>1
    <3>2. Listed(y) /\ Len(y) = Len(q.plan) /\ \A i \in 1..Len(q.plan) : y[i] = ev \/ y[i] = q.plan[i]
      <4>1. Listed(q.plan)
        BY <1>1
      <4>2. y = [q.plan EXCEPT ![at] = ev]
        OBVIOUS
      <4> HIDE DEF y
      <4>3. QED
        BY <3>1, <4>1, <4>2, ReplacedIs
    <3>3. x = y
      BY <2>1
    <3> HIDE DEF x, y
    <3>4. QED
      BY <1>1, <3>2, <3>3
  <2>2. CASE ~(at > 0)
    <3> DEFINE y == Append(q.plan, ev)
    <3>1. /\ Listed(y) /\ Len(y) = Len(q.plan) + 1 /\ y[Len(q.plan) + 1] = ev
          /\ \A i \in 1..Len(q.plan) : y[i] = q.plan[i]
      BY <1>1, AppendIs
    <3>2. x = y
      BY <2>2
    <3> HIDE DEF x, y
    <3>3. \A i \in 1..Len(y) : i \in 1..Len(q.plan) \/ i = Len(q.plan) + 1
      BY <1>1, <3>1
    <3>4. QED
      BY <1>1, <3>1, <3>2, <3>3
  <2>3. QED
    BY <2>1, <2>2
<1> HIDE DEF x
<1>5. /\ Whole(p, t) /\ Later(q, p) /\ p.text = q.text /\ p.mode = q.mode
      /\ p.hasBlock = q.hasBlock
  BY <1>4, PlanIs
<1> HIDE DEF p
<1>6. CASE q.mode = "tools"
  <2>1. PICK e \in UpdateFromEvent(s, ev) : o.res = "ok" /\ o.r = e.r
    <3>1. o \in Swallowed(UpdateFromEvent(s, ev))
      BY <1>1, <1>3, <1>5, <1>6
    <3>2. QED
      BY <3>1, SwallowedIs
  <2>2. Whole(s, t) /\ Stays(p, s)
    BY <1>5, RenderedIs
  <2> HIDE DEF s
  <2>3. CardTold(t, t, ev.id) /\ ev.id \in Tools \cup Plans /\ s.mode = "tools"
    BY <1>5, <1>6, <2>2, IdsApart DEF CardTold, Stays, SameSections
  <2>4. Stays(s, e.r) /\ Whole(e.r, t)
    BY <2>1, <2>2, <2>3, UpdateFromEventIs
  <2>5. Stays(p, e.r)
    BY <2>2, <2>4, StaysThen
  <2>6. QED
    BY <1>5, <1>6, <2>1, <2>4, <2>5, LaterTrans DEF Stays, SameSections
<1>7. CASE q.mode # "tools"
  <2>1. o.res = "ok" /\ o.r = p
    BY <1>3, <1>5, <1>7, OkIs
  <2>2. QED
    BY <1>5, <2>1
<1>8. QED
  BY <1>6, <1>7

\* A plan that no block showed gets one of its own.
LEMMA FlushUnrenderedPlanIs ==
    ASSUME NEW q, NEW t, Whole(q, t), q.mode # "text", NEW o, o \in FlushUnrenderedPlan(q)
    PROVE  o.res = "ok" /\ Whole(o.r, t) /\ Later(q, o.r) /\ o.r.mode # "text"
<1>1. o \in Ok(q) \/ o \in EnsureBlock(q)
  BY DEF FlushUnrenderedPlan
<1>2. CASE o \in Ok(q)
  BY <1>2, OkIs, LaterSelf
<1>3. CASE o \in EnsureBlock(q)
  BY <1>3, EnsureBlockIs
<1>4. QED
  BY <1>1, <1>2, <1>3

\* A tool is seen.
LEMMA SeenIs ==
    ASSUME NEW q, NEW t, Sound(q, t), NEW w
    PROVE  LET p == [q EXCEPT !.seen = w] IN
           /\ Sound(p, t) /\ p.seen = w /\ p.text = q.text /\ p.mode = q.mode
           /\ p.refused = q.refused /\ p.cancelled = q.cancelled /\ p.thinking = q.thinking
           /\ p.tasks = q.tasks /\ p.ids = q.ids
<1> DEFINE p == [q EXCEPT !.seen = w]
<1>1. Inv(q, t, q.block.running) /\ Running(q, t) /\ Listed(t)
      /\ DOMAIN q = Fields /\ DOMAIN q.block = BlockFields
  BY DEF Sound, Whole, Inv, Shaped
<1>2. /\ Alike(q, p) /\ p.text = q.text /\ p.block = q.block /\ (Calm(p) <=> Calm(q))
      /\ p.seen = w /\ p.mode = q.mode
      /\ p.refused = q.refused /\ p.cancelled = q.cancelled /\ p.thinking = q.thinking
      /\ p.tasks = q.tasks /\ p.ids = q.ids
  BY <1>1 DEF Fields, Alike, Calm
<1> HIDE DEF p
<1>3. Inv(p, t, q.block.running)
  BY <1>1, <1>2, AlikeInv
<1>4. Running(p, t) /\ Idle(p)
  BY <1>1, <1>2, RunningFrame DEF Sound, Idle
<1>5. Sound(p, t)
  BY <1>1, <1>2, <1>3, <1>4 DEF Sound, Whole
<1>6. QED
  BY <1>2, <1>5 DEF p

\* What no step of Handle does before it is about to return.
After(q, p) ==
    /\ (q.refused => p.refused) /\ (q.cancelled => p.cancelled) /\ (p.thinking => q.thinking)
    /\ p.tasks = q.tasks /\ p.ids = q.ids

\* An event of a tool, or of an entry of the plan.
LEMMA TaskIs ==
    ASSUME NEW q, NEW t, Sound(q, t), NEW ev, ev.id \in Tools \cup Plans, NEW u,
           ev.id \in Tools => CardTold(t, u, ev.id), ev.id \notin Tools => u = t,
           ev.id \in q.seen => u = t, NEW o, o \in Task(q, ev)
    PROVE  /\ Sound(o.r, u) /\ After(q, o.r)
           /\ o.r.seen = q.seen \/ (o.r.seen = q.seen \cup {ev.id})
           /\ ev.id \in Tools => o.r.seen = q.seen \cup {ev.id}
           /\ ~q.text.stopped => ~o.r.text.stopped
<1> DEFINE s == [q EXCEPT !.seen = @ \cup {ev.id}]
           Show(p) == Swallowed(UpdateFromEvent(p, ev))
           Open(p) == Then(EnsureBlock(p), Show)
           close == IF q.mode = "text" THEN CloseText(s) ELSE Ok(s)
<1>1. CASE ev.id \in Plans
  <2>1. o \in PlanUpdate(q, ev) /\ u = t
    BY <1>1, IdsApart DEF Task
  <2>2. /\ o.res = "ok" /\ Whole(o.r, t) /\ Later(q, o.r) /\ o.r.mode = q.mode
        /\ q.mode = "text" => o.r.text = q.text
    BY <1>1, <2>1, PlanUpdateIs DEF Sound
  <2>3. Idle(o.r) /\ (~q.text.stopped => ~o.r.text.stopped)
    <3>1. CASE q.mode = "text"
      BY <2>2, <3>1 DEF Sound, Idle, Later, Calm
    <3>2. CASE q.mode # "text"
      BY <2>2, <3>2, NotTextIs DEF Whole
    <3>3. QED
      BY <3>1, <3>2
  <2>4. QED
    BY <1>1, <2>1, <2>2, <2>3, IdsApart DEF Sound, Later, After
<1>2. CASE ev.id \notin Plans
  <2>1. /\ Sound(s, t) /\ s.seen = q.seen \cup {ev.id} /\ s.text = q.text /\ s.mode = q.mode
        /\ After(q, s)
    <3> DEFINE w == q.seen \cup {ev.id}
               p == [q EXCEPT !.seen = w]
    <3>1. s = p
      OBVIOUS
    <3>2. /\ Sound(p, t) /\ p.seen = w /\ p.text = q.text /\ p.mode = q.mode
          /\ p.refused = q.refused /\ p.cancelled = q.cancelled /\ p.thinking = q.thinking
          /\ p.tasks = q.tasks /\ p.ids = q.ids
      BY SeenIs, Zenon
    <3> HIDE DEF p, s
    <3>3. QED
      BY <3>1, <3>2 DEF After
  <2>2. \/ q.mode = "text" /\ ev.id \in q.seen /\ o \in Ok(s)
        \/ o \in Then(close, Open)
    BY <1>2 DEF Task
  <2> HIDE DEF s
  <2>3. CASE q.mode = "text" /\ ev.id \in q.seen /\ o \in Ok(s)
    BY <2>1, <2>3, OkIs
  <2>4. CASE o \in Then(close, Open)
    <3>1. PICK d \in close : \/ d.res # "ok" /\ o = d
                             \/ d.res = "ok" /\ o \in Open(d.r)
      <4> HIDE DEF close, Open
      <4>1. QED
        BY <2>4, Zenon DEF Then
    <3>2. d.res = "ok" /\ Whole(d.r, t) /\ Later(s, d.r) /\ d.r.mode # "text"
      <4>1. CASE q.mode = "text"
        BY <2>1, <4>1, CloseTextIs DEF Sound
      <4>2. CASE q.mode # "text"
        BY <2>1, <4>2, OkIs, LaterSelf DEF Sound
      <4>3. QED
        BY <4>1, <4>2
    <3>3. PICK e \in EnsureBlock(d.r) : \/ e.res # "ok" /\ o = e
                                        \/ e.res = "ok" /\ o \in Show(e.r)
      <4>1. o \in Then(EnsureBlock(d.r), Show)
        BY <3>1, <3>2
      <4> HIDE DEF Show
      <4>2. QED
        BY <4>1, Zenon DEF Then
    <3>4. e.res = "ok" /\ Whole(e.r, t) /\ Later(d.r, e.r) /\ e.r.mode = "tools"
      BY <3>2, EnsureBlockIs
    <3>5. PICK w \in UpdateFromEvent(e.r, ev) : o.res = "ok" /\ o.r = w.r
      BY <3>3, <3>4, SwallowedIs
    <3>6. Stays(e.r, w.r) /\ Whole(w.r, u)
      BY <1>2, <3>4, UpdateFromEventIs
    <3>7. Later(s, o.r)
      BY <3>2, <3>4, <3>5, <3>6, LaterTrans DEF Stays
    <3>8. Idle(o.r) /\ ~o.r.text.stopped
      BY <3>4, <3>5, <3>6, NotTextIs DEF Whole, Stays, SameSections
    <3>9. QED
      BY <2>1, <3>5, <3>6, <3>7, <3>8 DEF Sound, Later, After
  <2>5. QED
    BY <2>2, <2>3, <2>4
<1>3. QED
  BY <1>1, <1>2

\* A file or a question is posted.
Posts(q, k) ==
    Then(Serve(q), LAMBDA p : Ok(Post(p, k, FALSE))) \cup Lost(q, Post(q, k, FALSE))

LEMMA PostsIs ==
    ASSUME NEW q, NEW t, Whole(q, t), q.mode # "text", NEW k \in {"ask", "file"},
           NEW o, o \in Posts(q, k)
    PROVE  Whole(o.r, t) /\ Later(q, o.r) /\ o.r.mode = q.mode
<1> DEFINE Put(p) == Ok(Post(p, k, FALSE))
           post == Post(q, k, FALSE)
<1>0. CASE o \in Lost(q, post)
  <2>1. Inv(q, t, q.block.running) /\ DOMAIN q = Fields /\ k \in Kinds /\ q.text.msg = 0
    BY DEF Whole, Inv, Shaped, Kinds, Sections, NoWriter
  <2>2. /\ Frame(q, post) /\ post.painted = q.painted /\ post.text = q.text
        /\ post.block = q.block /\ \E m \in Messages : post.shown = Append(q.shown, m)
    BY <2>1, PostIs
  <2> HIDE DEF post
  <2>3. o.res = "err" /\ Frame(q, o.r) /\ Inv(o.r, t, q.block.running)
    BY <1>0, <2>1, <2>2, LostInv
  <2>4. QED
    BY <2>3, RunningFrame DEF Whole, Frame, SameSections
<1> SUFFICES ASSUME o \notin Lost(q, post)
             PROVE  Whole(o.r, t) /\ Later(q, o.r) /\ o.r.mode = q.mode
  BY <1>0
<1> HIDE DEF post
<1>1. PICK e \in Serve(q) : \/ e.res # "ok" /\ o = e
                            \/ e.res = "ok" /\ o \in Put(e.r)
  <2>1. o \in Then(Serve(q), Put)
    BY DEF Posts, post
  <2> HIDE DEF Put
  <2>2. QED
    BY <2>1, Zenon DEF Then
<1>2. Inv(q, t, q.block.running) /\ Running(q, t) /\ Listed(t) /\ DOMAIN q = Fields
  BY DEF Whole, Inv, Shaped
<1>3. /\ Inv(e.r, t, q.block.running) /\ Later(q, e.r) /\ Frame(q, e.r)
      /\ (e.res = "ok" => e.r = q)
  BY <1>2, ServeIs, ServeFrames DEF Fine
<1>4. CASE e.res # "ok" /\ o = e
  BY <1>2, <1>3, <1>4, RunningFrame DEF Whole, Frame, SameSections
<1>5. CASE e.res = "ok" /\ o \in Put(e.r)
  <2> DEFINE x == Append(q.shown, [kind |-> k, open |-> FALSE])
             p == [q EXCEPT !.shown = x]
  <2>1. o.r = p
    BY <1>2, <1>3, <1>5, OkIs DEF Post, Fields
  <2>2. /\ SameSections(q, p) /\ Later(q, p) /\ p.painted = q.painted /\ p.text = q.text
        /\ p.block = q.block /\ (Calm(p) => Calm(q)) /\ p.shown = x
    BY <1>2 DEF Fields, SameSections, Later, Calm
  <2> HIDE DEF p
  <2>3. Inv(p, t, q.block.running)
    BY <1>2, <2>2, Posted
  <2>4. Whole(p, t)
    BY <1>2, <2>2, <2>3, RunningFrame DEF Whole, SameSections
  <2>5. QED
    BY <2>1, <2>2, <2>4 DEF SameSections
<1>6. QED
  BY <1>1, <1>4, <1>5

\* Outside a section of text nothing is buffered, and no writer of text has stopped.
LEMMA WholeIsSound ==
    ASSUME NEW q, NEW t, Whole(q, t), q.mode # "text"
    PROVE  Sound(q, t) /\ ~q.text.stopped
  BY NotTextIs DEF Whole, Sound

\* The text is committed before a file.
LEMMA AttachmentIs ==
    ASSUME NEW q, NEW t, Sound(q, t), NEW o, o \in Attachment(q)
    PROVE  Sound(o.r, t) /\ Later(q, o.r) /\ ~o.r.text.stopped
<1>1. PICK d \in CloseText(q) : \/ d.res # "ok" /\ o = d
                                \/ d.res = "ok" /\ o \in UploadAttachment(d.r)
  BY Zenon DEF Attachment, Then
<1>2. d.res = "ok" /\ Whole(d.r, t) /\ Later(q, d.r) /\ d.r.mode # "text"
  BY CloseTextIs DEF Sound
<1>3. o \in {Result("err", d.r)} \/ o \in Posts(d.r, "file")
  BY <1>1, <1>2 DEF UploadAttachment, Posts
<1>4. Whole(o.r, t) /\ Later(d.r, o.r) /\ o.r.mode # "text"
  <2>1. CASE o \in {Result("err", d.r)}
    BY <1>2, <2>1, ResultIs, LaterSelf
  <2>2. CASE o \in Posts(d.r, "file")
    BY <1>2, <2>2, PostsIs
  <2>3. QED
    BY <1>3, <2>1, <2>2
<1>5. QED
  BY <1>2, <1>4, LaterTrans, WholeIsSound

\* The text is committed before a question.
LEMMA InterjectionIs ==
    ASSUME NEW q, NEW t, Sound(q, t), NEW o, o \in Interjection(q)
    PROVE  Sound(o.r, t) /\ Later(q, o.r) /\ ~o.r.text.stopped
<1> DEFINE Ask(s) == Swallowed(Posts(s, "ask"))
<1>1. PICK d \in CloseText(q) : \/ d.res # "ok" /\ o = d
                                \/ d.res = "ok" /\ o \in Ask(d.r)
  <2>1. o \in Then(CloseText(q), Ask)
    BY DEF Interjection, Posts
  <2> HIDE DEF Ask
  <2>2. QED
    BY <2>1, Zenon DEF Then
<1>2. d.res = "ok" /\ Whole(d.r, t) /\ Later(q, d.r) /\ d.r.mode # "text"
  BY CloseTextIs DEF Sound
<1>3. PICK e \in Posts(d.r, "ask") : o.r = e.r
  BY <1>1, <1>2, SwallowedIs
<1>4. Whole(o.r, t) /\ Later(d.r, o.r) /\ o.r.mode # "text"
  BY <1>2, <1>3, PostsIs
<1>5. QED
  BY <1>2, <1>4, LaterTrans, WholeIsSound

LEMMA StopSound ==
    ASSUME NEW q, NEW t, Sound(q, t), q.mode = "text", NEW o, o \in StopStream(q, "text")
    PROVE  Sound(o.r, t) /\ Stays(q, o.r)
<1>1. Inv(q, t, q.block.running) /\ Running(q, t) /\ Listed(t) /\ Len(t) \in Nat
  BY DEF Sound, Whole, Listed
<1>2. /\ o.res \in {"ok", "err"} /\ Frame(q, o.r) /\ Inv(o.r, t, q.block.running)
      /\ o.res = "err" => ~Calm(o.r)
      /\ o.res = "ok" /\ (~Begun(q.text) \/ q.text.stopped) => o.r = q
      /\ o.res = "ok" /\ Begun(q.text) /\ ~q.text.stopped =>
           o.r.text.stopped /\ o.r.text.pending = <<>>
  BY <1>1, StopTextIs
<1>3. Whole(o.r, t)
  BY <1>1, <1>2, RunningFrame DEF Whole, Frame, SameSections
<1>4. Idle(o.r)
  BY <1>2 DEF Idle, Sound
<1>5. QED
  BY <1>2, <1>3, <1>4 DEF Sound, Frame, Stays

LEMMA FailTextIs ==
    ASSUME NEW q, NEW t, Sound(q, t), q.mode = "text", NEW o, o \in FailText(q)
    PROVE  Sound(o.r, t) /\ Stays(q, o.r)
<1> DEFINE Halt(s) == StopStream(s, "text")
<1>1. PICK d \in AppendText(q, Note("nl")) : \/ d.res # "ok" /\ o = d
                                             \/ d.res = "ok" /\ o \in Halt(d.r)
  <2>1. o \in Then(AppendText(q, Note("nl")), Halt)
    BY DEF FailText
  <2> HIDE DEF Halt
  <2>2. QED
    BY <2>1, Zenon DEF Then
<1>2. Listed(t) /\ AtomsTold(t, t, Note("nl"))
  BY NoteIs DEF Sound, Whole, Inv
<1>3. Sound(d.r, t) /\ Stays(q, d.r) /\ d.r.mode = "text"
  <2>1. Sound(d.r, t) /\ Stays(q, d.r)
    BY <1>1, <1>2, AppendSound
  <2>2. QED
    BY <2>1 DEF Stays, SameSections
<1>4. CASE d.res # "ok" /\ o = d
  BY <1>3, <1>4
<1>5. CASE d.res = "ok" /\ o \in Halt(d.r)
  <2>1. Sound(o.r, t) /\ Stays(d.r, o.r)
    BY <1>3, <1>5, StopSound
  <2>2. QED
    BY <1>3, <2>1, StaysThen
<1>6. QED
  BY <1>1, <1>4, <1>5

\* A notice of a failure.
LEMMA FailIs ==
    ASSUME NEW q, NEW t, Sound(q, t), NEW o, o \in Fail(q)
    PROVE  Sound(o.r, t) /\ Later(q, o.r)
<1> DEFINE Tell(s) == FailText(NewText(s))
<1>1. PICK d \in CloseBlock(q) : \/ d.res # "ok" /\ o = d
                                 \/ d.res = "ok" /\ o \in Tell(d.r)
  <2>1. o \in Then(CloseBlock(q), Tell)
    BY DEF Fail
  <2> HIDE DEF Tell
  <2>2. QED
    BY <2>1, Zenon DEF Then
<1>2. d.res = "ok" /\ Sound(d.r, t) /\ Later(q, d.r) /\ d.r.mode # "tools"
  <2>1. /\ d.res = "ok" /\ Whole(d.r, t) /\ Later(q, d.r)
        /\ d.r.mode = IF q.mode = "tools" THEN "none" ELSE q.mode
        /\ d.r.text = q.text \/ d.r.mode # "text"
    BY CloseBlockIs DEF Sound
  <2>2. CASE d.r.mode # "text"
    BY <2>1, <2>2, WholeIsSound
  <2>3. CASE d.r.mode = "text"
    <3>1. Idle(d.r)
      BY <2>1, <2>3, LaterCalm DEF Sound, Idle
    <3>2. QED
      BY <2>1, <2>3, <3>1 DEF Sound
  <2>4. QED
    BY <2>2, <2>3
<1> DEFINE n == NewText(d.r)
<1>3. Sound(n, t) /\ Later(d.r, n) /\ n.mode = "text"
  BY <1>2, NewTextIs
<1>4. o \in FailText(n)
  BY <1>1, <1>2
<1> HIDE DEF n
<1>5. Sound(o.r, t) /\ Later(n, o.r)
  BY <1>3, <1>4, FailTextIs DEF Stays
<1>6. QED
  BY <1>2, <1>3, <1>5, LaterTrans

\* Every section is closed.
LEMMA EnsureStoppedIs ==
    ASSUME NEW q, NEW t, Sound(q, t), NEW o, o \in EnsureStopped(q)
    PROVE  o.res = "ok" /\ Sound(o.r, t) /\ Later(q, o.r) /\ o.r.mode = "none"
<1> DEFINE Close(s) == Then(FlushUnrenderedPlan(s), CloseBlock)
<1>1. PICK d \in CloseText(q) : \/ d.res # "ok" /\ o = d
                                \/ d.res = "ok" /\ o \in Close(d.r)
  <2>1. o \in Then(CloseText(q), Close)
    BY DEF EnsureStopped
  <2> HIDE DEF Close
  <2>2. QED
    BY <2>1, Zenon DEF Then
<1>2. d.res = "ok" /\ Whole(d.r, t) /\ Later(q, d.r) /\ d.r.mode # "text"
  BY CloseTextIs DEF Sound
<1>3. PICK e \in FlushUnrenderedPlan(d.r) : \/ e.res # "ok" /\ o = e
                                            \/ e.res = "ok" /\ o \in CloseBlock(e.r)
  <2>1. o \in Then(FlushUnrenderedPlan(d.r), CloseBlock)
    BY <1>1, <1>2
  <2>2. QED
    BY <2>1, Zenon DEF Then
<1>4. e.res = "ok" /\ Whole(e.r, t) /\ Later(d.r, e.r) /\ e.r.mode # "text"
  BY <1>2, FlushUnrenderedPlanIs
<1>5. /\ o.res = "ok" /\ Whole(o.r, t) /\ Later(e.r, o.r)
      /\ o.r.mode = IF e.r.mode = "tools" THEN "none" ELSE e.r.mode
  BY <1>3, <1>4, CloseBlockIs
<1>6. o.r.mode = "none"
  <2>1. e.r.mode \in {"none", "text", "tools"}
    BY <1>4 DEF Whole, Inv, Sections
  <2>2. QED
    BY <1>4, <1>5, <2>1
<1>7. Sound(o.r, t)
  BY <1>5, <1>6, WholeIsSound
<1>8. QED
  BY <1>2, <1>4, <1>5, <1>6, <1>7, LaterTrans

\* The reply is complete.
LEMMA FinishIs ==
    ASSUME NEW q, NEW t, Sound(q, t), NEW emptyNote, NEW o, o \in Finish(q, emptyNote)
    PROVE  Sound(o.r, t) /\ Later(q, o.r)
<1> DEFINE say == IF emptyNote THEN RenderText(q, Note("sp")) ELSE Ok(q)
<1>1. PICK d \in say : \/ d.res # "ok" /\ o = d
                       \/ d.res = "ok" /\ o \in EnsureStopped(d.r)
  <2>1. o \in Then(say, EnsureStopped)
    BY DEF Finish, EnsureStopped
  <2> HIDE DEF say
  <2>2. QED
    BY <2>1, Zenon DEF Then
<1>2. Sound(d.r, t) /\ Later(q, d.r)
  <2>1. CASE emptyNote
    <3>1. Listed(t) /\ AtomsTold(t, t, Note("sp"))
      BY NoteIs DEF Sound, Whole, Inv
    <3>2. d \in RenderText(q, Note("sp"))
      BY <2>1
    <3>3. QED
      BY <3>1, <3>2, RenderTextIs
  <2>2. CASE ~emptyNote
    BY <2>2, OkIs, LaterSelf
  <2>3. QED
    BY <2>1, <2>2
<1>3. CASE d.res # "ok" /\ o = d
  BY <1>2, <1>3
<1>4. CASE d.res = "ok" /\ o \in EnsureStopped(d.r)
  BY <1>2, <1>4, EnsureStoppedIs, LaterTrans
<1>5. QED
  BY <1>1, <1>3, <1>4

\* The marker of a turn that was cancelled.
LEMMA InterruptedIs ==
    ASSUME NEW q, NEW t, Sound(q, t), NEW o, o \in Interrupted(q)
    PROVE  Sound(o.r, t) /\ Later(q, o.r)
<1> DEFINE mark == IF q.hasText /\ Begun(q.text) /\ ~q.text.stopped
                   THEN Swallowed(FailText(q)) ELSE Ok(q)
<1>1. PICK d \in mark : \/ d.res # "ok" /\ o = d
                        \/ d.res = "ok" /\ o \in CloseBlock(d.r)
  <2>1. o \in Then(mark, CloseBlock)
    BY DEF Interrupted, FailText
  <2> HIDE DEF mark
  <2>2. QED
    BY <2>1, Zenon DEF Then
<1>2. Sound(d.r, t) /\ Later(q, d.r)
  <2>1. CASE q.hasText /\ Begun(q.text) /\ ~q.text.stopped
    <3>1. q.mode = "text"
      BY <2>1 DEF Sound, Whole, Inv, Sections
    <3>2. PICK e \in FailText(q) : d.r = e.r
      BY <2>1, SwallowedIs
    <3>3. QED
      BY <3>1, <3>2, FailTextIs DEF Stays
  <2>2. CASE ~(q.hasText /\ Begun(q.text) /\ ~q.text.stopped)
    <3>1. d \in Ok(q)
      BY <2>2
    <3>2. QED
      BY <3>1, OkIs, LaterSelf
  <2>3. QED
    BY <2>1, <2>2
<1>3. CASE d.res # "ok" /\ o = d
  BY <1>2, <1>3
<1>4. CASE d.res = "ok" /\ o \in CloseBlock(d.r)
  <2>1. /\ Whole(o.r, t) /\ Later(d.r, o.r) /\ (o.r.text = d.r.text \/ o.r.mode # "text")
    BY <1>2, <1>4, CloseBlockIs DEF Sound
  <2>2. Sound(o.r, t)
    <3>1. CASE o.r.mode # "text"
      BY <2>1, <3>1, WholeIsSound
    <3>2. CASE o.r.text = d.r.text
      BY <1>2, <2>1, <3>2, LaterCalm DEF Sound, Idle
    <3>3. QED
      BY <2>1, <3>1, <3>2
  <2>3. QED
    BY <1>2, <2>1, <2>2, LaterTrans
<1>5. QED
  BY <1>1, <1>3, <1>4

-----------------------------------------------------------------------------
(* Handle.                                                                 *)

\* A tool was told when it was first seen.
ToldInv(t, seen) ==
    /\ \A a \in 1..Len(t) : t[a].k = "card" => t[a].id \in seen
    /\ \A id \in Tools \cap seen : IsTold(t, id)

Phases == {"setup", "streaming", "draining", "clearing", "marking", "settling", "recording", "returned"}
Late == {"marking", "settling", "recording", "returned"}
Closed == {"recording", "returned"}

\* The invariant of the turn.
HandleInv ==
    /\ Sound(r, told) /\ ToldInv(told, r.seen)
    /\ phase \in Phases
    /\ r.ids \subseteq Tools \cup Plans
    /\ phase \in {"setup", "streaming"} => ~r.text.stopped
    /\ phase \in Closed => r.mode = "none"
    /\ phase \in Late => refresher \in {"off", "stopped"} /\ (r.refused \/ ~r.thinking)
    /\ ~threaded => refresher = "off" /\ ~r.thinking

\* The invariant is true of a record in which nothing has been shown.
LEMMA StartsSound ==
    ASSUME NEW set
    PROVE  LET q == InitialRecord(set) IN
           /\ Sound(q, <<>>) /\ q.seen = {} /\ ~q.text.stopped /\ q.mode = "none"
           /\ ~q.thinking /\ q.ids = set.ids
<1> DEFINE q == InitialRecord(set)
<1>1. /\ DOMAIN q = Fields /\ q.shown = <<>> /\ q.painted = <<>> /\ q.mode = "none"
      /\ q.hasText = FALSE /\ q.text = NoWriter /\ q.hasBlock = FALSE /\ q.block = NoBlock
      /\ q.seen = {} /\ q.plan = <<>> /\ ~q.thinking /\ q.ids = set.ids
  BY DEF InitialRecord, Fields
<1>2. /\ DOMAIN NoWriter = WriterFields /\ NoWriter.msg = 0
      /\ NoWriter.pending = <<>> /\ ~NoWriter.stopped
  BY DEF NoWriter, WriterFields
<1>3. /\ DOMAIN NoBlock = BlockFields /\ NoBlock.writer = NoWriter /\ NoBlock.line = 0
      /\ NoBlock.sent = {} /\ NoBlock.running = {}
  BY DEF NoBlock, BlockFields
<1>4. Listed(<<>>) /\ Len(<<>>) = 0 /\ <<>> \in Seq(Messages)
  <2>1. <<>> \in Seq(Messages)
    OBVIOUS
  <2>2. QED
    BY <2>1, OneIs
<1> HIDE DEF q
<1>5. Shaped(q)
  BY <1>1, <1>2, <1>3, <1>4 DEF Shaped
<1>6. Sections(q)
  BY <1>1, <1>2, <1>3 DEF Sections
<1>7. Placed(q)
  BY <1>1, <1>2, <1>3, <1>4 DEF Placed
<1>8. Numbered(<<>>) /\ InOrder(q.painted, q.text.pending, <<>>) /\ SentShown(q)
  BY <1>1, <1>2, <1>3, <1>4 DEF Numbered, InOrder, SentShown
<1>9. Delivered(q.tasks, q.painted, q.text.pending, <<>>) /\ SpinsOnly(q.painted, {}) /\ Streams(q)
  BY <1>1, <1>2, <1>4 DEF Delivered, SpinsOnly, Streams
<1>10. Inv(q, <<>>, q.block.running)
  BY <1>1, <1>3, <1>5, <1>6, <1>7, <1>8, <1>9 DEF Inv
<1>11. Running(q, <<>>) /\ Idle(q)
  BY <1>1, <1>2, <1>3 DEF Running, Idle
<1>12. Sound(q, <<>>)
  BY <1>4, <1>10, <1>11 DEF Sound, Whole
<1>13. QED
  BY <1>1, <1>2, <1>12 DEF q

LEMMA StartsHandled == ReplyInit => HandleInv
<1> SUFFICES ASSUME ReplyInit PROVE HandleInv
  OBVIOUS
<1>1. PICK set \in Replies : r = InitialRecord(set)
  BY DEF ReplyInit
<1>2. phase = "setup" /\ refresher = "off" /\ told = <<>>
  BY DEF ReplyInit
<1>3. /\ Sound(r, told) /\ r.seen = {} /\ ~r.text.stopped /\ r.mode = "none"
      /\ ~r.thinking /\ r.ids = set.ids
  BY <1>1, <1>2, StartsSound
<1>4. ToldInv(told, r.seen)
  <2>1. Len(told) = 0
    BY <1>2, OneIs
  <2>2. QED
    BY <1>3, <2>1 DEF ToldInv
<1>5. r.ids \subseteq Tools \cup Plans
  BY <1>1, <1>3, RepliesUseIds
<1>6. QED
  BY <1>2, <1>3, <1>4, <1>5 DEF HandleInv, Phases, Late, Closed

\* The steps that leave the refresher alone.
LEMMA Handled ==
    ASSUME HandleInv, Sound(r', told'), ToldInv(told', r'.seen), After(r, r'),
           phase' \in Phases, phase' \in {"setup", "streaming"} => ~r'.text.stopped,
           phase' \in Closed => r'.mode = "none", phase' \in Late => phase \in Late,
           threaded' = threaded, refresher' = refresher
    PROVE  HandleInv'
  BY DEF HandleInv, After

LEMMA LaterIsAfter ==
    ASSUME NEW q, NEW p, Later(q, p)
    PROVE  After(q, p) /\ p.seen = q.seen
  BY DEF Later, After

\* The steps of a turn whose record is q that tell nothing new.
LEMMA HandledQuietly ==
    ASSUME HandleInv, Sound(r', told), Later(r, r'),
           phase' \in Phases, phase' \in {"setup", "streaming"} => ~r'.text.stopped,
           phase' \in Closed => r'.mode = "none", phase' \in Late => phase \in Late,
           threaded' = threaded, refresher' = refresher, told' = told
    PROVE  HandleInv'
<1>1. After(r, r') /\ r'.seen = r.seen
  BY LaterIsAfter
<1>2. Sound(r', told') /\ ToldInv(told', r'.seen)
  BY <1>1 DEF HandleInv
<1>3. QED
  BY <1>1, <1>2, Handled

\* A delta tells its atoms: only text is added to what was told.
AtomsOf(t, d) == [i \in DOMAIN d |-> [id |-> Len(t) + i, brk |-> d[i]]]
AddsText(t, u) ==
    /\ \A a \in 1..Len(t) : a \in 1..Len(u) /\ u[a] = t[a]
    /\ \A a \in 1..Len(u) : a \in 1..Len(t) \/ u[a].k = "text"

LEMMA DeltaTold ==
    ASSUME NEW t, Listed(t), Numbered(t), NEW d \in Deltas, NEW atoms,
           atoms = AtomsOf(t, d), NEW u, u = t \o Pieces(atoms)
    PROVE  Listed(u) /\ AtomsTold(t, u, atoms) /\ AddsText(t, u)
<1> DEFINE n == Len(d)
<1>1. DOMAIN d = 1..n /\ n \in Nat
  BY DeltasAreText
<1> HIDE DEF n
<1> DEFINE S == {[id |-> Len(t) + i, brk |-> d[i]] : i \in 1..n}
<1>2. atoms \in [1..n -> S] /\ \A i \in 1..n : atoms[i].id = Len(t) + i
  BY <1>1 DEF AtomsOf
<1> HIDE DEF S
<1>3. atoms \in Seq(S) /\ Len(atoms) = n
  BY <1>1, <1>2, ArrayIs
<1>4. Listed(atoms)
  BY <1>3, SeqIsListed
<1> DEFINE x == Pieces(atoms)
<1>5. /\ Listed(x) /\ Len(x) = n
      /\ \A i \in 1..n : x[i].k = "text" /\ x[i].id = Len(t) + i
  BY <1>2, <1>3, <1>4, PiecesAre
<1>6. u = t \o x
  OBVIOUS
<1> HIDE DEF x
<1>7. /\ Listed(u) /\ Len(u) = Len(t) + n /\ Len(t) \in Nat
      /\ \A a \in 1..Len(t) : u[a] = t[a]
      /\ \A i \in 1..n : u[Len(t) + i] = x[i]
      /\ \A a \in 1..Len(u) : a \in 1..Len(t) \/ (a - Len(t) \in 1..n /\ u[a] = x[a - Len(t)])
  <2>1. Len(t) \in Nat
    BY DEF Listed
  <2>2. /\ Listed(t \o x) /\ Len(t \o x) = Len(t) + Len(x)
        /\ \A a \in 1..Len(t) : (t \o x)[a] = t[a]
        /\ \A i \in 1..Len(x) : (t \o x)[Len(t) + i] = x[i]
        /\ \A a \in 1..Len(t \o x) :
             \/ a \in 1..Len(t)
             \/ a - Len(t) \in 1..Len(x) /\ (t \o x)[a] = x[a - Len(t)]
    BY <1>5, JoinIs
  <2>3. QED
    BY <1>5, <1>6, <2>1, <2>2
<1>8. \A a \in 1..Len(t) : a \in 1..Len(u) /\ u[a] = t[a]
  BY <1>1, <1>7
<1>9. ASSUME NEW a \in 1..Len(u), a \notin 1..Len(t)
      PROVE  /\ a - Len(t) \in 1..n /\ u[a].k = "text" /\ u[a].id = a
             /\ atoms[a - Len(t)].id = a
  <2>1. a - Len(t) \in 1..n /\ u[a] = x[a - Len(t)] /\ Len(t) + (a - Len(t)) = a
    BY <1>7, <1>9
  <2>2. QED
    BY <1>2, <1>5, <2>1
<1>10. Numbered(u)
  BY <1>7, <1>9 DEF Numbered
<1>11. Extends(t, u)
  BY <1>1, <1>7, <1>8, <1>10 DEF Extends
<1>12. ASSUME NEW i \in 1..n
       PROVE  ToldAtom(atoms[i], u) /\ atoms[i].id > Len(t)
  <2>1. atoms[i].id = Len(t) + i /\ Len(t) + i \in 1..Len(u) /\ Len(t) + i > Len(t)
    BY <1>1, <1>2, <1>7
  <2>2. u[Len(t) + i].k = "text" /\ u[Len(t) + i].id = Len(t) + i
    BY <1>5, <1>7
  <2>3. atoms[i].id \in Nat
    BY <1>7, <2>1
  <2>4. QED
    BY <2>1, <2>2, <2>3 DEF ToldAtom
<1>13. \A i, j \in 1..n : i < j => atoms[i].id < atoms[j].id
  BY <1>1, <1>2, <1>7
<1>14. ASSUME NEW a \in 1..Len(u), a \notin 1..Len(t)
       PROVE  IsPending(atoms, u[a])
  <2> DEFINE i == a - Len(t)
  <2>1. i \in 1..Len(atoms) /\ u[a].k = "text" /\ u[a].id = a /\ atoms[i].id = a
    BY <1>3, <1>9, <1>14
  <2> HIDE DEF i
  <2>2. QED
    BY <2>1 DEF IsPending
<1>15. AtomsTold(t, u, atoms)
  BY <1>3, <1>4, <1>11, <1>12, <1>13, <1>14 DEF AtomsTold
<1>16. QED
  BY <1>7, <1>8, <1>9, <1>15 DEF AddsText

LEMMA TextHandled ==
    ASSUME HandleInv, Text
    PROVE  HandleInv'
<1>0. HandleInv /\ Sound(r, told) /\ ToldInv(told, r.seen) /\ Listed(told) /\ Numbered(told)
  BY DEF HandleInv, Sound, Whole, Inv
<1>1. PICK d \in Deltas :
        LET atoms == [i \in DOMAIN d |-> [id |-> Len(told) + i, brk |-> d[i]]]
        IN /\ Receives
           /\ told' = told \o Pieces(atoms)
           /\ \E o \in RenderText(r, atoms) :
                /\ r' = o.r
                /\ phase' = IF o.res = "ok" THEN phase ELSE "clearing"
           /\ UNCHANGED <<threaded, refresher>>
  BY DEF Text
<1> DEFINE atoms == [i \in DOMAIN d |-> [id |-> Len(told) + i, brk |-> d[i]]]
           u == told \o Pieces(atoms)
<1>2. PICK o \in RenderText(r, atoms) :
        /\ r' = o.r
        /\ phase' = IF o.res = "ok" THEN phase ELSE "clearing"
  BY <1>1
<1>3. /\ phase = "streaming" /\ told' = u /\ threaded' = threaded /\ refresher' = refresher
  BY <1>1 DEF Receives
<1>4. ~r.text.stopped
  BY <1>0, <1>3 DEF HandleInv
<1>a. atoms = AtomsOf(told, d) /\ u = told \o Pieces(atoms)
  BY DEF AtomsOf
<1> HIDE DEF u, atoms
<1>5. Listed(u) /\ AtomsTold(told, u, atoms) /\ AddsText(told, u)
  <2>1. Listed(told) /\ Numbered(told)
    BY <1>0
  <2>2. atoms = AtomsOf(told, d) /\ u = told \o Pieces(atoms)
    BY <1>a
  <2>3. QED
    BY <2>1, <2>2, DeltaTold, Zenon
<1>6. /\ Sound(o.r, u) /\ Later(r, o.r) /\ (o.res = "ok" => ~o.r.text.stopped)
  BY <1>0, <1>2, <1>4, <1>5, RenderTextIs
<1>7. After(r, o.r) /\ o.r.seen = r.seen
  BY <1>6, LaterIsAfter
<1>8. ToldInv(u, r.seen)
  BY <1>0, <1>5 DEF AddsText, ToldInv, IsTold
<1>9. /\ phase' \in Phases /\ (phase' \in {"setup", "streaming"} => ~o.r.text.stopped)
      /\ phase' \notin Closed /\ phase' \notin Late
  BY <1>2, <1>3, <1>6 DEF Phases, Closed, Late
<1>10. QED
  BY <1>0, <1>2, <1>3, <1>6, <1>7, <1>8, <1>9, Handled

LEMMA TaskHandled ==
    ASSUME HandleInv, TaskEvent
    PROVE  HandleInv'
<1>0. HandleInv /\ Sound(r, told) /\ ToldInv(told, r.seen) /\ Listed(told)
  BY DEF HandleInv, Sound, Whole
<1>1. PICK id \in r.ids, st \in Statuses :
        /\ Receives
        /\ told' = IF id \in Tools \ r.seen THEN Append(told, Item("card", id, "-")) ELSE told
        /\ \E o \in Task(r, [id |-> id, status |-> st]) : r' = o.r
        /\ UNCHANGED <<phase, threaded, refresher>>
  BY DEF TaskEvent
<1> DEFINE ev == [id |-> id, status |-> st]
           u == IF id \in Tools \ r.seen THEN Append(told, Item("card", id, "-")) ELSE told
<1>2. PICK o \in Task(r, ev) : r' = o.r
  BY <1>1
<1>3. /\ phase = "streaming" /\ phase' = "streaming" /\ told' = u
      /\ threaded' = threaded /\ refresher' = refresher
  BY <1>1 DEF Receives
<1>4. ~r.text.stopped
  BY <1>0, <1>3 DEF HandleInv
<1>5. ev.id = id /\ id \in Tools \cup Plans
  BY <1>0 DEF HandleInv
<1> HIDE DEF ev
<1>6. /\ id \in Tools => CardTold(told, u, id)
      /\ id \notin Tools => u = told
      /\ id \in r.seen => u = told
  <2>1. id \in r.seen /\ id \in Tools => IsTold(told, id)
    BY <1>0 DEF ToldInv
  <2>2. IsTold(told, id) => id \in r.seen
    BY <1>0 DEF ToldInv, IsTold
  <2>3. QED
    BY <2>1, <2>2 DEF CardTold
<1> DEFINE w == r.seen \cup {id}
<1>7. ToldInv(u, w)
  <2>1. CASE id \in Tools \ r.seen
    <3> DEFINE x == Append(told, Item("card", id, "-"))
    <3>1. /\ Listed(x) /\ Len(x) = Len(told) + 1 /\ Len(told) \in Nat
          /\ \A a \in 1..Len(told) : x[a] = told[a]
          /\ x[Len(told) + 1] = Item("card", id, "-")
      BY <1>0, AppendIs DEF Listed
    <3>2. u = x
      BY <2>1
    <3> HIDE DEF x, u
    <3>3. x[Len(told) + 1].k = "card" /\ x[Len(told) + 1].id = id
      BY <3>1 DEF Item
    <3>4. /\ \A a \in 1..Len(x) : a \in 1..Len(told) \/ a = Len(told) + 1
          /\ \A a \in 1..Len(told) : a \in 1..Len(x)
          /\ Len(told) + 1 \in 1..Len(x)
      BY <3>1
    <3>5. \A z : IsTold(told, z) => IsTold(x, z)
      BY <3>1, <3>4 DEF IsTold
    <3>6. IsTold(x, id)
      BY <3>3, <3>4 DEF IsTold
    <3>7. w = r.seen \cup {id} /\ ToldInv(told, r.seen)
      BY <1>0
    <3>8. ASSUME NEW a \in 1..Len(x), x[a].k = "card"
          PROVE  x[a].id \in w
      <4>1. CASE a \in 1..Len(told)
        BY <3>1, <3>7, <3>8, <4>1 DEF ToldInv
      <4>2. CASE a = Len(told) + 1
        BY <3>3, <3>7, <4>2
      <4>3. QED
        BY <3>4, <4>1, <4>2
    <3>9. ASSUME NEW z \in Tools \cap w
          PROVE  IsTold(x, z)
      <4>1. CASE z \in r.seen
        BY <3>5, <3>7, <4>1 DEF ToldInv
      <4>2. CASE z = id
        BY <3>6, <4>2
      <4>3. QED
        BY <3>7, <4>1, <4>2
    <3>10. QED
      BY <3>2, <3>8, <3>9 DEF ToldInv
  <2>2. CASE id \notin Tools \ r.seen
    BY <1>0, <2>2 DEF ToldInv
  <2>3. QED
    BY <2>1, <2>2
<1>8. id \notin Tools => ToldInv(u, r.seen)
  BY <1>0
<1> HIDE DEF u, w
<1>9. /\ Sound(o.r, u) /\ After(r, o.r) /\ ~o.r.text.stopped
      /\ o.r.seen = r.seen \/ o.r.seen = r.seen \cup {id}
      /\ id \in Tools => o.r.seen = r.seen \cup {id}
  <2>1. /\ ev.id \in Tools \cup Plans /\ (ev.id \in Tools => CardTold(told, u, ev.id))
        /\ (ev.id \notin Tools => u = told) /\ (ev.id \in r.seen => u = told)
        /\ o \in Task(r, ev) /\ Sound(r, told)
    BY <1>0, <1>2, <1>5, <1>6
  <2>2. /\ Sound(o.r, u) /\ After(r, o.r)
        /\ o.r.seen = r.seen \/ o.r.seen = r.seen \cup {ev.id}
        /\ ev.id \in Tools => o.r.seen = r.seen \cup {ev.id}
        /\ ~r.text.stopped => ~o.r.text.stopped
    BY <2>1, TaskIs
  <2>3. QED
    BY <1>4, <1>5, <2>2
<1>10. ToldInv(u, o.r.seen)
  BY <1>7, <1>8, <1>9 DEF w
<1>11. QED
  BY <1>0, <1>2, <1>3, <1>9, <1>10, Handled DEF Phases, Closed, Late

LEMMA AttachmentHandled ==
    ASSUME HandleInv, AttachmentEvent \/ PermissionEvent
    PROVE  HandleInv'
<1>0. HandleInv /\ Sound(r, told)
  BY DEF HandleInv
<1>1. PICK o \in Attachment(r) \cup Interjection(r) : r' = o.r
  BY DEF AttachmentEvent, PermissionEvent
<1>2. /\ phase' = phase /\ phase = "streaming"
      /\ threaded' = threaded /\ refresher' = refresher /\ told' = told
  BY DEF AttachmentEvent, PermissionEvent, Receives
<1>3. Sound(o.r, told) /\ Later(r, o.r) /\ ~o.r.text.stopped
  BY <1>0, AttachmentIs, InterjectionIs
<1>4. QED
  BY <1>0, <1>1, <1>2, <1>3, HandledQuietly DEF Phases, Closed, Late

LEMMA ReturnHandled ==
    ASSUME HandleInv, PromptFails \/ Completes \/ AgentFails
    PROVE  HandleInv'
<1>0. HandleInv /\ Sound(r, told)
  BY DEF HandleInv
<1>1. PICK o \in Fail(r) \cup Finish(r, ~answering.text /\ ~answering.files)
                \cup {Result("err", r)} : r' = o.r
  BY DEF PromptFails, Completes, AgentFails, Returns
<1>2. /\ phase' = "clearing"
      /\ threaded' = threaded /\ refresher' = refresher /\ told' = told
  BY DEF PromptFails, Completes, AgentFails, Returns
<1>3. Sound(o.r, told) /\ Later(r, o.r)
  <2>1. CASE o \in Fail(r)
    BY <1>0, <2>1, FailIs
  <2>2. CASE o \in Finish(r, ~answering.text /\ ~answering.files)
    BY <1>0, <2>2, FinishIs
  <2>3. CASE o = Result("err", r)
    BY <1>0, <2>3, ResultIs, LaterSelf
  <2>4. QED
    BY <2>1, <2>2, <2>3
<1>4. QED
  BY <1>0, <1>1, <1>2, <1>3, HandledQuietly DEF Phases, Closed, Late

LEMMA TimeoutHandled ==
    ASSUME HandleInv, TimesOut
    PROVE  HandleInv'
<1>0. HandleInv /\ Sound(r, told)
  BY DEF HandleInv
<1> DEFINE say == Swallowed(RenderText(r, Note("nl")))
<1>1. PICK o \in Then(say, EnsureStopped) : r' = o.r
  BY DEF TimesOut
<1>2. /\ phase' = "draining"
      /\ threaded' = threaded /\ refresher' = refresher /\ told' = told
  BY DEF TimesOut
<1> HIDE DEF say
<1>3. PICK d \in say : \/ d.res # "ok" /\ o = d
                       \/ d.res = "ok" /\ o \in EnsureStopped(d.r)
  BY <1>1, Zenon DEF Then
<1>4. PICK e \in RenderText(r, Note("nl")) : d.res = "ok" /\ d.r = e.r
  BY <1>3, SwallowedIs DEF say
<1>5. Sound(e.r, told) /\ Later(r, e.r)
  <2>1. Listed(told) /\ AtomsTold(told, told, Note("nl"))
    BY <1>0, NoteIs DEF Sound, Whole, Inv
  <2>2. QED
    BY <1>0, <1>4, <2>1, RenderTextIs
<1>6. Sound(o.r, told) /\ Later(r, o.r)
  BY <1>3, <1>4, <1>5, EnsureStoppedIs, LaterTrans
<1>7. QED
  BY <1>0, <1>1, <1>2, <1>6, HandledQuietly DEF Phases, Closed, Late

LEMMA SettleHandled ==
    ASSUME HandleInv, MarkInterrupted \/ Settle
    PROVE  HandleInv'
<1>0. HandleInv /\ Sound(r, told)
  BY DEF HandleInv
<1>1. CASE MarkInterrupted
  <2>1. r' = r \/ \E o \in Interrupted(r) : r' = o.r
    BY <1>1 DEF MarkInterrupted
  <2>2. /\ phase = "marking" /\ phase' = "settling"
        /\ threaded' = threaded /\ refresher' = refresher /\ told' = told
    BY <1>1 DEF MarkInterrupted
  <2>3. Sound(r', told) /\ Later(r, r')
    BY <1>0, <2>1, InterruptedIs, LaterSelf
  <2>4. QED
    BY <1>0, <2>2, <2>3, HandledQuietly DEF Phases, Closed, Late
<1>2. CASE Settle
  <2>1. PICK o \in EnsureStopped(r) : r' = o.r
    BY <1>2 DEF Settle
  <2>2. /\ phase = "settling" /\ phase' = "recording"
        /\ threaded' = threaded /\ refresher' = refresher /\ told' = told
    BY <1>2 DEF Settle
  <2>3. Sound(o.r, told) /\ Later(r, o.r) /\ o.r.mode = "none"
    BY <1>0, EnsureStoppedIs
  <2>4. QED
    BY <1>0, <2>1, <2>2, <2>3, HandledQuietly DEF Phases, Closed, Late
<1>3. QED
  BY <1>1, <1>2

\* The steps that leave the record alone.
LEMMA MoveHandled ==
    ASSUME HandleInv, PromptSent \/ StreamDrained \/ RecordOutcome \/ UNCHANGED replyVars
    PROVE  HandleInv'
<1>0. HandleInv /\ Sound(r, told) /\ Later(r, r)
  BY LaterSelf DEF HandleInv
<1>1. r' = r /\ threaded' = threaded /\ refresher' = refresher /\ told' = told
  BY DEF PromptSent, StreamDrained, RecordOutcome, replyVars
<1>2. /\ phase' \in Phases
      /\ phase' \in {"setup", "streaming"} => phase \in {"setup", "streaming"}
      /\ phase' \in Closed => phase \in Closed
      /\ phase' \in Late => phase \in Late
  BY <1>0 DEF PromptSent, StreamDrained, RecordOutcome, replyVars, AboutToPrompt,
              Phases, Closed, Late, HandleInv
<1>3. /\ phase' \in {"setup", "streaming"} => ~r.text.stopped
      /\ phase' \in Closed => r.mode = "none"
  BY <1>0, <1>2 DEF HandleInv
<1>4. QED
  BY <1>0, <1>1, <1>2, <1>3, HandledQuietly

\* The fields of the record that the handler itself sets.
LEMMA MarkedIs ==
    ASSUME NEW q, NEW t, Sound(q, t), NEW p, DOMAIN p = Fields,
           \A x \in Fields : x \in {"thinking", "fresh", "cancelled"} \/ p[x] = q[x],
           Calm(p) => Calm(q)
    PROVE  /\ Sound(p, t) /\ p.text = q.text /\ p.mode = q.mode /\ p.seen = q.seen
           /\ p.ids = q.ids /\ p.refused = q.refused
<1>1. Inv(q, t, q.block.running) /\ Running(q, t) /\ Listed(t) /\ DOMAIN q.block = BlockFields
  BY DEF Sound, Whole, Inv, Shaped
<1>2. /\ p.shown = q.shown /\ p.painted = q.painted /\ p.tasks = q.tasks /\ p.plan = q.plan
      /\ p.mode = q.mode /\ p.hasText = q.hasText /\ p.text = q.text /\ p.hasBlock = q.hasBlock
      /\ p.block = q.block /\ p.seen = q.seen /\ p.ids = q.ids /\ p.refused = q.refused
  BY DEF Fields
<1>3. Alike(q, p)
  BY <1>1, <1>2 DEF Alike
<1>4. Inv(p, t, p.block.running)
  BY <1>1, <1>2, <1>3, AlikeInv
<1>5. Running(p, t) /\ Idle(p)
  BY <1>1, <1>2, RunningFrame DEF Sound, Idle
<1>6. QED
  BY <1>1, <1>2, <1>4, <1>5 DEF Sound, Whole

LEMMA CancelHandled ==
    ASSUME HandleInv, Cancel
    PROVE  HandleInv'
<1>0. HandleInv /\ Sound(r, told) /\ DOMAIN r = Fields
  BY DEF HandleInv, Sound, Whole, Inv, Shaped
<1> DEFINE p == [r EXCEPT !.cancelled = TRUE]
<1>1. r' = p
  BY DEF Cancel
<1>2. /\ phase' = phase /\ threaded' = threaded /\ refresher' = refresher /\ told' = told
  BY DEF Cancel
<1>3. /\ DOMAIN p = Fields /\ ~Calm(p) /\ Later(r, p)
      /\ \A x \in Fields : x \in {"thinking", "fresh", "cancelled"} \/ p[x] = r[x]
  BY <1>0 DEF Fields, Calm, Later
<1> HIDE DEF p
<1>4. Sound(p, told) /\ p.text = r.text /\ p.mode = r.mode
  BY <1>0, <1>3, MarkedIs
<1>5. /\ phase \in Phases /\ (phase \in {"setup", "streaming"} => ~p.text.stopped)
      /\ (phase \in Closed => p.mode = "none")
  BY <1>0, <1>4 DEF HandleInv
<1>6. QED
  BY <1>0, <1>1, <1>2, <1>3, <1>4, <1>5, HandledQuietly

\* Nothing but what says that the turn was disturbed.
LEMMA AlikeSound ==
    ASSUME NEW q, NEW t, Sound(q, t), NEW p, Alike(q, p), Frame(q, p), Inv(p, t, q.block.running)
    PROVE  /\ Sound(p, t) /\ p.text = q.text /\ p.mode = q.mode /\ DOMAIN p = Fields
           /\ p.ids = q.ids /\ p.seen = q.seen
<1>1. /\ p.text = q.text /\ p.mode = q.mode /\ DOMAIN p = Fields /\ Later(q, p)
      /\ p.block.running = q.block.running /\ p.tasks = q.tasks
  BY DEF Alike, Frame, SameSections
<1>2. Inv(p, t, p.block.running)
  BY <1>1
<1>3. Running(p, t) /\ Idle(p)
  BY <1>1, RunningFrame, LaterCalm DEF Sound, Whole, Idle
<1>4. QED
  BY <1>1, <1>2, <1>3 DEF Sound, Whole, Later

\* A call about the indicator: served, refused, or its answer is lost.
LEMMA CalledIs ==
    ASSUME NEW q, NEW t, Sound(q, t), NEW g, DOMAIN g = Fields,
           \A x \in Fields : x = "thinking" \/ g[x] = q[x], NEW o, o \in Serve(q) \cup Lost(q, g)
    PROVE  /\ Sound(o.r, t) /\ o.r.text = q.text /\ o.r.mode = q.mode /\ DOMAIN o.r = Fields
           /\ o.r.ids = q.ids /\ o.r.seen = q.seen
           /\ o.res = "ok" \/ o.r.refused \/ ~q.fresh
<1>1. Inv(q, t, q.block.running) /\ DOMAIN q = Fields /\ DOMAIN q.block = BlockFields
  BY DEF Sound, Whole, Inv, Shaped
<1>2. CASE o \in Serve(q)
  <2>1. Fine(q, o, t, q.block.running) /\ Alike(q, o.r) /\ Frame(q, o.r)
    BY <1>1, <1>2, ServeIs, ServeFrames
  <2>2. \/ o = Result("ok", q) \/ ~q.fresh
        \/ o = Result("err", [q EXCEPT !.faults = @ - 1, !.refused = TRUE])
    BY <1>2, Zenon DEF Serve, Ok
  <2>3. o.res = "ok" \/ o.r.refused \/ ~q.fresh
    <3>1. CASE o = Result("ok", q)
      BY <3>1, ResultIs
    <3>2. CASE o = Result("err", [q EXCEPT !.faults = @ - 1, !.refused = TRUE])
      <4>1. o.r = [q EXCEPT !.faults = @ - 1, !.refused = TRUE]
        BY <3>2, ResultIs
      <4>2. QED
        BY <1>1, <4>1 DEF Fields
    <3>3. QED
      BY <2>2, <3>1, <3>2
  <2>4. QED
    BY <2>1, <2>3, AlikeSound DEF Fine
<1>3. CASE o \in Lost(q, g)
  <2>1. /\ Sound(g, t) /\ g.text = q.text /\ g.mode = q.mode /\ g.seen = q.seen
        /\ g.ids = q.ids /\ g.block = q.block
    <3>1. \A x \in Fields : x \in {"thinking", "fresh", "cancelled"} \/ g[x] = q[x]
      OBVIOUS
    <3>2. (Calm(g) => Calm(q)) /\ g.block = q.block
      BY DEF Calm, Fields
    <3>3. QED
      BY <3>1, <3>2, MarkedIs
  <2>2. /\ o.res = "err" /\ ~Calm(o.r) /\ Frame(g, o.r) /\ o.r.shown = g.shown
        /\ o.r.painted = g.painted /\ o.r.text = g.text /\ o.r.block = g.block
        /\ o.r.refused \/ ~q.fresh
    BY <1>3, LostIs
  <2>3. Alike(g, o.r)
    BY <1>1, <2>1, <2>2 DEF Alike, Frame, SameSections
  <2>4. Inv(g, t, g.block.running)
    BY <2>1 DEF Sound, Whole
  <2>5. Inv(o.r, t, g.block.running)
    BY <2>2, <2>3, <2>4, AlikeInv
  <2>6. QED
    BY <2>1, <2>2, <2>3, <2>5, AlikeSound
<1>4. QED
  BY <1>2, <1>3

LEMMA StatusHandled ==
    ASSUME HandleInv, SetStatus
    PROVE  HandleInv'
<1>0. HandleInv /\ Sound(r, told) /\ DOMAIN r = Fields
  BY DEF HandleInv, Sound, Whole, Inv, Shaped
<1> DEFINE g == [r EXCEPT !.thinking = TRUE]
<1>1. PICK o \in Serve(r) \cup Lost(r, g) : r' = [o.r EXCEPT !.thinking = @ \/ o.res = "ok"]
  BY DEF SetStatus
<1>2. /\ phase = "setup" /\ threaded /\ refresher' = "waiting"
      /\ phase' = phase /\ threaded' = threaded /\ told' = told
  BY DEF SetStatus
<1>3. DOMAIN g = Fields /\ \A x \in Fields : x = "thinking" \/ g[x] = r[x]
  BY <1>0 DEF Fields
<1> HIDE DEF g
<1>4. Sound(o.r, told) /\ o.r.text = r.text /\ o.r.mode = r.mode /\ DOMAIN o.r = Fields
      /\ o.r.ids = r.ids /\ o.r.seen = r.seen
  BY <1>0, <1>1, <1>3, CalledIs
<1> DEFINE p == [o.r EXCEPT !.thinking = @ \/ o.res = "ok"]
<1>5. /\ DOMAIN p = Fields /\ (Calm(p) => Calm(o.r))
      /\ \A x \in Fields : x \in {"thinking", "fresh", "cancelled"} \/ p[x] = (o.r)[x]
  BY <1>4 DEF Fields, Calm
<1>6. r' = p
  BY <1>1
<1> HIDE DEF p
<1>7. Sound(p, told) /\ p.text = r.text /\ p.mode = r.mode /\ p.seen = r.seen /\ p.ids = r.ids
  BY <1>4, <1>5, MarkedIs
<1>8. QED
  BY <1>0, <1>2, <1>6, <1>7 DEF HandleInv, Late, Closed

LEMMA RefreshHandled ==
    ASSUME HandleInv, RefreshTick \/ Refreshed \/ RefresherStops
    PROVE  HandleInv'
<1>0. HandleInv /\ Sound(r, told) /\ DOMAIN r = Fields
  BY DEF HandleInv, Sound, Whole, Inv, Shaped
<1>1. /\ phase' = phase /\ threaded' = threaded /\ told' = told
      /\ refresher \in {"waiting", "calling"}
  BY DEF RefreshTick, Refreshed, RefresherStops
<1>2. threaded /\ phase \notin Late
  BY <1>0, <1>1 DEF HandleInv
<1>3. r' = r \/ \E lands \in BOOLEAN : r' = [r EXCEPT !.thinking = @ \/ lands]
  BY DEF RefreshTick, Refreshed, RefresherStops
<1>4. /\ Sound(r', told) /\ r'.text = r.text /\ r'.mode = r.mode /\ r'.seen = r.seen
      /\ r'.ids = r.ids
  <2>1. CASE r' = r
    BY <1>0, <2>1
  <2>2. CASE \E lands \in BOOLEAN : r' = [r EXCEPT !.thinking = @ \/ lands]
    <3>1. PICK lands \in BOOLEAN : r' = [r EXCEPT !.thinking = @ \/ lands]
      BY <2>2
    <3> DEFINE p == [r EXCEPT !.thinking = @ \/ lands]
    <3>2. /\ DOMAIN p = Fields /\ (Calm(p) => Calm(r))
          /\ \A x \in Fields : x \in {"thinking", "fresh", "cancelled"} \/ p[x] = r[x]
      BY <1>0 DEF Fields, Calm
    <3>3. r' = p
      BY <3>1
    <3> HIDE DEF p
    <3>4. Sound(p, told) /\ p.text = r.text /\ p.mode = r.mode /\ p.seen = r.seen /\ p.ids = r.ids
      BY <1>0, <3>2, MarkedIs
    <3>5. QED
      BY <3>3, <3>4
  <2>3. QED
    BY <1>3, <2>1, <2>2
<1>5. QED
  BY <1>0, <1>1, <1>2, <1>4 DEF HandleInv, Late, Closed

\* The indicator is cleared, or Slack refused the call: a fresh context is not cancelled.
LEMMA ClearHandled ==
    ASSUME HandleInv, ClearStatus
    PROVE  HandleInv'
<1>0. HandleInv /\ Sound(r, told) /\ DOMAIN r = Fields
  BY DEF HandleInv, Sound, Whole, Inv, Shaped
<1>1. /\ phase' = "marking" /\ threaded' = threaded /\ told' = told /\ refresher' = refresher
      /\ refresher \in {"off", "stopped"}
  BY <1>0 DEF ClearStatus, RefresherDone, HandleInv
<1> DEFINE f == [r EXCEPT !.fresh = TRUE]
<1>2. /\ DOMAIN f = Fields /\ (Calm(f) => Calm(r)) /\ f.thinking = r.thinking /\ f.fresh
      /\ \A x \in Fields : x \in {"thinking", "fresh", "cancelled"} \/ f[x] = r[x]
  BY <1>0 DEF Fields, Calm
<1>3. CASE ~threaded
  <2>1. r' = f
    BY <1>3 DEF ClearStatus
  <2> HIDE DEF f
  <2>2. Sound(f, told) /\ f.seen = r.seen /\ f.ids = r.ids
    BY <1>0, <1>2, MarkedIs
  <2>3. ~f.thinking
    BY <1>0, <1>2, <1>3 DEF HandleInv
  <2>4. QED
    BY <1>0, <1>1, <2>1, <2>2, <2>3 DEF HandleInv, Late, Closed, Phases
<1>4. CASE threaded
  <2> DEFINE g == [f EXCEPT !.thinking = FALSE]
  <2>1. PICK o \in Serve(f) \cup Lost(f, g) : r' = [o.r EXCEPT !.thinking = @ /\ o.res # "ok"]
    BY <1>4 DEF ClearStatus
  <2> HIDE DEF f
  <2>2. Sound(f, told) /\ f.seen = r.seen /\ f.ids = r.ids
    BY <1>0, <1>2, MarkedIs
  <2>3. DOMAIN g = Fields /\ \A x \in Fields : x = "thinking" \/ g[x] = f[x]
    BY <1>2 DEF Fields
  <2> HIDE DEF g
  <2>5. /\ Sound(o.r, told) /\ DOMAIN o.r = Fields /\ o.r.ids = r.ids /\ o.r.seen = r.seen
        /\ o.res = "ok" \/ (o.r).refused
    BY <1>2, <2>1, <2>2, <2>3, CalledIs
  <2> DEFINE p == [o.r EXCEPT !.thinking = @ /\ o.res # "ok"]
  <2>6. /\ DOMAIN p = Fields /\ (Calm(p) => Calm(o.r)) /\ (o.res = "ok" => ~p.thinking)
        /\ \A x \in Fields : x \in {"thinking", "fresh", "cancelled"} \/ p[x] = (o.r)[x]
    BY <2>5 DEF Fields, Calm
  <2>7. r' = p
    BY <2>1
  <2> HIDE DEF p
  <2>8. Sound(p, told) /\ p.seen = r.seen /\ p.ids = r.ids /\ p.refused = (o.r).refused
    BY <2>5, <2>6, MarkedIs
  <2>10. p.refused \/ ~p.thinking
    BY <2>5, <2>6, <2>8
  <2>11. QED
    BY <1>0, <1>1, <1>4, <2>7, <2>8, <2>10 DEF HandleInv, Late, Closed, Phases
<1>5. QED
  BY <1>3, <1>4

LEMMA NextHandled == HandleInv /\ [ReplyNext]_replyVars => HandleInv'
<1> SUFFICES ASSUME HandleInv, [ReplyNext]_replyVars PROVE HandleInv'
  OBVIOUS
<1>1. CASE Cancel
  BY <1>1, CancelHandled
<1>2. CASE SetStatus
  BY <1>2, StatusHandled
<1>3. CASE PromptSent \/ StreamDrained \/ RecordOutcome \/ UNCHANGED replyVars
  BY <1>3, MoveHandled
<1>4. CASE PromptFails \/ Completes \/ AgentFails
  BY <1>4, ReturnHandled
<1>5. CASE Text
  BY <1>5, TextHandled
<1>6. CASE TaskEvent
  BY <1>6, TaskHandled
<1>7. CASE AttachmentEvent \/ PermissionEvent
  BY <1>7, AttachmentHandled
<1>8. CASE TimesOut
  BY <1>8, TimeoutHandled
<1>9. CASE RefreshTick \/ Refreshed \/ RefresherStops
  BY <1>9, RefreshHandled
<1>10. CASE ClearStatus
  BY <1>10, ClearHandled
<1>11. CASE MarkInterrupted \/ Settle
  BY <1>11, SettleHandled
<1>12. QED
  BY <1>1, <1>2, <1>3, <1>4, <1>5, <1>6, <1>7, <1>8, <1>9, <1>10, <1>11 DEF ReplyNext, Returned

-----------------------------------------------------------------------------
(* What the invariant says of the screen.                                  *)

\* The messages items are on grow downwards.
LEMMA AboveIs ==
    ASSUME HandleInv, NEW i \in DOMAIN r.painted, NEW j \in DOMAIN r.painted
    PROVE  Above(i, j) <=> i < j
<1>1. /\ DOMAIN r.painted = 1..Len(r.painted) /\ Len(r.painted) \in Nat /\ Len(r.shown) \in Nat
      /\ \A a \in 1..Len(r.painted) : r.painted[a].msg \in 1..Len(r.shown)
      /\ \A a, b \in 1..Len(r.painted) : a < b => r.painted[a].msg <= r.painted[b].msg
  BY ListedIs DEF HandleInv, Sound, Whole, Inv, Shaped, Placed
<1>2. r.painted[i].msg \in Nat /\ r.painted[j].msg \in Nat /\ i \in Nat /\ j \in Nat
  BY <1>1
<1>3. /\ i < j => r.painted[i].msg <= r.painted[j].msg
      /\ j < i => r.painted[j].msg <= r.painted[i].msg
      /\ i = j => r.painted[j].msg = r.painted[i].msg
  BY <1>1
<1>4. QED
  BY <1>2, <1>3 DEF Above

\* The reply reads in the order it was told.
LEMMA InvInOrder == HandleInv => TextInOrder
<1> SUFFICES ASSUME HandleInv, NEW i \in DOMAIN r.painted, NEW j \in DOMAIN r.painted,
                    IsReply(i), IsReply(j), Above(i, j)
             PROVE  r.painted[i].item.id < r.painted[j].item.id
  BY DEF TextInOrder
<1>1. InOrder(r.painted, r.text.pending, told) /\ DOMAIN r.painted = 1..Len(r.painted)
  BY ListedIs DEF HandleInv, Sound, Whole, Inv, Shaped
<1>2. i < j
  BY AboveIs
<1>3. IsText(r.painted, i) /\ IsText(r.painted, j)
  BY DEF IsReply, IsText
<1>4. QED
  BY <1>1, <1>2, <1>3 DEF InOrder

\* What is left when Handle has returned: no section is open, nothing is buffered.
LEMMA ReturnedIs ==
    ASSUME HandleInv, phase = "returned", Undisturbed
    PROVE  /\ r.text.pending = <<>> /\ r.text.msg = 0 /\ r.block.writer.msg = 0
           /\ r.block.line = 0
           /\ Delivered(r.tasks, r.painted, <<>>, told) /\ SpinsOnly(r.painted, {}) /\ Streams(r)
<1>1. r.mode = "none" /\ Inv(r, told, r.block.running) /\ Calm(r)
  BY DEF HandleInv, Sound, Whole, Closed, Undisturbed, Calm
<1>2. r.text = NoWriter /\ r.block = NoBlock
  BY <1>1 DEF Inv, Sections
<1>3. /\ r.text.pending = <<>> /\ r.text.msg = 0 /\ r.block.writer.msg = 0
      /\ r.block.line = 0 /\ r.block.running = {}
  BY <1>2 DEF NoWriter, NoBlock
<1>4. QED
  BY <1>1, <1>3 DEF Inv

\* The thread shows all that was told, nothing else, and in order.
LEMMA InvComplete == HandleInv => ReplyComplete
<1> SUFFICES ASSUME HandleInv, phase = "returned", Undisturbed
             PROVE  /\ \A a \in Due : \E i \in DOMAIN r.painted : Shows(i, told[a])
                    /\ \A i \in DOMAIN r.painted :
                          IsReply(i) \/ IsTool(i) => \E a \in Due : Shows(i, told[a])
                    /\ \A a, b \in Due, j \in DOMAIN r.painted :
                          a < b /\ Shows(j, told[b])
                              => \E i \in DOMAIN r.painted : Above(i, j) /\ Shows(i, told[a])
  BY DEF ReplyComplete
<1>1. /\ Delivered(r.tasks, r.painted, <<>>, told) /\ InOrder(r.painted, r.text.pending, told)
      /\ DOMAIN r.painted = 1..Len(r.painted) /\ DOMAIN told = 1..Len(told)
  BY ReturnedIs, ListedIs DEF HandleInv, Sound, Whole, Inv, Shaped
<1>2. \A it : ~IsPending(<<>>, it)
  BY OneIs DEF IsPending
<1>3. /\ \A a \in 1..Len(told) : a \in Due <=> IsDue(r.tasks, told, a)
      /\ Due \subseteq 1..Len(told)
  BY <1>1 DEF Due, IsDue
<1>4. \A i \in 1..Len(r.painted) : \A it : Shows(i, it) <=> ShowsItem(r.painted, i, it)
  BY DEF Shows, ShowsItem
<1>5. \A a \in Due : \E i \in DOMAIN r.painted : Shows(i, told[a])
  BY <1>1, <1>2, <1>3, <1>4 DEF Delivered
<1>6. ASSUME NEW i \in DOMAIN r.painted, IsReply(i)
      PROVE  \E a \in Due : Shows(i, told[a])
  <2>1. ToldAtom(r.painted[i].item, told)
    BY <1>1, <1>6 DEF InOrder, IsReply
  <2> DEFINE a == r.painted[i].item.id
  <2>2. a \in 1..Len(told) /\ told[a].k = "text" /\ told[a].id = a
    BY <1>6, <2>1 DEF ToldAtom, IsReply
  <2>3. Shows(i, told[a])
    BY <1>6, <2>2 DEF Shows, IsReply
  <2>4. a \in Due
    BY <1>3, <2>2 DEF IsDue
  <2>5. QED
    BY <2>3, <2>4
<1>7. ASSUME NEW i \in DOMAIN r.painted, IsTool(i)
      PROVE  \E a \in Due : Shows(i, told[a])
  <2>1. r.tasks /\ \E a \in 1..Len(told) : ShowsItem(r.painted, i, told[a])
    BY <1>1, <1>7 DEF Delivered, IsTool
  <2>2. QED
    BY <1>1, <1>3, <1>4, <2>1 DEF IsDue
<1>8. ASSUME NEW a \in Due, NEW b \in Due, NEW j \in DOMAIN r.painted, a < b, Shows(j, told[b])
      PROVE  \E i \in DOMAIN r.painted : Above(i, j) /\ Shows(i, told[a])
  <2>1. PICK i \in 1..Len(r.painted) : i < j /\ ShowsItem(r.painted, i, told[a])
    BY <1>1, <1>3, <1>4, <1>8 DEF Delivered
  <2>2. Above(i, j) /\ Shows(i, told[a])
    BY <1>1, <1>4, <2>1, AboveIs
  <2>3. QED
    BY <1>1, <2>1, <2>2
<1>9. QED
  BY <1>5, <1>6, <1>7, <1>8

\* No message streams and no card spins.
LEMMA InvSettled == HandleInv => SettledAtEnd
<1> SUFFICES ASSUME HandleInv, phase = "returned", Undisturbed
             PROVE  AllSettled
  BY DEF SettledAtEnd
<1>1. /\ r.text.msg = 0 /\ r.block.writer.msg = 0 /\ r.block.line = 0
      /\ SpinsOnly(r.painted, {}) /\ Streams(r)
      /\ DOMAIN r.painted = 1..Len(r.painted)
  BY ReturnedIs, ListedIs DEF HandleInv, Sound, Whole, Inv, Shaped
<1>2. r.shown \in Seq(Messages) /\ DOMAIN r.shown = 1..Len(r.shown)
  BY DEF HandleInv, Sound, Whole, Inv, Shaped
<1>3. \A n \in DOMAIN r.shown : ~r.shown[n].open
  BY <1>1, <1>2 DEF Streams
<1>4. ASSUME NEW i \in DOMAIN r.painted, IsCard(i)
      PROVE  \/ r.painted[i].item.st \in {"complete", "error"}
             \/ \E j \in DOMAIN r.painted : Above(i, j) /\ Shows(j, r.painted[i].item)
  <2>1. \/ r.painted[i].item.st \in {"complete", "error"}
        \/ \E j \in 1..Len(r.painted) : i < j /\ ShowsItem(r.painted, j, r.painted[i].item)
    BY <1>1, <1>4 DEF SpinsOnly, IsCard
  <2>2. ASSUME NEW j \in 1..Len(r.painted), i < j, ShowsItem(r.painted, j, r.painted[i].item)
        PROVE  j \in DOMAIN r.painted /\ Above(i, j) /\ Shows(j, r.painted[i].item)
    BY <1>1, <2>2, AboveIs DEF ShowsItem, Shows
  <2>3. QED
    BY <2>1, <2>2
<1>5. QED
  BY <1>3, <1>4 DEF AllSettled

\* No question and no file is below a reply that streams.
LEMMA InvPlaced == HandleInv => PlacedBelowSettled
<1> SUFFICES ASSUME HandleInv, NEW n \in DOMAIN r.shown, r.shown[n].kind \in {"ask", "file"},
                    Undisturbed, NEW k \in 1..(n - 1), r.shown[k].kind = "text", r.shown[k].open
             PROVE  FALSE
  BY DEF PlacedBelowSettled
<1>1. Inv(r, told, r.block.running) /\ Calm(r)
  BY DEF HandleInv, Sound, Whole, Undisturbed, Calm
<1>2. Streams(r) /\ Placed(r) /\ r.shown \in Seq(Messages)
  BY <1>1 DEF Inv, Shaped
<1>3. n \in 1..Len(r.shown) /\ Len(r.shown) \in Nat
  BY <1>2
<1>4. k \in 1..Len(r.shown) /\ k # Len(r.shown) /\ k # 0
  BY <1>3
<1>5. k = r.text.msg \/ k = r.block.writer.msg \/ k = r.block.line
  BY <1>2, <1>4 DEF Streams
<1>6. QED
  BY <1>2, <1>4, <1>5 DEF Placed

\* The indicator is off, unless Slack refused the call.
LEMMA InvCleared == HandleInv => StatusCleared
  BY DEF HandleInv, StatusCleared, Late

\* What Slack has confirmed of a reply is in order and never twice, whatever is buffered,
\* refused, finalized, rolled over or cancelled; when Handle has returned from a turn
\* nobody cancelled and in which no call failed, the thread shows all of the reply and
\* nothing else, settled, and no question or file is below a message that streams; the
\* indicator is off unless a call failed (chat_handler.go, chat_renderer.go,
\* stream_writer.go), for every reply and every number of events.
THEOREM ReplyHolds == ReplySpec => []ReplyOnScreen
<1>1. ReplyInit => HandleInv
  BY StartsHandled
<1>2. HandleInv /\ [ReplyNext]_replyVars => HandleInv'
  BY NextHandled
<1>3. HandleInv => ReplyOnScreen
  BY InvInOrder, InvComplete, InvSettled, InvPlaced, InvCleared DEF ReplyOnScreen
<1>4. QED
  BY <1>1, <1>2, <1>3, PTL DEF ReplySpec

-----------------------------------------------------------------------------
=============================================================================
