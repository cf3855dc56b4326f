----------------------------- MODULE Chat_proofs -----------------------------
(***************************************************************************)
(* What the statements of chats keep between them: a block that holds, a   *)
(* preview that does not outlive its message, pages that miss nothing and  *)
(* a broadcast that counts its buyers.                                     *)
(***************************************************************************)
EXTENDS Chat, FiniteSetTheorems, SequenceTheorems, WellFoundedInduction, TLAPS

\* The types, by what they are about.
SessionType ==
    /\ at \in [Sessions -> Steps]
    /\ kind \in [Sessions -> {"none", "open", "send", "cast", "recall", "read"}]
    /\ who \in [Sessions -> Users] /\ peer \in [Sessions -> Users]
    /\ mine \in [Sessions -> 0 .. MaxMessages]
    /\ barred \in [Sessions -> SUBSET Users]
CastType ==
    /\ todo \in [Sessions -> SUBSET Users] /\ broken \in [Sessions -> BOOLEAN]
    /\ counted \in [Sessions -> SUBSET Users] /\ reached \in [Sessions -> SUBSET Users]
    /\ failed \in [Sessions -> SUBSET Users]
PageType ==
    /\ cursor \in [Sessions -> 0 .. MaxMessages + 1]
    /\ got \in [Sessions -> Seq(SUBSET Ids)] /\ due \in [Sessions -> SUBSET Ids]
MsgsType == msgs \in Seq(Message) /\ Len(msgs) <= MaxMessages
StoreType ==
    /\ mix \in Mixes /\ clock \in 0 .. MaxSeconds /\ open \subseteq Chats
    /\ text \in [Chats -> Ids \cup {NoText, RecallText}]
    /\ time \in [Chats -> -1 .. MaxSeconds]
    /\ blocks \subseteq Users \X Users
    /\ blocked \in Nat /\ late \subseteq Ids /\ overran \in BOOLEAN /\ stopped \in Nat

\* The steps of every request.
PhaseInv ==
    \A s \in Sessions :
        /\ at[s] = "idle" <=> kind[s] = "none"
        /\ kind[s] = "open" => at[s] \in {"check", "find", "create"}
        /\ kind[s] = "send" => at[s] \in {"check", "insert", "bind", "preview"}
        /\ kind[s] = "cast" => /\ who[s] = Publisher
                               /\ at[s] \in {"next", "find", "create", "insert", "bind", "preview",
                                             "report"}
        /\ kind[s] = "recall" => at[s] \in {"withdraw", "look", "cover"}
        /\ kind[s] = "read" => at[s] \in {"page", "paged"}

\* A request is about a chat, and a message is by one of its two users.
Paired == \A s \in Sessions : at[s] \notin {"idle", "next", "report"} => ChatOf(s) \in Chats
PairInv == Paired /\ \A m \in DOMAIN msgs : msgs[m].by \in msgs[m].chat

\* An ended request has forgotten everything.
ForgottenInv ==
    \A s \in Sessions : at[s] = "idle" =>
        /\ todo[s] = {} /\ broken[s] = FALSE
        /\ counted[s] = {} /\ reached[s] = {} /\ failed[s] = {}
        /\ got[s] = <<>> /\ due[s] = {}

\* The message a request has written or withdraws.
MineInv ==
    \A s \in Sessions :
        /\ at[s] \in {"bind", "preview", "withdraw", "look", "cover"} =>
              mine[s] \in DOMAIN msgs /\ msgs[mine[s]].chat = ChatOf(s)
        /\ at[s] \in {"look", "cover"} => msgs[mine[s]].recalled

\* Those who block when a message is sent have done so since it was asked for.
BarredInv ==
    \A s \in Sessions : kind[s] = "send" =>
        /\ barred[s] \subseteq {who[s], peer[s]}
        /\ peer[s] \in barred[s] => <<peer[s], who[s]>> \in blocks
        /\ at[s] # "check" => peer[s] \notin barred[s]

\* Every buyer is still to come, the present one, or reached or failed.
CastInv ==
    \A s \in Sessions : kind[s] = "cast" =>
        /\ at[s] = "next" =>
              /\ counted[s] = reached[s] \ failed[s] /\ todo[s] \subseteq Buyers
              /\ ~broken[s] => reached[s] \cup failed[s] = Buyers \ todo[s]
        /\ at[s] \in {"find", "create", "insert"} =>
              /\ counted[s] = reached[s] \ failed[s] /\ ~broken[s]
              /\ peer[s] \notin todo[s] \cup reached[s] \cup failed[s]
              /\ todo[s] \subseteq Buyers
              /\ reached[s] \cup failed[s] \cup {peer[s]} = Buyers \ todo[s]
        /\ at[s] \in {"bind", "preview"} =>
              /\ ~broken[s] /\ peer[s] \in reached[s] \ failed[s]
              /\ counted[s] = (reached[s] \ failed[s]) \ {peer[s]}
              /\ todo[s] \subseteq Buyers
              /\ reached[s] \cup failed[s] = Buyers \ todo[s]
        /\ at[s] = "report" =>
              /\ counted[s] = reached[s] \ failed[s]
              /\ ~broken[s] => reached[s] \cup failed[s] = Buyers

\* What a reader was to get is below his cursor or has been got.
Got(s) == UNION {got[s][i] : i \in DOMAIN got[s]}
Following(s) ==
    /\ due[s] \subseteq DOMAIN msgs
    /\ \A m \in due[s] \cap Visible(who[s], ChatOf(s)) :
          m \in Got(s) \/ (at[s] = "page" /\ m < cursor[s])
    /\ at[s] = "page" => \A m \in Got(s) : cursor[s] <= m
    /\ \A i, j \in DOMAIN got[s] : i # j => got[s][i] \cap got[s][j] = {}
PageInv == \A s \in Sessions : kind[s] = "read" => Following(s)

\* A preview of its message's second is of a recalled one only while the recall has
\* still to cover it.
Recalling(s, m) == kind[s] = "recall" /\ mine[s] = m /\ at[s] \in {"look", "cover"}
Showing(c) ==
    /\ text[c] \in Ids =>
          /\ text[c] \in DOMAIN msgs /\ msgs[text[c]].chat = c
          /\ text[c] \notin late /\ msgs[text[c]].second = time[c] /\ msgs[text[c]].recalled =>
                \E s \in Sessions : Recalling(s, text[c])
    /\ text[c] = RecallText /\ ~overran =>
          \E m \in DOMAIN msgs : msgs[m].chat = c /\ msgs[m].recalled /\ msgs[m].second = time[c]
PreviewInv == \A c \in Chats : Showing(c)

IInv == /\ TypeOK /\ PhaseInv /\ PairInv /\ ForgottenInv /\ MineInv
        /\ BarredInv /\ BlockHolds /\ CastInv /\ PageInv /\ PreviewInv

-----------------------------------------------------------------------------
(* Numbers, and the messages of a page *)

LEMMA Least ==
  ASSUME NEW S, S \subseteq Nat, S # {}
  PROVE  \E x \in S : \A y \in S : x <= y
  <1> DEFINE R == OpToRel(<, Nat)
  <1>1. PICK x \in S : \A y \in S : ~(<<y, x>> \in R)
    BY NatLessThanWellFounded, WFMin
  <1>2. \A y \in S : ~(y < x)
    BY <1>1 DEF OpToRel
  <1> QED
    BY <1>2

LEMMA Greatest ==
  ASSUME NEW n \in Nat, NEW S, S \subseteq 0 .. n, S # {}
  PROVE  \E x \in S : \A y \in S : y <= x
  <1> DEFINE D == {n - x : x \in S}
  <1>0. \A x \in S : x \in Nat /\ n - x \in Nat
    <2> SUFFICES ASSUME NEW x \in S
                 PROVE  x \in Nat /\ n - x \in Nat
      OBVIOUS
    <2>1. x \in 0 .. n
      OBVIOUS
    <2> QED
      BY <2>1
  <1>1. D \subseteq Nat /\ D # {}
    BY <1>0
  <1>2. PICK z \in D : \A y \in D : z <= y
    BY <1>1, Least
  <1>3. PICK x \in S : z = n - x
    BY <1>2
  <1>4. \A y \in S : n - x <= n - y
    BY <1>2, <1>3
  <1> QED
    BY <1>0, <1>4

\* A page is not empty when there is something to read, holds all that is newer than
\* its oldest message, and everything when there is no more than a page.
LEMMA PageOf ==
  ASSUME NEW S \in SUBSET Ids
  PROVE  /\ Newest(PageSize, S) \subseteq S
         /\ Cardinality(S) <= PageSize => Newest(PageSize, S) = S
         /\ Cardinality(S) > PageSize =>
               /\ Min(Newest(PageSize, S)) \in Newest(PageSize, S)
               /\ \A m \in S : m \in Newest(PageSize, S) <=> Min(Newest(PageSize, S)) <= m
  <1> DEFINE N == Newest(PageSize, S)
             Above(m) == {x \in S : x > m}
  <1>0. PageSize \in Nat \ {0} /\ MaxMessages \in Nat
    BY BoundsAssumption
  <1>1. S \subseteq 0 .. MaxMessages /\ IsFiniteSet(S) /\ \A x \in S : x \in Nat
    <2>1. S \in SUBSET (1 .. MaxMessages) /\ S \subseteq 0 .. MaxMessages
      BY <1>0 DEF Ids
    <2>2. IsFiniteSet(1 .. MaxMessages)
      BY <1>0, FS_Interval
    <2>3. IsFiniteSet(S)
      BY <2>1, <2>2, FS_Subset
    <2>4. \A x \in S : x \in Nat
      BY <1>0, <2>1
    <2> QED
      BY <2>1, <2>3, <2>4
  <1>2. Cardinality(S) \in Nat /\ PageSize \in Nat \ {0} /\ MaxMessages \in Nat
    BY <1>0, <1>1, FS_CardinalityType
  <1>3. N = {m \in S : Cardinality(Above(m)) < PageSize}
    BY DEF Newest
  <1>4. ASSUME NEW m \in S
        PROVE  /\ IsFiniteSet(Above(m)) /\ Cardinality(Above(m)) \in Nat
               /\ Cardinality(Above(m)) < Cardinality(S)
    <2>1. Above(m) \in SUBSET S /\ m \notin Above(m)
      BY <1>1
    <2>2. IsFiniteSet(Above(m)) /\ Cardinality(Above(m)) <= Cardinality(S)
          /\ Cardinality(S) # Cardinality(Above(m))
      BY <1>1, <2>1, FS_Subset
    <2>3. Cardinality(Above(m)) \in Nat
      BY <2>2, FS_CardinalityType
    <2> HIDE DEF Above
    <2> QED
      BY <1>2, <2>2, <2>3
  <1>5. Cardinality(S) <= PageSize => N = S
    <2> SUFFICES ASSUME Cardinality(S) <= PageSize, NEW m \in S
                 PROVE  Cardinality(Above(m)) < PageSize
      BY <1>3
    <2> DEFINE c == Cardinality(Above(m))
    <2>1. c \in Nat /\ c < Cardinality(S)
      BY <1>4
    <2> HIDE DEF c
    <2>2. c < PageSize
      BY <1>2, <2>1
    <2> QED
      BY <2>2 DEF c
  <1>6. ASSUME NEW m \in S, NEW k \in N, k <= m
        PROVE  m \in N
    <2>0. k \in S /\ k \in Nat /\ m \in Nat
      BY <1>1, <1>3
    <2>1. Above(m) \in SUBSET Above(k) /\ k \in S
      <3>1. \A x \in S : x > m => x > k
        BY <1>1, <1>6, <2>0
      <3> QED
        BY <2>0, <3>1
    <2> DEFINE c == Cardinality(Above(m))
               d == Cardinality(Above(k))
    <2>2. c <= d /\ c \in Nat /\ d \in Nat /\ d < PageSize
      BY <1>3, <1>4, <2>1, FS_Subset
    <2> HIDE DEF c, d
    <2>3. c < PageSize
      BY <1>2, <2>2
    <2> QED
      BY <1>3, <2>3 DEF c
  <1>7. Cardinality(S) > PageSize => N # {}
    <2> SUFFICES ASSUME Cardinality(S) > PageSize
                 PROVE  N # {}
      OBVIOUS
    <2>1. S # {}
      BY <1>2, FS_EmptySet
    <2>2. PICK x \in S : \A y \in S : y <= x
      BY <1>1, <1>2, <2>1, Greatest
    <2>3. Above(x) = {}
      <3>1. \A y \in S : ~(y > x)
        BY <1>1, <2>2
      <3> QED
        BY <3>1
    <2>4. Cardinality(Above(x)) < PageSize
      BY <1>2, <2>3, FS_EmptySet
    <2> QED
      BY <1>3, <2>4
  <1>8. N # {} => Min(N) \in N /\ \A y \in N : Min(N) <= y
    <2>1. N \subseteq Nat
      BY <1>1, <1>3
    <2> HIDE DEF N
    <2> QED
      BY <2>1, Least DEF Min
  <1>9. N \subseteq S
    BY <1>3
  <1> HIDE DEF N, Above
  <1>10. Cardinality(S) > PageSize => Min(N) \in N /\ \A m \in S : m \in N <=> Min(N) <= m
    BY <1>6, <1>7, <1>8
  <1> QED
    BY <1>5, <1>9, <1>10 DEF N

-----------------------------------------------------------------------------
(* The messages: a step adds one at the end, or recalls, reads or hides some *)

LEMMA Bounds ==
  /\ PageSize \in Nat \ {0} /\ MaxMessages \in Nat /\ MaxSeconds \in Nat /\ Publisher \in Users
  BY BoundsAssumption, PublisherAssumption

LEMMA ChatParts ==
  /\ \A b \in Buyers : {Publisher, b} \in Chats
  /\ \A c \in Chats : c \subseteq Users
  /\ \A u \in Users, v \in Users : {u, v} \in Chats => u # v
  BY PublisherAssumption DEF Chats, Buyers

LEMMA MessageParts ==
  ASSUME TypeOK
  PROVE  /\ DOMAIN msgs = 1 .. Len(msgs) /\ Len(msgs) \in 0 .. MaxMessages
         /\ DOMAIN msgs \subseteq Ids
         /\ \A m \in DOMAIN msgs :
               /\ msgs[m] \in Message
               /\ msgs[m].chat \in Chats /\ msgs[m].by \in Users /\ msgs[m].second \in 0 .. MaxSeconds
               /\ msgs[m].hidden \subseteq Users /\ msgs[m].recalled \in BOOLEAN
  <1>1. DOMAIN msgs = 1 .. Len(msgs) /\ Len(msgs) \in Nat
    BY LenProperties DEF TypeOK
  <1>2. \A m \in DOMAIN msgs : msgs[m] \in Message
    BY <1>1, ElementOfSeq DEF TypeOK
  <1>3. Len(msgs) <= MaxMessages /\ MaxMessages \in Nat
    BY BoundsAssumption DEF TypeOK
  <1> QED
    BY <1>1, <1>2, <1>3 DEF Message, Ids

Lasting(old, new) ==
    /\ new.chat = old.chat /\ new.by = old.by /\ new.second = old.second
    /\ new.barred = old.barred /\ new.cast = old.cast /\ old.hidden \subseteq new.hidden
    /\ old.recalled => new.recalled
Grown ==
    /\ msgs' \in Seq(Message) /\ Len(msgs') <= MaxMessages
    /\ DOMAIN msgs \subseteq DOMAIN msgs'
    /\ \A m \in DOMAIN msgs : Lasting(msgs[m], msgs'[m])

LEMMA Changed ==
  ASSUME TypeOK, NEW k \in DOMAIN msgs, NEW r \in Message, Lasting(msgs[k], r),
         msgs' = [msgs EXCEPT ![k] = r]
  PROVE  Grown /\ DOMAIN msgs' = DOMAIN msgs /\ \A m \in DOMAIN msgs : m # k => msgs'[m] = msgs[m]
  <1>1. k \in 1 .. Len(msgs) /\ msgs \in Seq(Message) /\ DOMAIN msgs = 1 .. Len(msgs)
    BY MessageParts DEF TypeOK
  <1>2. msgs' \in Seq(Message) /\ Len(msgs') = Len(msgs)
    BY <1>1, ExceptSeq
  <1>3. DOMAIN msgs' = DOMAIN msgs /\ msgs'[k] = r /\ \A m \in DOMAIN msgs : m # k => msgs'[m] = msgs[m]
    BY <1>1
  <1>4. \A m \in DOMAIN msgs : m # k => Lasting(msgs[m], msgs'[m])
    BY <1>3 DEF Lasting
  <1> QED
    BY <1>2, <1>3, <1>4 DEF Grown, TypeOK

LEMMA InsertMsgs ==
  ASSUME TypeOK, PairInv, NEW s \in Sessions, Insert(s)
  PROVE  /\ Grown
         /\ mine' = [mine EXCEPT ![s] = Len(msgs')] /\ Len(msgs') \in DOMAIN msgs'
         /\ DOMAIN msgs' = DOMAIN msgs \cup {Len(msgs')} /\ Len(msgs') \notin DOMAIN msgs
         /\ \A m \in DOMAIN msgs : msgs'[m] = msgs[m]
         /\ msgs'[Len(msgs')].chat = ChatOf(s) /\ msgs'[Len(msgs')].by = who[s]
         /\ ~msgs'[Len(msgs')].recalled /\ msgs'[Len(msgs')].second = clock
         /\ msgs'[Len(msgs')].barred = barred[s] /\ msgs'[Len(msgs')].cast = (kind[s] = "cast")
  <1> DEFINE r == [chat |-> ChatOf(s), by |-> who[s], second |-> clock, read |-> FALSE,
                   recalled |-> FALSE, hidden |-> {}, cast |-> kind[s] = "cast", barred |-> barred[s]]
  <1>1. r \in Message
    BY DEF Insert, At, TypeOK, PairInv, Paired, Message
  <1>2. /\ r.chat = ChatOf(s) /\ r.by = who[s] /\ ~r.recalled /\ r.second = clock
        /\ r.barred = barred[s] /\ r.cast = (kind[s] = "cast")
    OBVIOUS
  <1>3. msgs' = Append(msgs, r) /\ mine' = [mine EXCEPT ![s] = Len(msgs')] /\ Len(msgs) < MaxMessages
    BY DEF Insert
  <1> HIDE DEF r
  <1>4. /\ msgs \in Seq(Message) /\ Len(msgs) \in Nat /\ MaxMessages \in Nat
        /\ DOMAIN msgs = 1 .. Len(msgs)
    BY MessageParts, BoundsAssumption DEF TypeOK
  <1>5. /\ msgs' \in Seq(Message) /\ Len(msgs') = Len(msgs) + 1
        /\ msgs'[Len(msgs')] = r /\ DOMAIN msgs' = 1 .. Len(msgs')
        /\ \A m \in DOMAIN msgs : msgs'[m] = msgs[m]
    BY <1>1, <1>3, <1>4
  <1>6. \A m \in DOMAIN msgs : Lasting(msgs[m], msgs'[m])
    BY <1>5 DEF Lasting
  <1>7. /\ Len(msgs') \in DOMAIN msgs' /\ Len(msgs') \notin DOMAIN msgs
        /\ DOMAIN msgs' = DOMAIN msgs \cup {Len(msgs')} /\ Len(msgs') <= MaxMessages
    BY <1>3, <1>4, <1>5
  <1> QED
    BY <1>2, <1>3, <1>5, <1>6, <1>7 DEF Grown

LEMMA WithdrawMsgs ==
  ASSUME TypeOK, MineInv, NEW s \in Sessions, Withdraw(s)
  PROVE  /\ Grown /\ DOMAIN msgs' = DOMAIN msgs /\ msgs'[mine[s]].recalled
         /\ \A m \in DOMAIN msgs : m # mine[s] => msgs'[m] = msgs[m]
  <1> DEFINE k == mine[s]
             r == [msgs[k] EXCEPT !.recalled = TRUE]
  <1>1. k \in DOMAIN msgs /\ msgs' = [msgs EXCEPT ![k] = r]
    BY DEF Withdraw, At, MineInv
  <1>2. msgs[k] \in Message
    BY <1>1, MessageParts
  <1>3. r \in Message /\ Lasting(msgs[k], r) /\ r.recalled
    BY <1>2 DEF Message, Lasting
  <1>4. msgs'[k] = r
    BY <1>1
  <1> HIDE DEF r
  <1> QED
    BY <1>1, <1>3, <1>4, Changed

LEMMA HideMsgs ==
  ASSUME TypeOK, NEW u \in Users, NEW k \in DOMAIN msgs, DeleteLocal(u, k)
  PROVE  /\ Grown /\ DOMAIN msgs' = DOMAIN msgs
         /\ \A m \in DOMAIN msgs : msgs'[m].recalled = msgs[m].recalled
  <1> DEFINE r == [msgs[k] EXCEPT !.hidden = @ \cup {u}]
  <1>1. msgs' = [msgs EXCEPT ![k] = r]
    BY DEF DeleteLocal
  <1>2. msgs[k] \in Message
    BY MessageParts
  <1>3. r \in Message /\ Lasting(msgs[k], r) /\ r.recalled = msgs[k].recalled
    BY <1>2 DEF Message, Lasting
  <1>4. msgs'[k] = r
    BY <1>1
  <1> HIDE DEF r
  <1> QED
    BY <1>1, <1>3, <1>4, Changed

LEMMA ReadMsgs ==
  ASSUME TypeOK, NEW u \in Users, NEW c \in Chats, MarkRead(u, c)
  PROVE  /\ Grown /\ DOMAIN msgs' = DOMAIN msgs
         /\ \A m \in DOMAIN msgs : msgs'[m].recalled = msgs[m].recalled
  <1> DEFINE r(m) == IF msgs[m].chat = c /\ msgs[m].by # u
                     THEN [msgs[m] EXCEPT !.read = TRUE] ELSE msgs[m]
  <1>1. msgs' = [m \in DOMAIN msgs |-> r(m)]
    BY DEF MarkRead
  <1>2. DOMAIN msgs = 1 .. Len(msgs) /\ Len(msgs) \in Nat /\ Len(msgs) <= MaxMessages
    BY MessageParts, BoundsAssumption DEF TypeOK
  <1>3. ASSUME NEW m \in DOMAIN msgs
        PROVE  r(m) \in Message /\ Lasting(msgs[m], r(m)) /\ r(m).recalled = msgs[m].recalled
    <2>1. msgs[m] \in Message
      BY MessageParts
    <2> QED
      BY <2>1 DEF Message, Lasting
  <1>4. \A m \in DOMAIN msgs : msgs'[m] = r(m)
    BY <1>1
  <1>5. DOMAIN msgs' = DOMAIN msgs
    BY <1>1
  <1>6. msgs' \in [1 .. Len(msgs) -> Message]
    <2> HIDE DEF r
    <2> QED
      BY <1>1, <1>2, <1>3
  <1>7. msgs' \in Seq(Message) /\ Len(msgs') = Len(msgs)
    BY <1>2, <1>6
  <1> HIDE DEF r
  <1> QED
    BY <1>2, <1>3, <1>4, <1>5, <1>7 DEF Grown

LEMMA SameMsgs ==
  ASSUME TypeOK, UNCHANGED msgs
  PROVE  Grown
  BY DEF Grown, Lasting, TypeOK

LEMMA MsgsStep ==
  ASSUME TypeOK, PairInv, MineInv, [Next]_vars
  PROVE  Grown
  <1>1. ASSUME NEW s \in Sessions, NEW u \in Users, NEW v \in Users, Open(s, u, v) PROVE Grown
    BY <1>1, SameMsgs DEF Open, chatVars
  <1>2. ASSUME NEW s \in Sessions, NEW u \in Users, NEW v \in Users, Send(s, u, v) PROVE Grown
    BY <1>2, SameMsgs DEF Send, chatVars
  <1>3. ASSUME NEW s \in Sessions, NEW u \in Users, NEW v \in Users, Read(s, u, v) PROVE Grown
    BY <1>3, SameMsgs DEF Read, chatVars
  <1>4. ASSUME NEW s \in Sessions, CheckBlock(s) PROVE Grown
    BY <1>4, SameMsgs DEF CheckBlock, chatVars
  <1>5. ASSUME NEW s \in Sessions, Find(s) PROVE Grown
    BY <1>5, SameMsgs DEF Find, chatVars
  <1>6. ASSUME NEW s \in Sessions, Create(s) PROVE Grown
    BY <1>6, SameMsgs DEF Create, chatVars
  <1>7. ASSUME NEW s \in Sessions, Insert(s) PROVE Grown
    BY <1>7, InsertMsgs
  <1>8. ASSUME NEW s \in Sessions, Bind(s) PROVE Grown
    BY <1>8, SameMsgs DEF Bind, chatVars
  <1>9. ASSUME NEW s \in Sessions, Preview(s) PROVE Grown
    BY <1>9, SameMsgs DEF Preview, chatVars
  <1>10. ASSUME NEW s \in Sessions, Broadcast(s) PROVE Grown
    BY <1>10, SameMsgs DEF Broadcast, chatVars
  <1>11. ASSUME NEW s \in Sessions, NextBuyer(s) PROVE Grown
    BY <1>11, SameMsgs DEF NextBuyer, chatVars
  <1>12. ASSUME NEW s \in Sessions, Report(s) PROVE Grown
    BY <1>12, SameMsgs DEF Report, chatVars
  <1>13. ASSUME NEW s \in Sessions, NEW m \in DOMAIN msgs, Recall(s, m) PROVE Grown
    BY <1>13, SameMsgs DEF Recall, chatVars
  <1>14. ASSUME NEW s \in Sessions, Withdraw(s) PROVE Grown
    BY <1>14, WithdrawMsgs
  <1>15. ASSUME NEW s \in Sessions, Look(s) PROVE Grown
    BY <1>15, SameMsgs DEF Look, chatVars
  <1>16. ASSUME NEW s \in Sessions, Cover(s) PROVE Grown
    BY <1>16, SameMsgs DEF Cover, chatVars
  <1>17. ASSUME NEW s \in Sessions, Page(s) PROVE Grown
    BY <1>17, SameMsgs DEF Page, chatVars
  <1>18. ASSUME NEW s \in Sessions, Paged(s) PROVE Grown
    BY <1>18, SameMsgs DEF Paged, chatVars
  <1>19. ASSUME NEW s \in Sessions, Stop(s) PROVE Grown
    BY <1>19, SameMsgs DEF Stop, chatVars
  <1>20. ASSUME NEW u \in Users, NEW c \in Chats, MarkRead(u, c) PROVE Grown
    BY <1>20, ReadMsgs
  <1>21. ASSUME NEW u \in Users, NEW m \in DOMAIN msgs, DeleteLocal(u, m) PROVE Grown
    BY <1>21, HideMsgs
  <1>22. ASSUME NEW u \in Users, NEW v \in Users, AddToBlacklist(u, v) PROVE Grown
    BY <1>22, SameMsgs DEF AddToBlacklist, chatVars
  <1>23. ASSUME NEW u \in Users, NEW v \in Users, RemoveFromBlacklist(u, v) PROVE Grown
    BY <1>23, SameMsgs DEF RemoveFromBlacklist, chatVars
  <1>24. ASSUME Tick PROVE Grown
    BY <1>24, SameMsgs DEF Tick, chatVars
  <1>25. CASE UNCHANGED vars
    BY <1>25, SameMsgs DEF vars
  <1> QED
    BY <1>1, <1>2, <1>3, <1>4, <1>5, <1>6, <1>7, <1>8, <1>9, <1>10, <1>11, <1>12, <1>13, <1>14,
         <1>15, <1>16, <1>17, <1>18, <1>19, <1>20, <1>21, <1>22, <1>23, <1>24, <1>25 DEF Next

LEMMA Types == TypeOK <=> SessionType /\ CastType /\ PageType /\ MsgsType /\ StoreType
  BY DEF TypeOK, SessionType, CastType, PageType, MsgsType, StoreType

LEMMA SessionTypeStep ==
  ASSUME TypeOK, Grown, [Next]_vars
  PROVE  SessionType'
  <1>0. SessionType /\ CastType /\ PageType /\ StoreType
    BY Types
  <1>00. DOMAIN msgs \subseteq 0 .. MaxMessages /\ Len(msgs') \in 0 .. MaxMessages
    BY MessageParts, Bounds, LenProperties DEF Grown
  <1> USE <1>0, <1>00, Bounds DEF SessionType, CastType, Steps, At, GoTo, Blocking, ChatOf, Begin,
       castVars, pageVars, chatVars, historyVars
  <1>1. ASSUME NEW s \in Sessions, NEW u \in Users, NEW v \in Users, Open(s, u, v) PROVE
       SessionType'
    BY <1>1 DEF Open
  <1>2. ASSUME NEW s \in Sessions, NEW u \in Users, NEW v \in Users, Send(s, u, v) PROVE
       SessionType'
    BY <1>2 DEF Send
  <1>3. ASSUME NEW s \in Sessions, NEW u \in Users, NEW v \in Users, Read(s, u, v) PROVE
       SessionType'
    BY <1>3 DEF Read
  <1>4. ASSUME NEW s \in Sessions, CheckBlock(s) PROVE SessionType'
    <2>0. at[s] = "check" /\ open' = open /\ msgs' = msgs /\ text' = text /\ time' = time /\
         blocks' = blocks /\ late' = late /\ overran' = overran
      BY <1>4 DEF CheckBlock
    <2>1. CASE End(s)
      BY <2>0, <2>1 DEF End
    <2>2. CASE <<peer[s], who[s]>> \notin blocks /\ GoOn(s, IF kind[s] = "open" THEN "find" ELSE
         "insert")
      BY <2>0, <2>2 DEF GoOn
    <2> QED
      BY <1>4, <2>1, <2>2 DEF CheckBlock
  <1>5. ASSUME NEW s \in Sessions, Find(s) PROVE SessionType'
    <2>0. at[s] = "find" /\ open' = open /\ msgs' = msgs /\ text' = text /\ time' = time /\
         blocks' = blocks /\ late' = late /\ overran' = overran
      BY <1>5 DEF Find
    <2>1. CASE End(s)
      BY <2>0, <2>1 DEF End
    <2>2. CASE kind[s] = "open" /\ GoOn(s, "create")
      BY <2>0, <2>2 DEF GoOn
    <2>3. CASE kind[s] # "open" /\ GoOn(s, IF ChatOf(s) \in open THEN "insert" ELSE "create")
      BY <2>0, <2>3 DEF GoOn
    <2> QED
      BY <1>5, <2>1, <2>2, <2>3 DEF Find
  <1>6. ASSUME NEW s \in Sessions, Create(s) PROVE SessionType'
    <2>0. at[s] = "create" /\ msgs' = msgs /\ text' = text /\ time' = time /\ blocks' = blocks /\
         late' = late /\ overran' = overran
      BY <1>6 DEF Create
    <2>1. CASE End(s)
      BY <2>0, <2>1 DEF End
    <2>2. CASE kind[s] = "cast" /\ Fail(s) /\ broken' = [broken EXCEPT ![s] = TRUE]
      BY <2>0, <2>2 DEF Fail
    <2>3. CASE kind[s] # "open" /\ GoOn(s, "insert")
      BY <2>0, <2>3 DEF GoOn
    <2> QED
      BY <1>6, <2>1, <2>2, <2>3 DEF Create
  <1>7. ASSUME NEW s \in Sessions, Insert(s) PROVE SessionType'
    BY <1>7 DEF Insert
  <1>8. ASSUME NEW s \in Sessions, Bind(s) PROVE SessionType'
    <2>0. at[s] = "bind" /\ open' = open /\ msgs' = msgs /\ text' = text /\ time' = time /\
         blocks' = blocks /\ late' = late /\ overran' = overran
      BY <1>8 DEF Bind
    <2>1. CASE GoOn(s, "preview")
      BY <2>0, <2>1 DEF GoOn
    <2>2. CASE kind[s] = "cast" /\ Fail(s) /\ UNCHANGED broken
      BY <2>0, <2>2 DEF Fail
    <2>3. CASE End(s)
      BY <2>0, <2>3 DEF End
    <2> QED
      BY <1>8, <2>1, <2>2, <2>3 DEF Bind
  <1>9. ASSUME NEW s \in Sessions, Preview(s) PROVE SessionType'
    <2>0. at[s] = "preview" /\ open' = open /\ msgs' = msgs /\ blocks' = blocks /\ overran' =
         overran
      BY <1>9 DEF Preview
    <2>1. CASE kind[s] = "cast" /\ counted' = [counted EXCEPT ![s] = @ \cup {peer[s]}] /\ GoTo(s,
         "next") /\ UNCHANGED <<kind, who, peer, mine, barred, todo, broken, reached, failed,
         pageVars>>
      BY <2>0, <2>1
    <2>2. CASE End(s)
      BY <2>0, <2>2 DEF End
    <2> QED
      BY <1>9, <2>1, <2>2 DEF Preview
  <1>10. ASSUME NEW s \in Sessions, Broadcast(s) PROVE SessionType'
    BY <1>10 DEF Broadcast
  <1>11. ASSUME NEW s \in Sessions, NextBuyer(s) PROVE SessionType'
    <2>0. at[s] = "next" /\ open' = open /\ msgs' = msgs /\ text' = text /\ time' = time /\
         blocks' = blocks /\ late' = late /\ overran' = overran /\ kind' = kind /\ who' = who /\
         mine' = mine /\ broken' = broken /\ counted' = counted /\ reached' = reached /\
         failed' = failed /\ cursor' = cursor /\ got' = got /\ due' = due
      BY <1>11 DEF NextBuyer
    <2>1. CASE (todo[s] = {} \/ broken[s]) /\ GoTo(s, "report") /\ UNCHANGED <<peer, todo, barred>>
      BY <2>0, <2>1
    <2>2. CASE ~(todo[s] = {} \/ broken[s]) /\ \E b \in todo[s] : peer' = [peer EXCEPT ![s] = b]
         /\ barred' = [barred EXCEPT ![s] = Blocking(Publisher, b)]
         /\ todo' = [todo EXCEPT ![s] = @ \ {b}] /\ GoTo(s, "find")
      <3>1. PICK b \in todo[s] : /\ peer' = [peer EXCEPT ![s] = b] /\ at' = [at EXCEPT ![s] = "find"]
                                 /\ barred' = [barred EXCEPT ![s] = Blocking(Publisher, b)]
        BY <2>2
      <3>2. b \in Users
        OBVIOUS
      <3>3. Blocking(Publisher, b) \subseteq Users
        BY <3>2, PublisherAssumption DEF Blocking
      <3> QED
        BY <2>0, <3>1, <3>2, <3>3
    <2> QED
      BY <1>11, <2>1, <2>2 DEF NextBuyer
  <1>12. ASSUME NEW s \in Sessions, Report(s) PROVE SessionType'
    BY <1>12 DEF Report, End
  <1>13. ASSUME NEW s \in Sessions, NEW m \in DOMAIN msgs, Recall(s, m) PROVE SessionType'
    BY <1>13, MessageParts, ChatParts DEF Recall
  <1>14. ASSUME NEW s \in Sessions, Withdraw(s) PROVE SessionType'
    BY <1>14 DEF Withdraw
  <1>15. ASSUME NEW s \in Sessions, Look(s) PROVE SessionType'
    <2>0. at[s] = "look" /\ open' = open /\ msgs' = msgs /\ text' = text /\ time' = time /\
         blocks' = blocks /\ late' = late /\ overran' = overran
      BY <1>15 DEF Look
    <2>1. CASE time[ChatOf(s)] = msgs[mine[s]].second /\ GoOn(s, "cover")
      BY <2>0, <2>1 DEF GoOn
    <2>2. CASE time[ChatOf(s)] # msgs[mine[s]].second /\ End(s)
      BY <2>0, <2>2 DEF End
    <2> QED
      BY <1>15, <2>1, <2>2 DEF Look
  <1>16. ASSUME NEW s \in Sessions, Cover(s) PROVE SessionType'
    BY <1>16 DEF Cover, End
  <1>17. ASSUME NEW s \in Sessions, Page(s) PROVE SessionType'
    <2>1. at[s] = "page" /\ kind' = kind /\ who' = who /\ peer' = peer /\ mine' = mine /\ barred'
         = barred
      BY <1>17 DEF Page
    <2>2. at' = at \/ at' = [at EXCEPT ![s] = "paged"]
      BY <1>17 DEF Page
    <2> QED
      BY <2>1, <2>2
  <1>18. ASSUME NEW s \in Sessions, Paged(s) PROVE SessionType'
    BY <1>18 DEF Paged, End
  <1>19. ASSUME NEW s \in Sessions, Stop(s) PROVE SessionType'
    BY <1>19 DEF Stop, End
  <1>20. ASSUME NEW u \in Users, NEW c \in Chats, MarkRead(u, c) PROVE SessionType'
    BY <1>20 DEF MarkRead
  <1>21. ASSUME NEW u \in Users, NEW m \in DOMAIN msgs, DeleteLocal(u, m) PROVE SessionType'
    BY <1>21 DEF DeleteLocal
  <1>22. ASSUME NEW u \in Users, NEW v \in Users, AddToBlacklist(u, v) PROVE SessionType'
    BY <1>22 DEF AddToBlacklist
  <1>23. ASSUME NEW u \in Users, NEW v \in Users, RemoveFromBlacklist(u, v) PROVE SessionType'
    BY <1>23 DEF RemoveFromBlacklist
  <1>24. ASSUME Tick PROVE SessionType'
    BY <1>24 DEF Tick
  <1>25. CASE UNCHANGED vars
    BY <1>25 DEF vars
  <1> HIDE DEF SessionType, CastType
  <1> QED
    BY <1>1, <1>2, <1>3, <1>4, <1>5, <1>6, <1>7, <1>8, <1>9, <1>10, <1>11, <1>12, <1>13, <1>14,
         <1>15, <1>16, <1>17, <1>18, <1>19, <1>20, <1>21, <1>22, <1>23, <1>24, <1>25 DEF Next

LEMMA CastTypeStep ==
  ASSUME TypeOK, [Next]_vars
  PROVE  CastType'
  <1>0. SessionType /\ CastType /\ PageType /\ StoreType
    BY Types
  <1> USE <1>0, PublisherAssumption DEF CastType, SessionType, Buyers, At, GoTo, Blocking, ChatOf,
       Begin, castVars, pageVars, chatVars, historyVars
  <1>1. ASSUME NEW s \in Sessions, NEW u \in Users, NEW v \in Users, Open(s, u, v) PROVE CastType'
    BY <1>1 DEF Open
  <1>2. ASSUME NEW s \in Sessions, NEW u \in Users, NEW v \in Users, Send(s, u, v) PROVE CastType'
    BY <1>2 DEF Send
  <1>3. ASSUME NEW s \in Sessions, NEW u \in Users, NEW v \in Users, Read(s, u, v) PROVE CastType'
    BY <1>3 DEF Read
  <1>4. ASSUME NEW s \in Sessions, CheckBlock(s) PROVE CastType'
    <2>0. at[s] = "check" /\ open' = open /\ msgs' = msgs /\ text' = text /\ time' = time /\
         blocks' = blocks /\ late' = late /\ overran' = overran
      BY <1>4 DEF CheckBlock
    <2>1. CASE End(s)
      BY <2>0, <2>1 DEF End
    <2>2. CASE <<peer[s], who[s]>> \notin blocks /\ GoOn(s, IF kind[s] = "open" THEN "find" ELSE
         "insert")
      BY <2>0, <2>2 DEF GoOn
    <2> QED
      BY <1>4, <2>1, <2>2 DEF CheckBlock
  <1>5. ASSUME NEW s \in Sessions, Find(s) PROVE CastType'
    <2>0. at[s] = "find" /\ open' = open /\ msgs' = msgs /\ text' = text /\ time' = time /\
         blocks' = blocks /\ late' = late /\ overran' = overran
      BY <1>5 DEF Find
    <2>1. CASE End(s)
      BY <2>0, <2>1 DEF End
    <2>2. CASE kind[s] = "open" /\ GoOn(s, "create")
      BY <2>0, <2>2 DEF GoOn
    <2>3. CASE kind[s] # "open" /\ GoOn(s, IF ChatOf(s) \in open THEN "insert" ELSE "create")
      BY <2>0, <2>3 DEF GoOn
    <2> QED
      BY <1>5, <2>1, <2>2, <2>3 DEF Find
  <1>6. ASSUME NEW s \in Sessions, Create(s) PROVE CastType'
    <2>0. at[s] = "create" /\ msgs' = msgs /\ text' = text /\ time' = time /\ blocks' = blocks /\
         late' = late /\ overran' = overran
      BY <1>6 DEF Create
    <2>1. CASE End(s)
      BY <2>0, <2>1 DEF End
    <2>2. CASE kind[s] = "cast" /\ Fail(s) /\ broken' = [broken EXCEPT ![s] = TRUE]
      BY <2>0, <2>2 DEF Fail
    <2>3. CASE kind[s] # "open" /\ GoOn(s, "insert")
      BY <2>0, <2>3 DEF GoOn
    <2> QED
      BY <1>6, <2>1, <2>2, <2>3 DEF Create
  <1>7. ASSUME NEW s \in Sessions, Insert(s) PROVE CastType'
    BY <1>7 DEF Insert
  <1>8. ASSUME NEW s \in Sessions, Bind(s) PROVE CastType'
    <2>0. at[s] = "bind" /\ open' = open /\ msgs' = msgs /\ text' = text /\ time' = time /\
         blocks' = blocks /\ late' = late /\ overran' = overran
      BY <1>8 DEF Bind
    <2>1. CASE GoOn(s, "preview")
      BY <2>0, <2>1 DEF GoOn
    <2>2. CASE kind[s] = "cast" /\ Fail(s) /\ UNCHANGED broken
      BY <2>0, <2>2 DEF Fail
    <2>3. CASE End(s)
      BY <2>0, <2>3 DEF End
    <2> QED
      BY <1>8, <2>1, <2>2, <2>3 DEF Bind
  <1>9. ASSUME NEW s \in Sessions, Preview(s) PROVE CastType'
    <2>0. at[s] = "preview" /\ open' = open /\ msgs' = msgs /\ blocks' = blocks /\ overran' =
         overran
      BY <1>9 DEF Preview
    <2>1. CASE kind[s] = "cast" /\ counted' = [counted EXCEPT ![s] = @ \cup {peer[s]}] /\ GoTo(s,
         "next") /\ UNCHANGED <<kind, who, peer, mine, barred, todo, broken, reached, failed,
         pageVars>>
      BY <2>0, <2>1
    <2>2. CASE End(s)
      BY <2>0, <2>2 DEF End
    <2> QED
      BY <1>9, <2>1, <2>2 DEF Preview
  <1>10. ASSUME NEW s \in Sessions, Broadcast(s) PROVE CastType'
    BY <1>10 DEF Broadcast
  <1>11. ASSUME NEW s \in Sessions, NextBuyer(s) PROVE CastType'
    <2>0. at[s] = "next" /\ open' = open /\ msgs' = msgs /\ text' = text /\ time' = time /\
         blocks' = blocks /\ late' = late /\ overran' = overran /\ kind' = kind /\ who' = who /\
         mine' = mine /\ broken' = broken /\ counted' = counted /\ reached' = reached /\
         failed' = failed /\ cursor' = cursor /\ got' = got /\ due' = due
      BY <1>11 DEF NextBuyer
    <2>1. CASE (todo[s] = {} \/ broken[s]) /\ GoTo(s, "report") /\ UNCHANGED <<peer, todo, barred>>
      BY <2>0, <2>1
    <2>2. CASE ~(todo[s] = {} \/ broken[s]) /\ \E b \in todo[s] : peer' = [peer EXCEPT ![s] = b]
         /\ barred' = [barred EXCEPT ![s] = Blocking(Publisher, b)]
         /\ todo' = [todo EXCEPT ![s] = @ \ {b}] /\ GoTo(s, "find")
      BY <2>0, <2>2
    <2> QED
      BY <1>11, <2>1, <2>2 DEF NextBuyer
  <1>12. ASSUME NEW s \in Sessions, Report(s) PROVE CastType'
    BY <1>12 DEF Report, End
  <1>13. ASSUME NEW s \in Sessions, NEW m \in DOMAIN msgs, Recall(s, m) PROVE CastType'
    BY <1>13 DEF Recall
  <1>14. ASSUME NEW s \in Sessions, Withdraw(s) PROVE CastType'
    BY <1>14 DEF Withdraw
  <1>15. ASSUME NEW s \in Sessions, Look(s) PROVE CastType'
    <2>0. at[s] = "look" /\ open' = open /\ msgs' = msgs /\ text' = text /\ time' = time /\
         blocks' = blocks /\ late' = late /\ overran' = overran
      BY <1>15 DEF Look
    <2>1. CASE time[ChatOf(s)] = msgs[mine[s]].second /\ GoOn(s, "cover")
      BY <2>0, <2>1 DEF GoOn
    <2>2. CASE time[ChatOf(s)] # msgs[mine[s]].second /\ End(s)
      BY <2>0, <2>2 DEF End
    <2> QED
      BY <1>15, <2>1, <2>2 DEF Look
  <1>16. ASSUME NEW s \in Sessions, Cover(s) PROVE CastType'
    BY <1>16 DEF Cover, End
  <1>17. ASSUME NEW s \in Sessions, Page(s) PROVE CastType'
    BY <1>17 DEF Page
  <1>18. ASSUME NEW s \in Sessions, Paged(s) PROVE CastType'
    BY <1>18 DEF Paged, End
  <1>19. ASSUME NEW s \in Sessions, Stop(s) PROVE CastType'
    BY <1>19 DEF Stop, End
  <1>20. ASSUME NEW u \in Users, NEW c \in Chats, MarkRead(u, c) PROVE CastType'
    BY <1>20 DEF MarkRead
  <1>21. ASSUME NEW u \in Users, NEW m \in DOMAIN msgs, DeleteLocal(u, m) PROVE CastType'
    BY <1>21 DEF DeleteLocal
  <1>22. ASSUME NEW u \in Users, NEW v \in Users, AddToBlacklist(u, v) PROVE CastType'
    BY <1>22 DEF AddToBlacklist
  <1>23. ASSUME NEW u \in Users, NEW v \in Users, RemoveFromBlacklist(u, v) PROVE CastType'
    BY <1>23 DEF RemoveFromBlacklist
  <1>24. ASSUME Tick PROVE CastType'
    BY <1>24 DEF Tick
  <1>25. CASE UNCHANGED vars
    BY <1>25 DEF vars
  <1> HIDE DEF CastType, SessionType
  <1> QED
    BY <1>1, <1>2, <1>3, <1>4, <1>5, <1>6, <1>7, <1>8, <1>9, <1>10, <1>11, <1>12, <1>13, <1>14,
         <1>15, <1>16, <1>17, <1>18, <1>19, <1>20, <1>21, <1>22, <1>23, <1>24, <1>25 DEF Next

LEMMA PageTypeStep ==
  ASSUME TypeOK, [Next]_vars
  PROVE  PageType'
  <1>0. SessionType /\ CastType /\ PageType /\ StoreType
    BY Types
  <1>00. \A u \in Users : \A c : Visible(u, c) \subseteq Ids
    BY MessageParts DEF Visible
  <1> USE <1>0, Bounds DEF PageType, SessionType, At, GoTo, Blocking, ChatOf, Begin, castVars,
       pageVars, chatVars, historyVars
  <1>1. ASSUME NEW s \in Sessions, NEW u \in Users, NEW v \in Users, Open(s, u, v) PROVE PageType'
    BY <1>1 DEF Open
  <1>2. ASSUME NEW s \in Sessions, NEW u \in Users, NEW v \in Users, Send(s, u, v) PROVE PageType'
    BY <1>2 DEF Send
  <1>3. ASSUME NEW s \in Sessions, NEW u \in Users, NEW v \in Users, Read(s, u, v) PROVE PageType'
    <2>1. MaxMessages + 1 \in 0 .. MaxMessages + 1 /\ Visible(u, {u, v}) \in SUBSET Ids
      BY <1>00
    <2> QED
      BY <1>3, <2>1 DEF Read
  <1>4. ASSUME NEW s \in Sessions, CheckBlock(s) PROVE PageType'
    <2>0. at[s] = "check" /\ open' = open /\ msgs' = msgs /\ text' = text /\ time' = time /\
         blocks' = blocks /\ late' = late /\ overran' = overran
      BY <1>4 DEF CheckBlock
    <2>1. CASE End(s)
      BY <2>0, <2>1 DEF End
    <2>2. CASE <<peer[s], who[s]>> \notin blocks /\ GoOn(s, IF kind[s] = "open" THEN "find" ELSE
         "insert")
      BY <2>0, <2>2 DEF GoOn
    <2> QED
      BY <1>4, <2>1, <2>2 DEF CheckBlock
  <1>5. ASSUME NEW s \in Sessions, Find(s) PROVE PageType'
    <2>0. at[s] = "find" /\ open' = open /\ msgs' = msgs /\ text' = text /\ time' = time /\
         blocks' = blocks /\ late' = late /\ overran' = overran
      BY <1>5 DEF Find
    <2>1. CASE End(s)
      BY <2>0, <2>1 DEF End
    <2>2. CASE kind[s] = "open" /\ GoOn(s, "create")
      BY <2>0, <2>2 DEF GoOn
    <2>3. CASE kind[s] # "open" /\ GoOn(s, IF ChatOf(s) \in open THEN "insert" ELSE "create")
      BY <2>0, <2>3 DEF GoOn
    <2> QED
      BY <1>5, <2>1, <2>2, <2>3 DEF Find
  <1>6. ASSUME NEW s \in Sessions, Create(s) PROVE PageType'
    <2>0. at[s] = "create" /\ msgs' = msgs /\ text' = text /\ time' = time /\ blocks' = blocks /\
         late' = late /\ overran' = overran
      BY <1>6 DEF Create
    <2>1. CASE End(s)
      BY <2>0, <2>1 DEF End
    <2>2. CASE kind[s] = "cast" /\ Fail(s) /\ broken' = [broken EXCEPT ![s] = TRUE]
      BY <2>0, <2>2 DEF Fail
    <2>3. CASE kind[s] # "open" /\ GoOn(s, "insert")
      BY <2>0, <2>3 DEF GoOn
    <2> QED
      BY <1>6, <2>1, <2>2, <2>3 DEF Create
  <1>7. ASSUME NEW s \in Sessions, Insert(s) PROVE PageType'
    BY <1>7 DEF Insert
  <1>8. ASSUME NEW s \in Sessions, Bind(s) PROVE PageType'
    <2>0. at[s] = "bind" /\ open' = open /\ msgs' = msgs /\ text' = text /\ time' = time /\
         blocks' = blocks /\ late' = late /\ overran' = overran
      BY <1>8 DEF Bind
    <2>1. CASE GoOn(s, "preview")
      BY <2>0, <2>1 DEF GoOn
    <2>2. CASE kind[s] = "cast" /\ Fail(s) /\ UNCHANGED broken
      BY <2>0, <2>2 DEF Fail
    <2>3. CASE End(s)
      BY <2>0, <2>3 DEF End
    <2> QED
      BY <1>8, <2>1, <2>2, <2>3 DEF Bind
  <1>9. ASSUME NEW s \in Sessions, Preview(s) PROVE PageType'
    <2>0. at[s] = "preview" /\ open' = open /\ msgs' = msgs /\ blocks' = blocks /\ overran' =
         overran
      BY <1>9 DEF Preview
    <2>1. CASE kind[s] = "cast" /\ counted' = [counted EXCEPT ![s] = @ \cup {peer[s]}] /\ GoTo(s,
         "next") /\ UNCHANGED <<kind, who, peer, mine, barred, todo, broken, reached, failed,
         pageVars>>
      BY <2>0, <2>1
    <2>2. CASE End(s)
      BY <2>0, <2>2 DEF End
    <2> QED
      BY <1>9, <2>1, <2>2 DEF Preview
  <1>10. ASSUME NEW s \in Sessions, Broadcast(s) PROVE PageType'
    BY <1>10 DEF Broadcast
  <1>11. ASSUME NEW s \in Sessions, NextBuyer(s) PROVE PageType'
    <2>0. at[s] = "next" /\ open' = open /\ msgs' = msgs /\ text' = text /\ time' = time /\
         blocks' = blocks /\ late' = late /\ overran' = overran /\ kind' = kind /\ who' = who /\
         mine' = mine /\ broken' = broken /\ counted' = counted /\ reached' = reached /\
         failed' = failed /\ cursor' = cursor /\ got' = got /\ due' = due
      BY <1>11 DEF NextBuyer
    <2>1. CASE (todo[s] = {} \/ broken[s]) /\ GoTo(s, "report") /\ UNCHANGED <<peer, todo, barred>>
      BY <2>0, <2>1
    <2>2. CASE ~(todo[s] = {} \/ broken[s]) /\ \E b \in todo[s] : peer' = [peer EXCEPT ![s] = b]
         /\ barred' = [barred EXCEPT ![s] = Blocking(Publisher, b)]
         /\ todo' = [todo EXCEPT ![s] = @ \ {b}] /\ GoTo(s, "find")
      BY <2>0, <2>2
    <2> QED
      BY <1>11, <2>1, <2>2 DEF NextBuyer
  <1>12. ASSUME NEW s \in Sessions, Report(s) PROVE PageType'
    BY <1>12 DEF Report, End
  <1>13. ASSUME NEW s \in Sessions, NEW m \in DOMAIN msgs, Recall(s, m) PROVE PageType'
    BY <1>13 DEF Recall
  <1>14. ASSUME NEW s \in Sessions, Withdraw(s) PROVE PageType'
    BY <1>14 DEF Withdraw
  <1>15. ASSUME NEW s \in Sessions, Look(s) PROVE PageType'
    <2>0. at[s] = "look" /\ open' = open /\ msgs' = msgs /\ text' = text /\ time' = time /\
         blocks' = blocks /\ late' = late /\ overran' = overran
      BY <1>15 DEF Look
    <2>1. CASE time[ChatOf(s)] = msgs[mine[s]].second /\ GoOn(s, "cover")
      BY <2>0, <2>1 DEF GoOn
    <2>2. CASE time[ChatOf(s)] # msgs[mine[s]].second /\ End(s)
      BY <2>0, <2>2 DEF End
    <2> QED
      BY <1>15, <2>1, <2>2 DEF Look
  <1>16. ASSUME NEW s \in Sessions, Cover(s) PROVE PageType'
    BY <1>16 DEF Cover, End
  <1>17. ASSUME NEW s \in Sessions, Page(s) PROVE PageType'
    <2> DEFINE rest == {m \in Visible(who[s], ChatOf(s)) : m < cursor[s]}
                page == Newest(PageSize, rest)
    <2>1. rest \in SUBSET Ids
      BY MessageParts DEF Visible
    <2>2. page \in SUBSET Ids /\ (Cardinality(rest) > PageSize => Min(page) \in Ids)
      BY <2>1, PageOf
    <2>3. Ids \subseteq 0 .. MaxMessages + 1
      BY Bounds DEF Ids
    <2>4. got' = [got EXCEPT ![s] = Append(got[s], page)] /\ got[s] \in Seq(SUBSET Ids) /\ due' =
         due
      BY <1>17 DEF Page
    <2>5. Append(got[s], page) \in Seq(SUBSET Ids)
      <3> HIDE DEF page
      <3> QED
        BY <2>2, <2>4
    <2>6. (Cardinality(rest) > PageSize /\ cursor' = [cursor EXCEPT ![s] = Min(page)]) \/ cursor'
         = cursor
      BY <1>17 DEF Page
    <2> HIDE DEF page, rest
    <2> QED
      BY <2>2, <2>3, <2>4, <2>5, <2>6
  <1>18. ASSUME NEW s \in Sessions, Paged(s) PROVE PageType'
    BY <1>18 DEF Paged, End
  <1>19. ASSUME NEW s \in Sessions, Stop(s) PROVE PageType'
    BY <1>19 DEF Stop, End
  <1>20. ASSUME NEW u \in Users, NEW c \in Chats, MarkRead(u, c) PROVE PageType'
    BY <1>20 DEF MarkRead
  <1>21. ASSUME NEW u \in Users, NEW m \in DOMAIN msgs, DeleteLocal(u, m) PROVE PageType'
    BY <1>21 DEF DeleteLocal
  <1>22. ASSUME NEW u \in Users, NEW v \in Users, AddToBlacklist(u, v) PROVE PageType'
    BY <1>22 DEF AddToBlacklist
  <1>23. ASSUME NEW u \in Users, NEW v \in Users, RemoveFromBlacklist(u, v) PROVE PageType'
    BY <1>23 DEF RemoveFromBlacklist
  <1>24. ASSUME Tick PROVE PageType'
    BY <1>24 DEF Tick
  <1>25. CASE UNCHANGED vars
    BY <1>25 DEF vars
  <1> HIDE DEF PageType, SessionType
  <1> QED
    BY <1>1, <1>2, <1>3, <1>4, <1>5, <1>6, <1>7, <1>8, <1>9, <1>10, <1>11, <1>12, <1>13, <1>14,
         <1>15, <1>16, <1>17, <1>18, <1>19, <1>20, <1>21, <1>22, <1>23, <1>24, <1>25 DEF Next

LEMMA StoreTypeStep ==
  ASSUME TypeOK, PhaseInv, PairInv, MineInv, [Next]_vars
  PROVE  StoreType'
  <1>0. SessionType /\ CastType /\ PageType /\ StoreType
    BY Types
  <1>00. \A s \in Sessions : at[s] = "preview" \/ kind[s] = "recall" => mine[s] \in Ids
    BY <1>0, MessageParts DEF MineInv, PhaseInv
  <1>000. \A s \in Sessions : at[s] = "create" => ChatOf(s) \in Chats
    BY DEF PairInv, Paired
  <1> USE <1>0, Bounds DEF StoreType, SessionType, NoText, RecallText, At, GoTo, Blocking, ChatOf,
       Begin, castVars, pageVars, chatVars, historyVars
  <1>1. ASSUME NEW s \in Sessions, NEW u \in Users, NEW v \in Users, Open(s, u, v) PROVE
       StoreType'
    BY <1>1 DEF Open
  <1>2. ASSUME NEW s \in Sessions, NEW u \in Users, NEW v \in Users, Send(s, u, v) PROVE
       StoreType'
    BY <1>2 DEF Send
  <1>3. ASSUME NEW s \in Sessions, NEW u \in Users, NEW v \in Users, Read(s, u, v) PROVE
       StoreType'
    BY <1>3 DEF Read
  <1>4. ASSUME NEW s \in Sessions, CheckBlock(s) PROVE StoreType'
    BY <1>4 DEF CheckBlock
  <1>5. ASSUME NEW s \in Sessions, Find(s) PROVE StoreType'
    BY <1>5 DEF Find
  <1>6. ASSUME NEW s \in Sessions, Create(s) PROVE StoreType'
    BY <1>6, <1>000 DEF Create
  <1>7. ASSUME NEW s \in Sessions, Insert(s) PROVE StoreType'
    BY <1>7 DEF Insert
  <1>8. ASSUME NEW s \in Sessions, Bind(s) PROVE StoreType'
    BY <1>8 DEF Bind
  <1>9. ASSUME NEW s \in Sessions, Preview(s) PROVE StoreType'
    <2>1. /\ text' = [text EXCEPT ![ChatOf(s)] = mine[s]]
          /\ time' = [time EXCEPT ![ChatOf(s)] = clock]
          /\ late' = late \cup {mine[s]} \/ late' = late
          /\ mix' = mix /\ clock' = clock /\ open' = open /\ blocks' = blocks
          /\ blocked' = blocked /\ stopped' = stopped /\ overran' = overran
      BY <1>9 DEF Preview
    <2>2. mine[s] \in Ids
      BY <1>9, <1>00 DEF Preview
    <2>3. text' \in [Chats -> Ids \cup {0, -1}]
      BY <2>1, <2>2
    <2>4. clock \in -1 .. MaxSeconds
      OBVIOUS
    <2>5. time' \in [Chats -> -1 .. MaxSeconds]
      BY <2>1, <2>4
    <2>6. late' \subseteq Ids
      BY <2>1, <2>2
    <2> QED
      BY <2>1, <2>3, <2>5, <2>6
  <1>10. ASSUME NEW s \in Sessions, Broadcast(s) PROVE StoreType'
    BY <1>10 DEF Broadcast
  <1>11. ASSUME NEW s \in Sessions, NextBuyer(s) PROVE StoreType'
    BY <1>11 DEF NextBuyer
  <1>12. ASSUME NEW s \in Sessions, Report(s) PROVE StoreType'
    BY <1>12 DEF Report, End
  <1>13. ASSUME NEW s \in Sessions, NEW m \in DOMAIN msgs, Recall(s, m) PROVE StoreType'
    BY <1>13 DEF Recall
  <1>14. ASSUME NEW s \in Sessions, Withdraw(s) PROVE StoreType'
    BY <1>14 DEF Withdraw
  <1>15. ASSUME NEW s \in Sessions, Look(s) PROVE StoreType'
    BY <1>15 DEF Look
  <1>16. ASSUME NEW s \in Sessions, Cover(s) PROVE StoreType'
    BY <1>16 DEF Cover, End
  <1>17. ASSUME NEW s \in Sessions, Page(s) PROVE StoreType'
    BY <1>17 DEF Page
  <1>18. ASSUME NEW s \in Sessions, Paged(s) PROVE StoreType'
    BY <1>18 DEF Paged, End
  <1>19. ASSUME NEW s \in Sessions, Stop(s) PROVE StoreType'
    BY <1>19, <1>00 DEF Stop, End
  <1>20. ASSUME NEW u \in Users, NEW c \in Chats, MarkRead(u, c) PROVE StoreType'
    BY <1>20 DEF MarkRead
  <1>21. ASSUME NEW u \in Users, NEW m \in DOMAIN msgs, DeleteLocal(u, m) PROVE StoreType'
    BY <1>21 DEF DeleteLocal
  <1>22. ASSUME NEW u \in Users, NEW v \in Users, AddToBlacklist(u, v) PROVE StoreType'
    BY <1>22 DEF AddToBlacklist
  <1>23. ASSUME NEW u \in Users, NEW v \in Users, RemoveFromBlacklist(u, v) PROVE StoreType'
    BY <1>23 DEF RemoveFromBlacklist
  <1>24. ASSUME Tick PROVE StoreType'
    BY <1>24 DEF Tick
  <1>25. CASE UNCHANGED vars
    BY <1>25 DEF vars
  <1> HIDE DEF StoreType, SessionType
  <1> QED
    BY <1>1, <1>2, <1>3, <1>4, <1>5, <1>6, <1>7, <1>8, <1>9, <1>10, <1>11, <1>12, <1>13, <1>14,
         <1>15, <1>16, <1>17, <1>18, <1>19, <1>20, <1>21, <1>22, <1>23, <1>24, <1>25 DEF Next

LEMMA TypeStep == ASSUME TypeOK, PhaseInv, PairInv, MineInv, [Next]_vars PROVE TypeOK' /\ Grown
  <1>1. Grown
    BY MsgsStep
  <1>2. MsgsType'
    BY <1>1 DEF Grown, MsgsType
  <1>3. SessionType' /\ CastType' /\ PageType' /\ StoreType'
    BY <1>1, SessionTypeStep, CastTypeStep, PageTypeStep, StoreTypeStep
  <1> QED
    BY <1>1, <1>2, <1>3 DEF TypeOK, SessionType, CastType, PageType, MsgsType, StoreType

LEMMA PhaseStep ==
  ASSUME TypeOK, PhaseInv, [Next]_vars
  PROVE  PhaseInv'
  <1>0. SessionType /\ CastType /\ PageType /\ StoreType
    BY Types
  <1> USE <1>0, Bounds DEF PhaseInv, SessionType, At, GoTo, Blocking, ChatOf, Begin, castVars,
       pageVars, chatVars, historyVars
  <1>1. ASSUME NEW s \in Sessions, NEW u \in Users, NEW v \in Users, Open(s, u, v) PROVE PhaseInv'
    BY <1>1 DEF Open
  <1>2. ASSUME NEW s \in Sessions, NEW u \in Users, NEW v \in Users, Send(s, u, v) PROVE PhaseInv'
    BY <1>2 DEF Send
  <1>3. ASSUME NEW s \in Sessions, NEW u \in Users, NEW v \in Users, Read(s, u, v) PROVE PhaseInv'
    BY <1>3 DEF Read
  <1>4. ASSUME NEW s \in Sessions, CheckBlock(s) PROVE PhaseInv'
    <2>0. at[s] = "check" /\ open' = open /\ msgs' = msgs /\ text' = text /\ time' = time /\
         blocks' = blocks /\ late' = late /\ overran' = overran
      BY <1>4 DEF CheckBlock
    <2>1. CASE End(s)
      BY <2>0, <2>1 DEF End
    <2>2. CASE <<peer[s], who[s]>> \notin blocks /\ GoOn(s, IF kind[s] = "open" THEN "find" ELSE
         "insert")
      BY <2>0, <2>2 DEF GoOn
    <2> QED
      BY <1>4, <2>1, <2>2 DEF CheckBlock
  <1>5. ASSUME NEW s \in Sessions, Find(s) PROVE PhaseInv'
    <2>0. at[s] = "find" /\ open' = open /\ msgs' = msgs /\ text' = text /\ time' = time /\
         blocks' = blocks /\ late' = late /\ overran' = overran
      BY <1>5 DEF Find
    <2>1. CASE End(s)
      BY <2>0, <2>1 DEF End
    <2>2. CASE kind[s] = "open" /\ GoOn(s, "create")
      BY <2>0, <2>2 DEF GoOn
    <2>3. CASE kind[s] # "open" /\ GoOn(s, IF ChatOf(s) \in open THEN "insert" ELSE "create")
      BY <2>0, <2>3 DEF GoOn
    <2> QED
      BY <1>5, <2>1, <2>2, <2>3 DEF Find
  <1>6. ASSUME NEW s \in Sessions, Create(s) PROVE PhaseInv'
    <2>0. at[s] = "create" /\ msgs' = msgs /\ text' = text /\ time' = time /\ blocks' = blocks /\
         late' = late /\ overran' = overran
      BY <1>6 DEF Create
    <2>1. CASE End(s)
      BY <2>0, <2>1 DEF End
    <2>2. CASE kind[s] = "cast" /\ Fail(s) /\ broken' = [broken EXCEPT ![s] = TRUE]
      BY <2>0, <2>2 DEF Fail
    <2>3. CASE kind[s] # "open" /\ GoOn(s, "insert")
      BY <2>0, <2>3 DEF GoOn
    <2> QED
      BY <1>6, <2>1, <2>2, <2>3 DEF Create
  <1>7. ASSUME NEW s \in Sessions, Insert(s) PROVE PhaseInv'
    BY <1>7 DEF Insert
  <1>8. ASSUME NEW s \in Sessions, Bind(s) PROVE PhaseInv'
    <2>0. at[s] = "bind" /\ open' = open /\ msgs' = msgs /\ text' = text /\ time' = time /\
         blocks' = blocks /\ late' = late /\ overran' = overran
      BY <1>8 DEF Bind
    <2>1. CASE GoOn(s, "preview")
      BY <2>0, <2>1 DEF GoOn
    <2>2. CASE kind[s] = "cast" /\ Fail(s) /\ UNCHANGED broken
      BY <2>0, <2>2 DEF Fail
    <2>3. CASE End(s)
      BY <2>0, <2>3 DEF End
    <2> QED
      BY <1>8, <2>1, <2>2, <2>3 DEF Bind
  <1>9. ASSUME NEW s \in Sessions, Preview(s) PROVE PhaseInv'
    <2>0. at[s] = "preview" /\ open' = open /\ msgs' = msgs /\ blocks' = blocks /\ overran' =
         overran
      BY <1>9 DEF Preview
    <2>1. CASE kind[s] = "cast" /\ counted' = [counted EXCEPT ![s] = @ \cup {peer[s]}] /\ GoTo(s,
         "next") /\ UNCHANGED <<kind, who, peer, mine, barred, todo, broken, reached, failed,
         pageVars>>
      BY <2>0, <2>1
    <2>2. CASE End(s)
      BY <2>0, <2>2 DEF End
    <2> QED
      BY <1>9, <2>1, <2>2 DEF Preview
  <1>10. ASSUME NEW s \in Sessions, Broadcast(s) PROVE PhaseInv'
    BY <1>10 DEF Broadcast
  <1>11. ASSUME NEW s \in Sessions, NextBuyer(s) PROVE PhaseInv'
    <2>0. at[s] = "next" /\ open' = open /\ msgs' = msgs /\ text' = text /\ time' = time /\
         blocks' = blocks /\ late' = late /\ overran' = overran /\ kind' = kind /\ who' = who /\
         mine' = mine /\ broken' = broken /\ counted' = counted /\ reached' = reached /\
         failed' = failed /\ cursor' = cursor /\ got' = got /\ due' = due
      BY <1>11 DEF NextBuyer
    <2>1. CASE (todo[s] = {} \/ broken[s]) /\ GoTo(s, "report") /\ UNCHANGED <<peer, todo, barred>>
      BY <2>0, <2>1
    <2>2. CASE ~(todo[s] = {} \/ broken[s]) /\ \E b \in todo[s] : peer' = [peer EXCEPT ![s] = b]
         /\ barred' = [barred EXCEPT ![s] = Blocking(Publisher, b)]
         /\ todo' = [todo EXCEPT ![s] = @ \ {b}] /\ GoTo(s, "find")
      BY <2>0, <2>2
    <2> QED
      BY <1>11, <2>1, <2>2 DEF NextBuyer
  <1>12. ASSUME NEW s \in Sessions, Report(s) PROVE PhaseInv'
    BY <1>12 DEF Report, End
  <1>13. ASSUME NEW s \in Sessions, NEW m \in DOMAIN msgs, Recall(s, m) PROVE PhaseInv'
    BY <1>13 DEF Recall
  <1>14. ASSUME NEW s \in Sessions, Withdraw(s) PROVE PhaseInv'
    BY <1>14 DEF Withdraw
  <1>15. ASSUME NEW s \in Sessions, Look(s) PROVE PhaseInv'
    <2>0. at[s] = "look" /\ open' = open /\ msgs' = msgs /\ text' = text /\ time' = time /\
         blocks' = blocks /\ late' = late /\ overran' = overran
      BY <1>15 DEF Look
    <2>1. CASE time[ChatOf(s)] = msgs[mine[s]].second /\ GoOn(s, "cover")
      BY <2>0, <2>1 DEF GoOn
    <2>2. CASE time[ChatOf(s)] # msgs[mine[s]].second /\ End(s)
      BY <2>0, <2>2 DEF End
    <2> QED
      BY <1>15, <2>1, <2>2 DEF Look
  <1>16. ASSUME NEW s \in Sessions, Cover(s) PROVE PhaseInv'
    BY <1>16 DEF Cover, End
  <1>17. ASSUME NEW s \in Sessions, Page(s) PROVE PhaseInv'
    <2>1. at[s] = "page" /\ kind' = kind /\ who' = who /\ peer' = peer /\ mine' = mine /\ barred'
         = barred
      BY <1>17 DEF Page
    <2>2. at' = at \/ at' = [at EXCEPT ![s] = "paged"]
      BY <1>17 DEF Page
    <2> QED
      BY <1>17, <2>1, <2>2
  <1>18. ASSUME NEW s \in Sessions, Paged(s) PROVE PhaseInv'
    BY <1>18 DEF Paged, End
  <1>19. ASSUME NEW s \in Sessions, Stop(s) PROVE PhaseInv'
    BY <1>19 DEF Stop, End
  <1>20. ASSUME NEW u \in Users, NEW c \in Chats, MarkRead(u, c) PROVE PhaseInv'
    BY <1>20 DEF MarkRead
  <1>21. ASSUME NEW u \in Users, NEW m \in DOMAIN msgs, DeleteLocal(u, m) PROVE PhaseInv'
    BY <1>21 DEF DeleteLocal
  <1>22. ASSUME NEW u \in Users, NEW v \in Users, AddToBlacklist(u, v) PROVE PhaseInv'
    BY <1>22 DEF AddToBlacklist
  <1>23. ASSUME NEW u \in Users, NEW v \in Users, RemoveFromBlacklist(u, v) PROVE PhaseInv'
    BY <1>23 DEF RemoveFromBlacklist
  <1>24. ASSUME Tick PROVE PhaseInv'
    BY <1>24 DEF Tick
  <1>25. CASE UNCHANGED vars
    BY <1>25 DEF vars
  <1> HIDE DEF PhaseInv, SessionType
  <1> QED
    BY <1>1, <1>2, <1>3, <1>4, <1>5, <1>6, <1>7, <1>8, <1>9, <1>10, <1>11, <1>12, <1>13, <1>14,
         <1>15, <1>16, <1>17, <1>18, <1>19, <1>20, <1>21, <1>22, <1>23, <1>24, <1>25 DEF Next

\* A message that was not there has just been inserted.
Fresh(m) ==
    \E s \in Sessions :
        /\ at[s] = "insert" /\ msgs'[m].chat = ChatOf(s) /\ msgs'[m].by = who[s]
        /\ msgs'[m].barred = barred[s] /\ msgs'[m].cast = (kind[s] = "cast")
AllFresh == \A m \in DOMAIN msgs' \ DOMAIN msgs : Fresh(m)

LEMMA FreshMsgs ==
  ASSUME TypeOK, PairInv, MineInv, [Next]_vars
  PROVE  AllFresh
  <1> USE DEF AllFresh
  <1>1. ASSUME NEW s \in Sessions, NEW u \in Users, NEW v \in Users, Open(s, u, v) PROVE AllFresh
    BY <1>1 DEF Open, chatVars
  <1>2. ASSUME NEW s \in Sessions, NEW u \in Users, NEW v \in Users, Send(s, u, v) PROVE AllFresh
    BY <1>2 DEF Send, chatVars
  <1>3. ASSUME NEW s \in Sessions, NEW u \in Users, NEW v \in Users, Read(s, u, v) PROVE AllFresh
    BY <1>3 DEF Read, chatVars
  <1>4. ASSUME NEW s \in Sessions, CheckBlock(s) PROVE AllFresh
    BY <1>4 DEF CheckBlock, chatVars
  <1>5. ASSUME NEW s \in Sessions, Find(s) PROVE AllFresh
    BY <1>5 DEF Find, chatVars
  <1>6. ASSUME NEW s \in Sessions, Create(s) PROVE AllFresh
    BY <1>6 DEF Create, chatVars
  <1>7. ASSUME NEW s \in Sessions, Insert(s) PROVE AllFresh
    <2>1. at[s] = "insert"
      BY <1>7 DEF Insert, At
    <2> QED
      BY <1>7, <2>1, InsertMsgs DEF Fresh
  <1>8. ASSUME NEW s \in Sessions, Bind(s) PROVE AllFresh
    BY <1>8 DEF Bind, chatVars
  <1>9. ASSUME NEW s \in Sessions, Preview(s) PROVE AllFresh
    BY <1>9 DEF Preview, chatVars
  <1>10. ASSUME NEW s \in Sessions, Broadcast(s) PROVE AllFresh
    BY <1>10 DEF Broadcast, chatVars
  <1>11. ASSUME NEW s \in Sessions, NextBuyer(s) PROVE AllFresh
    BY <1>11 DEF NextBuyer, chatVars
  <1>12. ASSUME NEW s \in Sessions, Report(s) PROVE AllFresh
    BY <1>12 DEF Report, chatVars
  <1>13. ASSUME NEW s \in Sessions, NEW m \in DOMAIN msgs, Recall(s, m) PROVE AllFresh
    BY <1>13 DEF Recall, chatVars
  <1>14. ASSUME NEW s \in Sessions, Withdraw(s) PROVE AllFresh
    BY <1>14, WithdrawMsgs
  <1>15. ASSUME NEW s \in Sessions, Look(s) PROVE AllFresh
    BY <1>15 DEF Look, chatVars
  <1>16. ASSUME NEW s \in Sessions, Cover(s) PROVE AllFresh
    BY <1>16 DEF Cover, chatVars
  <1>17. ASSUME NEW s \in Sessions, Page(s) PROVE AllFresh
    BY <1>17 DEF Page, chatVars
  <1>18. ASSUME NEW s \in Sessions, Paged(s) PROVE AllFresh
    BY <1>18 DEF Paged, chatVars
  <1>19. ASSUME NEW s \in Sessions, Stop(s) PROVE AllFresh
    BY <1>19 DEF Stop, chatVars
  <1>20. ASSUME NEW u \in Users, NEW c \in Chats, MarkRead(u, c) PROVE AllFresh
    BY <1>20, ReadMsgs
  <1>21. ASSUME NEW u \in Users, NEW m \in DOMAIN msgs, DeleteLocal(u, m) PROVE AllFresh
    BY <1>21, HideMsgs
  <1>22. ASSUME NEW u \in Users, NEW v \in Users, AddToBlacklist(u, v) PROVE AllFresh
    BY <1>22 DEF AddToBlacklist, chatVars
  <1>23. ASSUME NEW u \in Users, NEW v \in Users, RemoveFromBlacklist(u, v) PROVE AllFresh
    BY <1>23 DEF RemoveFromBlacklist, chatVars
  <1>24. ASSUME Tick PROVE AllFresh
    BY <1>24 DEF Tick, chatVars
  <1>25. CASE UNCHANGED vars
    BY <1>25 DEF vars
  <1> HIDE DEF AllFresh
  <1> QED
    BY <1>1, <1>2, <1>3, <1>4, <1>5, <1>6, <1>7, <1>8, <1>9, <1>10, <1>11, <1>12, <1>13, <1>14,
         <1>15, <1>16, <1>17, <1>18, <1>19, <1>20, <1>21, <1>22, <1>23, <1>24, <1>25 DEF Next

LEMMA PairStep ==
  ASSUME TypeOK, PairInv, MineInv, PhaseInv, CastInv, [Next]_vars
  PROVE  Paired'
  <1>0. SessionType /\ CastType /\ PageType /\ StoreType
    BY Types
  <1>00. \A s \in Sessions : at[s] \notin {"idle", "next", "report"} => ChatOf(s) \in Chats
    BY DEF PairInv, Paired
  <1>01. open \subseteq Chats
    BY <1>0 DEF StoreType
  <1> USE <1>0, <1>00, <1>01 DEF SessionType, Paired, At, GoTo, Blocking, ChatOf, Begin, castVars,
       pageVars, chatVars, historyVars
  <1>1. ASSUME NEW s \in Sessions, NEW u \in Users, NEW v \in Users, Open(s, u, v) PROVE Paired'
    BY <1>1 DEF Open
  <1>2. ASSUME NEW s \in Sessions, NEW u \in Users, NEW v \in Users, Send(s, u, v) PROVE Paired'
    BY <1>2 DEF Send
  <1>3. ASSUME NEW s \in Sessions, NEW u \in Users, NEW v \in Users, Read(s, u, v) PROVE Paired'
    BY <1>3 DEF Read
  <1>4. ASSUME NEW s \in Sessions, CheckBlock(s) PROVE Paired'
    <2>0. at[s] = "check" /\ open' = open /\ msgs' = msgs /\ text' = text /\ time' = time /\
         blocks' = blocks /\ late' = late /\ overran' = overran
      BY <1>4 DEF CheckBlock
    <2>1. CASE End(s)
      BY <2>0, <2>1 DEF End
    <2>2. CASE <<peer[s], who[s]>> \notin blocks /\ GoOn(s, IF kind[s] = "open" THEN "find" ELSE
         "insert")
      BY <2>0, <2>2 DEF GoOn
    <2> QED
      BY <1>4, <2>1, <2>2 DEF CheckBlock
  <1>5. ASSUME NEW s \in Sessions, Find(s) PROVE Paired'
    <2>0. at[s] = "find" /\ open' = open /\ msgs' = msgs /\ text' = text /\ time' = time /\
         blocks' = blocks /\ late' = late /\ overran' = overran
      BY <1>5 DEF Find
    <2>1. CASE End(s)
      BY <2>0, <2>1 DEF End
    <2>2. CASE kind[s] = "open" /\ GoOn(s, "create")
      BY <2>0, <2>2 DEF GoOn
    <2>3. CASE kind[s] # "open" /\ GoOn(s, IF ChatOf(s) \in open THEN "insert" ELSE "create")
      BY <2>0, <2>3 DEF GoOn
    <2> QED
      BY <1>5, <2>1, <2>2, <2>3 DEF Find
  <1>6. ASSUME NEW s \in Sessions, Create(s) PROVE Paired'
    <2>0. at[s] = "create" /\ msgs' = msgs /\ text' = text /\ time' = time /\ blocks' = blocks /\
         late' = late /\ overran' = overran
      BY <1>6 DEF Create
    <2>1. CASE End(s)
      BY <2>0, <2>1 DEF End
    <2>2. CASE kind[s] = "cast" /\ Fail(s) /\ broken' = [broken EXCEPT ![s] = TRUE]
      BY <2>0, <2>2 DEF Fail
    <2>3. CASE kind[s] # "open" /\ GoOn(s, "insert")
      BY <2>0, <2>3 DEF GoOn
    <2> QED
      BY <1>6, <2>1, <2>2, <2>3 DEF Create
  <1>7. ASSUME NEW s \in Sessions, Insert(s) PROVE Paired'
    BY <1>7 DEF Insert
  <1>8. ASSUME NEW s \in Sessions, Bind(s) PROVE Paired'
    <2>0. at[s] = "bind" /\ open' = open /\ msgs' = msgs /\ text' = text /\ time' = time /\
         blocks' = blocks /\ late' = late /\ overran' = overran
      BY <1>8 DEF Bind
    <2>1. CASE GoOn(s, "preview")
      BY <2>0, <2>1 DEF GoOn
    <2>2. CASE kind[s] = "cast" /\ Fail(s) /\ UNCHANGED broken
      BY <2>0, <2>2 DEF Fail
    <2>3. CASE End(s)
      BY <2>0, <2>3 DEF End
    <2> QED
      BY <1>8, <2>1, <2>2, <2>3 DEF Bind
  <1>9. ASSUME NEW s \in Sessions, Preview(s) PROVE Paired'
    <2>0. at[s] = "preview" /\ open' = open /\ msgs' = msgs /\ blocks' = blocks /\ overran' =
         overran
      BY <1>9 DEF Preview
    <2>1. CASE kind[s] = "cast" /\ counted' = [counted EXCEPT ![s] = @ \cup {peer[s]}] /\ GoTo(s,
         "next") /\ UNCHANGED <<kind, who, peer, mine, barred, todo, broken, reached, failed,
         pageVars>>
      BY <2>0, <2>1
    <2>2. CASE End(s)
      BY <2>0, <2>2 DEF End
    <2> QED
      BY <1>9, <2>1, <2>2 DEF Preview
  <1>10. ASSUME NEW s \in Sessions, Broadcast(s) PROVE Paired'
    BY <1>10 DEF Broadcast
  <1>11. ASSUME NEW s \in Sessions, NextBuyer(s) PROVE Paired'
    <2>0. at[s] = "next" /\ open' = open /\ msgs' = msgs /\ text' = text /\ time' = time /\
         blocks' = blocks /\ late' = late /\ overran' = overran /\ kind' = kind /\ who' = who /\
         mine' = mine /\ broken' = broken /\ counted' = counted /\ reached' = reached /\
         failed' = failed /\ cursor' = cursor /\ got' = got /\ due' = due
      BY <1>11 DEF NextBuyer
    <2>1. CASE (todo[s] = {} \/ broken[s]) /\ GoTo(s, "report") /\ UNCHANGED <<peer, todo, barred>>
      BY <2>0, <2>1
    <2>2. CASE ~(todo[s] = {} \/ broken[s]) /\ \E b \in todo[s] : peer' = [peer EXCEPT ![s] = b]
         /\ barred' = [barred EXCEPT ![s] = Blocking(Publisher, b)]
         /\ todo' = [todo EXCEPT ![s] = @ \ {b}] /\ GoTo(s, "find")
      <3>1. PICK b \in todo[s] : peer' = [peer EXCEPT ![s] = b] /\ at' = [at EXCEPT ![s] = "find"]
        BY <2>2
      <3>2. {who[s], b} \in Chats /\ b \in Users
        BY <2>0 DEF CastInv, PhaseInv, Chats, Buyers
      <3> QED
        BY <2>0, <3>1, <3>2
    <2> QED
      BY <1>11, <2>1, <2>2 DEF NextBuyer
  <1>12. ASSUME NEW s \in Sessions, Report(s) PROVE Paired'
    BY <1>12 DEF Report, End
  <1>13. ASSUME NEW s \in Sessions, NEW m \in DOMAIN msgs, Recall(s, m) PROVE Paired'
    <2>1. PICK w \in msgs[m].chat \ {msgs[m].by} : Begin(s, "recall", msgs[m].by, w, m,
         "withdraw")
      BY <1>13 DEF Recall
    <2>2. msgs[m].chat \in Chats /\ msgs[m].by \in msgs[m].chat
      BY MessageParts DEF PairInv
    <2>3. {msgs[m].by, w} \in Chats
      BY <2>1, <2>2 DEF Chats
    <2> QED
      BY <2>1, <2>3
  <1>14. ASSUME NEW s \in Sessions, Withdraw(s) PROVE Paired'
    BY <1>14 DEF Withdraw
  <1>15. ASSUME NEW s \in Sessions, Look(s) PROVE Paired'
    <2>0. at[s] = "look" /\ open' = open /\ msgs' = msgs /\ text' = text /\ time' = time /\
         blocks' = blocks /\ late' = late /\ overran' = overran
      BY <1>15 DEF Look
    <2>1. CASE time[ChatOf(s)] = msgs[mine[s]].second /\ GoOn(s, "cover")
      BY <2>0, <2>1 DEF GoOn
    <2>2. CASE time[ChatOf(s)] # msgs[mine[s]].second /\ End(s)
      BY <2>0, <2>2 DEF End
    <2> QED
      BY <1>15, <2>1, <2>2 DEF Look
  <1>16. ASSUME NEW s \in Sessions, Cover(s) PROVE Paired'
    BY <1>16 DEF Cover, End
  <1>17. ASSUME NEW s \in Sessions, Page(s) PROVE Paired'
    <2>1. at[s] = "page" /\ kind' = kind /\ who' = who /\ peer' = peer /\ mine' = mine /\ barred'
         = barred
      BY <1>17 DEF Page
    <2>2. at' = at \/ at' = [at EXCEPT ![s] = "paged"]
      BY <1>17 DEF Page
    <2> QED
      BY <2>1, <2>2
  <1>18. ASSUME NEW s \in Sessions, Paged(s) PROVE Paired'
    BY <1>18 DEF Paged, End
  <1>19. ASSUME NEW s \in Sessions, Stop(s) PROVE Paired'
    BY <1>19 DEF Stop, End
  <1>20. ASSUME NEW u \in Users, NEW c \in Chats, MarkRead(u, c) PROVE Paired'
    BY <1>20 DEF MarkRead
  <1>21. ASSUME NEW u \in Users, NEW m \in DOMAIN msgs, DeleteLocal(u, m) PROVE Paired'
    BY <1>21 DEF DeleteLocal
  <1>22. ASSUME NEW u \in Users, NEW v \in Users, AddToBlacklist(u, v) PROVE Paired'
    BY <1>22 DEF AddToBlacklist
  <1>23. ASSUME NEW u \in Users, NEW v \in Users, RemoveFromBlacklist(u, v) PROVE Paired'
    BY <1>23 DEF RemoveFromBlacklist
  <1>24. ASSUME Tick PROVE Paired'
    BY <1>24 DEF Tick
  <1>25. CASE UNCHANGED vars
    BY <1>25 DEF vars
  <1> HIDE DEF SessionType, Paired
  <1> QED
    BY <1>1, <1>2, <1>3, <1>4, <1>5, <1>6, <1>7, <1>8, <1>9, <1>10, <1>11, <1>12, <1>13, <1>14,
         <1>15, <1>16, <1>17, <1>18, <1>19, <1>20, <1>21, <1>22, <1>23, <1>24, <1>25 DEF Next

LEMMA ForgottenStep ==
  ASSUME TypeOK, PhaseInv, ForgottenInv, [Next]_vars
  PROVE  ForgottenInv'
  <1>0. SessionType /\ CastType /\ PageType /\ StoreType
    BY Types
  <1> USE <1>0 DEF ForgottenInv, SessionType, CastType, PageType, At, GoTo, Blocking, ChatOf,
       Begin, castVars, pageVars, chatVars, historyVars
  <1>1. ASSUME NEW s \in Sessions, NEW u \in Users, NEW v \in Users, Open(s, u, v) PROVE
       ForgottenInv'
    BY <1>1 DEF Open
  <1>2. ASSUME NEW s \in Sessions, NEW u \in Users, NEW v \in Users, Send(s, u, v) PROVE
       ForgottenInv'
    BY <1>2 DEF Send
  <1>3. ASSUME NEW s \in Sessions, NEW u \in Users, NEW v \in Users, Read(s, u, v) PROVE
       ForgottenInv'
    BY <1>3 DEF Read
  <1>4. ASSUME NEW s \in Sessions, CheckBlock(s) PROVE ForgottenInv'
    <2>0. at[s] = "check" /\ open' = open /\ msgs' = msgs /\ text' = text /\ time' = time /\
         blocks' = blocks /\ late' = late /\ overran' = overran
      BY <1>4 DEF CheckBlock
    <2>1. CASE End(s)
      BY <2>0, <2>1 DEF End
    <2>2. CASE <<peer[s], who[s]>> \notin blocks /\ GoOn(s, IF kind[s] = "open" THEN "find" ELSE
         "insert")
      BY <2>0, <2>2 DEF GoOn
    <2> QED
      BY <1>4, <2>1, <2>2 DEF CheckBlock
  <1>5. ASSUME NEW s \in Sessions, Find(s) PROVE ForgottenInv'
    <2>0. at[s] = "find" /\ open' = open /\ msgs' = msgs /\ text' = text /\ time' = time /\
         blocks' = blocks /\ late' = late /\ overran' = overran
      BY <1>5 DEF Find
    <2>1. CASE End(s)
      BY <2>0, <2>1 DEF End
    <2>2. CASE kind[s] = "open" /\ GoOn(s, "create")
      BY <2>0, <2>2 DEF GoOn
    <2>3. CASE kind[s] # "open" /\ GoOn(s, IF ChatOf(s) \in open THEN "insert" ELSE "create")
      BY <2>0, <2>3 DEF GoOn
    <2> QED
      BY <1>5, <2>1, <2>2, <2>3 DEF Find
  <1>6. ASSUME NEW s \in Sessions, Create(s) PROVE ForgottenInv'
    <2>0. at[s] = "create" /\ msgs' = msgs /\ text' = text /\ time' = time /\ blocks' = blocks /\
         late' = late /\ overran' = overran
      BY <1>6 DEF Create
    <2>1. CASE End(s)
      BY <2>0, <2>1 DEF End
    <2>2. CASE kind[s] = "cast" /\ Fail(s) /\ broken' = [broken EXCEPT ![s] = TRUE]
      BY <2>0, <2>2 DEF Fail
    <2>3. CASE kind[s] # "open" /\ GoOn(s, "insert")
      BY <2>0, <2>3 DEF GoOn
    <2> QED
      BY <1>6, <2>1, <2>2, <2>3 DEF Create
  <1>7. ASSUME NEW s \in Sessions, Insert(s) PROVE ForgottenInv'
    BY <1>7 DEF Insert
  <1>8. ASSUME NEW s \in Sessions, Bind(s) PROVE ForgottenInv'
    <2>0. at[s] = "bind" /\ open' = open /\ msgs' = msgs /\ text' = text /\ time' = time /\
         blocks' = blocks /\ late' = late /\ overran' = overran
      BY <1>8 DEF Bind
    <2>1. CASE GoOn(s, "preview")
      BY <2>0, <2>1 DEF GoOn
    <2>2. CASE kind[s] = "cast" /\ Fail(s) /\ UNCHANGED broken
      BY <2>0, <2>2 DEF Fail
    <2>3. CASE End(s)
      BY <2>0, <2>3 DEF End
    <2> QED
      BY <1>8, <2>1, <2>2, <2>3 DEF Bind
  <1>9. ASSUME NEW s \in Sessions, Preview(s) PROVE ForgottenInv'
    <2>0. at[s] = "preview" /\ open' = open /\ msgs' = msgs /\ blocks' = blocks /\ overran' =
         overran
      BY <1>9 DEF Preview
    <2>1. CASE kind[s] = "cast" /\ counted' = [counted EXCEPT ![s] = @ \cup {peer[s]}] /\ GoTo(s,
         "next") /\ UNCHANGED <<kind, who, peer, mine, barred, todo, broken, reached, failed,
         pageVars>>
      BY <2>0, <2>1
    <2>2. CASE End(s)
      BY <2>0, <2>2 DEF End
    <2> QED
      BY <1>9, <2>1, <2>2 DEF Preview
  <1>10. ASSUME NEW s \in Sessions, Broadcast(s) PROVE ForgottenInv'
    BY <1>10 DEF Broadcast
  <1>11. ASSUME NEW s \in Sessions, NextBuyer(s) PROVE ForgottenInv'
    <2>0. at[s] = "next" /\ open' = open /\ msgs' = msgs /\ text' = text /\ time' = time /\
         blocks' = blocks /\ late' = late /\ overran' = overran /\ kind' = kind /\ who' = who /\
         mine' = mine /\ broken' = broken /\ counted' = counted /\ reached' = reached /\
         failed' = failed /\ cursor' = cursor /\ got' = got /\ due' = due
      BY <1>11 DEF NextBuyer
    <2>1. CASE (todo[s] = {} \/ broken[s]) /\ GoTo(s, "report") /\ UNCHANGED <<peer, todo, barred>>
      BY <2>0, <2>1
    <2>2. CASE ~(todo[s] = {} \/ broken[s]) /\ \E b \in todo[s] : peer' = [peer EXCEPT ![s] = b]
         /\ barred' = [barred EXCEPT ![s] = Blocking(Publisher, b)]
         /\ todo' = [todo EXCEPT ![s] = @ \ {b}] /\ GoTo(s, "find")
      BY <2>0, <2>2
    <2> QED
      BY <1>11, <2>1, <2>2 DEF NextBuyer
  <1>12. ASSUME NEW s \in Sessions, Report(s) PROVE ForgottenInv'
    BY <1>12 DEF Report, End
  <1>13. ASSUME NEW s \in Sessions, NEW m \in DOMAIN msgs, Recall(s, m) PROVE ForgottenInv'
    BY <1>13 DEF Recall
  <1>14. ASSUME NEW s \in Sessions, Withdraw(s) PROVE ForgottenInv'
    BY <1>14 DEF Withdraw
  <1>15. ASSUME NEW s \in Sessions, Look(s) PROVE ForgottenInv'
    <2>0. at[s] = "look" /\ open' = open /\ msgs' = msgs /\ text' = text /\ time' = time /\
         blocks' = blocks /\ late' = late /\ overran' = overran
      BY <1>15 DEF Look
    <2>1. CASE time[ChatOf(s)] = msgs[mine[s]].second /\ GoOn(s, "cover")
      BY <2>0, <2>1 DEF GoOn
    <2>2. CASE time[ChatOf(s)] # msgs[mine[s]].second /\ End(s)
      BY <2>0, <2>2 DEF End
    <2> QED
      BY <1>15, <2>1, <2>2 DEF Look
  <1>16. ASSUME NEW s \in Sessions, Cover(s) PROVE ForgottenInv'
    BY <1>16 DEF Cover, End
  <1>17. ASSUME NEW s \in Sessions, Page(s) PROVE ForgottenInv'
    <2>1. at[s] = "page" /\ kind' = kind /\ who' = who /\ peer' = peer /\ due' = due /\ todo' =
         todo
          /\ broken' = broken /\ counted' = counted /\ reached' = reached /\ failed' = failed
      BY <1>17 DEF Page
    <2>2. at' = at \/ at' = [at EXCEPT ![s] = "paged"]
      BY <1>17 DEF Page
    <2>3. \A t \in Sessions : t # s => got'[t] = got[t]
      BY <1>17 DEF Page
    <2> QED
      BY <1>17, <2>1, <2>2, <2>3
  <1>18. ASSUME NEW s \in Sessions, Paged(s) PROVE ForgottenInv'
    BY <1>18 DEF Paged, End
  <1>19. ASSUME NEW s \in Sessions, Stop(s) PROVE ForgottenInv'
    BY <1>19 DEF Stop, End
  <1>20. ASSUME NEW u \in Users, NEW c \in Chats, MarkRead(u, c) PROVE ForgottenInv'
    BY <1>20 DEF MarkRead
  <1>21. ASSUME NEW u \in Users, NEW m \in DOMAIN msgs, DeleteLocal(u, m) PROVE ForgottenInv'
    BY <1>21 DEF DeleteLocal
  <1>22. ASSUME NEW u \in Users, NEW v \in Users, AddToBlacklist(u, v) PROVE ForgottenInv'
    BY <1>22 DEF AddToBlacklist
  <1>23. ASSUME NEW u \in Users, NEW v \in Users, RemoveFromBlacklist(u, v) PROVE ForgottenInv'
    BY <1>23 DEF RemoveFromBlacklist
  <1>24. ASSUME Tick PROVE ForgottenInv'
    BY <1>24 DEF Tick
  <1>25. CASE UNCHANGED vars
    BY <1>25 DEF vars
  <1> HIDE DEF ForgottenInv, SessionType, CastType, PageType
  <1> QED
    BY <1>1, <1>2, <1>3, <1>4, <1>5, <1>6, <1>7, <1>8, <1>9, <1>10, <1>11, <1>12, <1>13, <1>14,
         <1>15, <1>16, <1>17, <1>18, <1>19, <1>20, <1>21, <1>22, <1>23, <1>24, <1>25 DEF Next

LEMMA MineStep ==
  ASSUME TypeOK, PairInv, PhaseInv, MineInv, Grown, [Next]_vars
  PROVE  MineInv'
  <1>0. SessionType /\ CastType /\ PageType /\ StoreType
    BY Types
  <1>01. \A m \in DOMAIN msgs : /\ m \in DOMAIN msgs' /\ msgs'[m].chat = msgs[m].chat
                                /\ msgs[m].recalled => msgs'[m].recalled
    BY DEF Grown, Lasting
  <1> USE <1>0, <1>01 DEF MineInv, SessionType, At, GoTo, Blocking, ChatOf, Begin, castVars,
       pageVars, chatVars, historyVars
  <1>1. ASSUME NEW s \in Sessions, NEW u \in Users, NEW v \in Users, Open(s, u, v) PROVE MineInv'
    BY <1>1 DEF Open
  <1>2. ASSUME NEW s \in Sessions, NEW u \in Users, NEW v \in Users, Send(s, u, v) PROVE MineInv'
    BY <1>2 DEF Send
  <1>3. ASSUME NEW s \in Sessions, NEW u \in Users, NEW v \in Users, Read(s, u, v) PROVE MineInv'
    BY <1>3 DEF Read
  <1>4. ASSUME NEW s \in Sessions, CheckBlock(s) PROVE MineInv'
    <2>0. at[s] = "check" /\ open' = open /\ msgs' = msgs /\ text' = text /\ time' = time /\
         blocks' = blocks /\ late' = late /\ overran' = overran
      BY <1>4 DEF CheckBlock
    <2>1. CASE End(s)
      BY <2>0, <2>1 DEF End
    <2>2. CASE <<peer[s], who[s]>> \notin blocks /\ GoOn(s, IF kind[s] = "open" THEN "find" ELSE
         "insert")
      BY <2>0, <2>2 DEF GoOn
    <2> QED
      BY <1>4, <2>1, <2>2 DEF CheckBlock
  <1>5. ASSUME NEW s \in Sessions, Find(s) PROVE MineInv'
    <2>0. at[s] = "find" /\ open' = open /\ msgs' = msgs /\ text' = text /\ time' = time /\
         blocks' = blocks /\ late' = late /\ overran' = overran
      BY <1>5 DEF Find
    <2>1. CASE End(s)
      BY <2>0, <2>1 DEF End
    <2>2. CASE kind[s] = "open" /\ GoOn(s, "create")
      BY <2>0, <2>2 DEF GoOn
    <2>3. CASE kind[s] # "open" /\ GoOn(s, IF ChatOf(s) \in open THEN "insert" ELSE "create")
      BY <2>0, <2>3 DEF GoOn
    <2> QED
      BY <1>5, <2>1, <2>2, <2>3 DEF Find
  <1>6. ASSUME NEW s \in Sessions, Create(s) PROVE MineInv'
    <2>0. at[s] = "create" /\ msgs' = msgs /\ text' = text /\ time' = time /\ blocks' = blocks /\
         late' = late /\ overran' = overran
      BY <1>6 DEF Create
    <2>1. CASE End(s)
      BY <2>0, <2>1 DEF End
    <2>2. CASE kind[s] = "cast" /\ Fail(s) /\ broken' = [broken EXCEPT ![s] = TRUE]
      BY <2>0, <2>2 DEF Fail
    <2>3. CASE kind[s] # "open" /\ GoOn(s, "insert")
      BY <2>0, <2>3 DEF GoOn
    <2> QED
      BY <1>6, <2>1, <2>2, <2>3 DEF Create
  <1>7. ASSUME NEW s \in Sessions, Insert(s) PROVE MineInv'
    BY <1>7, InsertMsgs DEF Insert
  <1>8. ASSUME NEW s \in Sessions, Bind(s) PROVE MineInv'
    <2>0. at[s] = "bind" /\ open' = open /\ msgs' = msgs /\ text' = text /\ time' = time /\
         blocks' = blocks /\ late' = late /\ overran' = overran
      BY <1>8 DEF Bind
    <2>1. CASE GoOn(s, "preview")
      BY <2>0, <2>1 DEF GoOn
    <2>2. CASE kind[s] = "cast" /\ Fail(s) /\ UNCHANGED broken
      BY <2>0, <2>2 DEF Fail
    <2>3. CASE End(s)
      BY <2>0, <2>3 DEF End
    <2> QED
      BY <1>8, <2>1, <2>2, <2>3 DEF Bind
  <1>9. ASSUME NEW s \in Sessions, Preview(s) PROVE MineInv'
    <2>0. at[s] = "preview" /\ open' = open /\ msgs' = msgs /\ blocks' = blocks /\ overran' =
         overran
      BY <1>9 DEF Preview
    <2>1. CASE kind[s] = "cast" /\ counted' = [counted EXCEPT ![s] = @ \cup {peer[s]}] /\ GoTo(s,
         "next") /\ UNCHANGED <<kind, who, peer, mine, barred, todo, broken, reached, failed,
         pageVars>>
      BY <2>0, <2>1
    <2>2. CASE End(s)
      BY <2>0, <2>2 DEF End
    <2> QED
      BY <1>9, <2>1, <2>2 DEF Preview
  <1>10. ASSUME NEW s \in Sessions, Broadcast(s) PROVE MineInv'
    BY <1>10 DEF Broadcast
  <1>11. ASSUME NEW s \in Sessions, NextBuyer(s) PROVE MineInv'
    <2>0. at[s] = "next" /\ open' = open /\ msgs' = msgs /\ text' = text /\ time' = time /\
         blocks' = blocks /\ late' = late /\ overran' = overran /\ kind' = kind /\ who' = who /\
         mine' = mine /\ broken' = broken /\ counted' = counted /\ reached' = reached /\
         failed' = failed /\ cursor' = cursor /\ got' = got /\ due' = due
      BY <1>11 DEF NextBuyer
    <2>1. CASE (todo[s] = {} \/ broken[s]) /\ GoTo(s, "report") /\ UNCHANGED <<peer, todo, barred>>
      BY <2>0, <2>1
    <2>2. CASE ~(todo[s] = {} \/ broken[s]) /\ \E b \in todo[s] : peer' = [peer EXCEPT ![s] = b]
         /\ barred' = [barred EXCEPT ![s] = Blocking(Publisher, b)]
         /\ todo' = [todo EXCEPT ![s] = @ \ {b}] /\ GoTo(s, "find")
      BY <2>0, <2>2
    <2> QED
      BY <1>11, <2>1, <2>2 DEF NextBuyer
  <1>12. ASSUME NEW s \in Sessions, Report(s) PROVE MineInv'
    BY <1>12 DEF Report, End
  <1>13. ASSUME NEW s \in Sessions, NEW m \in DOMAIN msgs, Recall(s, m) PROVE MineInv'
    <2>1. PICK w \in msgs[m].chat \ {msgs[m].by} : Begin(s, "recall", msgs[m].by, w, m,
         "withdraw")
      BY <1>13 DEF Recall
    <2>2. msgs[m].chat \in Chats /\ msgs[m].by \in msgs[m].chat
      BY MessageParts DEF PairInv
    <2>3. {msgs[m].by, w} = msgs[m].chat
      BY <2>1, <2>2 DEF Chats
    <2> QED
      BY <2>1, <2>2, <2>3
  <1>14. ASSUME NEW s \in Sessions, Withdraw(s) PROVE MineInv'
    BY <1>14, WithdrawMsgs DEF Withdraw
  <1>15. ASSUME NEW s \in Sessions, Look(s) PROVE MineInv'
    <2>0. at[s] = "look" /\ open' = open /\ msgs' = msgs /\ text' = text /\ time' = time /\
         blocks' = blocks /\ late' = late /\ overran' = overran
      BY <1>15 DEF Look
    <2>1. CASE time[ChatOf(s)] = msgs[mine[s]].second /\ GoOn(s, "cover")
      BY <2>0, <2>1 DEF GoOn
    <2>2. CASE time[ChatOf(s)] # msgs[mine[s]].second /\ End(s)
      BY <2>0, <2>2 DEF End
    <2> QED
      BY <1>15, <2>1, <2>2 DEF Look
  <1>16. ASSUME NEW s \in Sessions, Cover(s) PROVE MineInv'
    BY <1>16 DEF Cover, End
  <1>17. ASSUME NEW s \in Sessions, Page(s) PROVE MineInv'
    <2>1. at[s] = "page" /\ kind' = kind /\ who' = who /\ peer' = peer /\ mine' = mine /\ barred'
         = barred
      BY <1>17 DEF Page
    <2>2. at' = at \/ at' = [at EXCEPT ![s] = "paged"]
      BY <1>17 DEF Page
    <2> QED
      BY <2>1, <2>2
  <1>18. ASSUME NEW s \in Sessions, Paged(s) PROVE MineInv'
    BY <1>18 DEF Paged, End
  <1>19. ASSUME NEW s \in Sessions, Stop(s) PROVE MineInv'
    BY <1>19 DEF Stop, End
  <1>20. ASSUME NEW u \in Users, NEW c \in Chats, MarkRead(u, c) PROVE MineInv'
    BY <1>20 DEF MarkRead
  <1>21. ASSUME NEW u \in Users, NEW m \in DOMAIN msgs, DeleteLocal(u, m) PROVE MineInv'
    BY <1>21 DEF DeleteLocal
  <1>22. ASSUME NEW u \in Users, NEW v \in Users, AddToBlacklist(u, v) PROVE MineInv'
    BY <1>22 DEF AddToBlacklist
  <1>23. ASSUME NEW u \in Users, NEW v \in Users, RemoveFromBlacklist(u, v) PROVE MineInv'
    BY <1>23 DEF RemoveFromBlacklist
  <1>24. ASSUME Tick PROVE MineInv'
    BY <1>24 DEF Tick
  <1>25. CASE UNCHANGED vars
    BY <1>25 DEF vars
  <1> HIDE DEF MineInv, SessionType
  <1> QED
    BY <1>1, <1>2, <1>3, <1>4, <1>5, <1>6, <1>7, <1>8, <1>9, <1>10, <1>11, <1>12, <1>13, <1>14,
         <1>15, <1>16, <1>17, <1>18, <1>19, <1>20, <1>21, <1>22, <1>23, <1>24, <1>25 DEF Next

LEMMA BlockingOf ==
  ASSUME NEW u, NEW v, u # v
  PROVE  /\ Blocking(u, v) \subseteq {u, v}
         /\ v \in Blocking(u, v) => <<v, u>> \in blocks
  <1>1. (CHOOSE y \in {u, v} : y # v) = u
    OBVIOUS
  <1> QED
    BY <1>1 DEF Blocking

LEMMA BarredStep ==
  ASSUME TypeOK, PhaseInv, BarredInv, [Next]_vars
  PROVE  BarredInv'
  <1>0. SessionType /\ CastType /\ PageType /\ StoreType
    BY Types
  <1> USE <1>0 DEF BarredInv, SessionType, At, GoTo, ChatOf, Begin, castVars, pageVars, chatVars,
       historyVars
  <1>1. ASSUME NEW s \in Sessions, NEW u \in Users, NEW v \in Users, Open(s, u, v) PROVE
       BarredInv'
    BY <1>1 DEF Open
  <1>2. ASSUME NEW s \in Sessions, NEW u \in Users, NEW v \in Users, Send(s, u, v) PROVE
       BarredInv'
    <2>1. u # v
      <3>1. {u, v} \in Chats
        BY <1>2 DEF Send, StoreType
      <3> QED
        BY <3>1, ChatParts
    <2> DEFINE B == Blocking(u, v)
    <2>2. B \subseteq {u, v} /\ (v \in B => <<v, u>> \in blocks)
      BY <2>1, BlockingOf
    <2>3. /\ at' = [at EXCEPT ![s] = "check"] /\ kind' = [kind EXCEPT ![s] = "send"]
          /\ who' = [who EXCEPT ![s] = u] /\ peer' = [peer EXCEPT ![s] = v]
          /\ barred' = [barred EXCEPT ![s] = B] /\ blocks' = blocks
      BY <1>2, <2>1 DEF Send
    <2> HIDE DEF B
    <2> QED
      BY <2>2, <2>3
  <1>3. ASSUME NEW s \in Sessions, NEW u \in Users, NEW v \in Users, Read(s, u, v) PROVE
       BarredInv'
    BY <1>3 DEF Read
  <1>4. ASSUME NEW s \in Sessions, CheckBlock(s) PROVE BarredInv'
    <2>0. at[s] = "check" /\ open' = open /\ msgs' = msgs /\ text' = text /\ time' = time /\
         blocks' = blocks /\ late' = late /\ overran' = overran
      BY <1>4 DEF CheckBlock
    <2>1. CASE End(s)
      BY <2>0, <2>1 DEF End
    <2>2. CASE <<peer[s], who[s]>> \notin blocks /\ GoOn(s, IF kind[s] = "open" THEN "find" ELSE
         "insert")
      BY <2>0, <2>2 DEF GoOn
    <2> QED
      BY <1>4, <2>1, <2>2 DEF CheckBlock
  <1>5. ASSUME NEW s \in Sessions, Find(s) PROVE BarredInv'
    <2>0. at[s] = "find" /\ open' = open /\ msgs' = msgs /\ text' = text /\ time' = time /\
         blocks' = blocks /\ late' = late /\ overran' = overran
      BY <1>5 DEF Find
    <2>1. CASE End(s)
      BY <2>0, <2>1 DEF End
    <2>2. CASE kind[s] = "open" /\ GoOn(s, "create")
      BY <2>0, <2>2 DEF GoOn
    <2>3. CASE kind[s] # "open" /\ GoOn(s, IF ChatOf(s) \in open THEN "insert" ELSE "create")
      BY <2>0, <2>3 DEF GoOn
    <2> QED
      BY <1>5, <2>1, <2>2, <2>3 DEF Find
  <1>6. ASSUME NEW s \in Sessions, Create(s) PROVE BarredInv'
    <2>0. at[s] = "create" /\ msgs' = msgs /\ text' = text /\ time' = time /\ blocks' = blocks /\
         late' = late /\ overran' = overran
      BY <1>6 DEF Create
    <2>1. CASE End(s)
      BY <2>0, <2>1 DEF End
    <2>2. CASE kind[s] = "cast" /\ Fail(s) /\ broken' = [broken EXCEPT ![s] = TRUE]
      BY <2>0, <2>2 DEF Fail
    <2>3. CASE kind[s] # "open" /\ GoOn(s, "insert")
      BY <2>0, <2>3 DEF GoOn
    <2> QED
      BY <1>6, <2>1, <2>2, <2>3 DEF Create
  <1>7. ASSUME NEW s \in Sessions, Insert(s) PROVE BarredInv'
    BY <1>7 DEF Insert
  <1>8. ASSUME NEW s \in Sessions, Bind(s) PROVE BarredInv'
    <2>0. at[s] = "bind" /\ open' = open /\ msgs' = msgs /\ text' = text /\ time' = time /\
         blocks' = blocks /\ late' = late /\ overran' = overran
      BY <1>8 DEF Bind
    <2>1. CASE GoOn(s, "preview")
      BY <2>0, <2>1 DEF GoOn
    <2>2. CASE kind[s] = "cast" /\ Fail(s) /\ UNCHANGED broken
      BY <2>0, <2>2 DEF Fail
    <2>3. CASE End(s)
      BY <2>0, <2>3 DEF End
    <2> QED
      BY <1>8, <2>1, <2>2, <2>3 DEF Bind
  <1>9. ASSUME NEW s \in Sessions, Preview(s) PROVE BarredInv'
    <2>0. at[s] = "preview" /\ open' = open /\ msgs' = msgs /\ blocks' = blocks /\ overran' =
         overran
      BY <1>9 DEF Preview
    <2>1. CASE kind[s] = "cast" /\ counted' = [counted EXCEPT ![s] = @ \cup {peer[s]}] /\ GoTo(s,
         "next") /\ UNCHANGED <<kind, who, peer, mine, barred, todo, broken, reached, failed,
         pageVars>>
      BY <2>0, <2>1
    <2>2. CASE End(s)
      BY <2>0, <2>2 DEF End
    <2> QED
      BY <1>9, <2>1, <2>2 DEF Preview
  <1>10. ASSUME NEW s \in Sessions, Broadcast(s) PROVE BarredInv'
    BY <1>10 DEF Broadcast
  <1>11. ASSUME NEW s \in Sessions, NextBuyer(s) PROVE BarredInv'
    <2>0. at[s] = "next" /\ open' = open /\ msgs' = msgs /\ text' = text /\ time' = time /\
         blocks' = blocks /\ late' = late /\ overran' = overran /\ kind' = kind /\ who' = who /\
         mine' = mine /\ broken' = broken /\ counted' = counted /\ reached' = reached /\
         failed' = failed /\ cursor' = cursor /\ got' = got /\ due' = due
      BY <1>11 DEF NextBuyer
    <2>1. CASE (todo[s] = {} \/ broken[s]) /\ GoTo(s, "report") /\ UNCHANGED <<peer, todo, barred>>
      BY <2>0, <2>1
    <2>2. CASE ~(todo[s] = {} \/ broken[s]) /\ \E b \in todo[s] : peer' = [peer EXCEPT ![s] = b]
         /\ barred' = [barred EXCEPT ![s] = Blocking(Publisher, b)]
         /\ todo' = [todo EXCEPT ![s] = @ \ {b}] /\ GoTo(s, "find")
      <3>1. PICK b \in todo[s] : /\ peer' = [peer EXCEPT ![s] = b] /\ at' = [at EXCEPT ![s] = "find"]
                                 /\ barred' = [barred EXCEPT ![s] = Blocking(Publisher, b)]
        BY <2>2
      <3>2. kind[s] # "send"
        BY <2>0 DEF PhaseInv
      <3> QED
        BY <2>0, <3>1, <3>2
    <2> QED
      BY <1>11, <2>1, <2>2 DEF NextBuyer
  <1>12. ASSUME NEW s \in Sessions, Report(s) PROVE BarredInv'
    BY <1>12 DEF Report, End
  <1>13. ASSUME NEW s \in Sessions, NEW m \in DOMAIN msgs, Recall(s, m) PROVE BarredInv'
    BY <1>13 DEF Recall
  <1>14. ASSUME NEW s \in Sessions, Withdraw(s) PROVE BarredInv'
    BY <1>14 DEF Withdraw
  <1>15. ASSUME NEW s \in Sessions, Look(s) PROVE BarredInv'
    <2>0. at[s] = "look" /\ open' = open /\ msgs' = msgs /\ text' = text /\ time' = time /\
         blocks' = blocks /\ late' = late /\ overran' = overran
      BY <1>15 DEF Look
    <2>1. CASE time[ChatOf(s)] = msgs[mine[s]].second /\ GoOn(s, "cover")
      BY <2>0, <2>1 DEF GoOn
    <2>2. CASE time[ChatOf(s)] # msgs[mine[s]].second /\ End(s)
      BY <2>0, <2>2 DEF End
    <2> QED
      BY <1>15, <2>1, <2>2 DEF Look
  <1>16. ASSUME NEW s \in Sessions, Cover(s) PROVE BarredInv'
    BY <1>16 DEF Cover, End
  <1>17. ASSUME NEW s \in Sessions, Page(s) PROVE BarredInv'
    <2>1. at[s] = "page" /\ kind' = kind /\ who' = who /\ peer' = peer /\ mine' = mine /\ barred'
         = barred /\ blocks' = blocks
      BY <1>17 DEF Page
    <2>2. at' = at \/ at' = [at EXCEPT ![s] = "paged"]
      BY <1>17 DEF Page
    <2> QED
      BY <2>1, <2>2
  <1>18. ASSUME NEW s \in Sessions, Paged(s) PROVE BarredInv'
    BY <1>18 DEF Paged, End
  <1>19. ASSUME NEW s \in Sessions, Stop(s) PROVE BarredInv'
    BY <1>19 DEF Stop, End
  <1>20. ASSUME NEW u \in Users, NEW c \in Chats, MarkRead(u, c) PROVE BarredInv'
    BY <1>20 DEF MarkRead
  <1>21. ASSUME NEW u \in Users, NEW m \in DOMAIN msgs, DeleteLocal(u, m) PROVE BarredInv'
    BY <1>21 DEF DeleteLocal
  <1>22. ASSUME NEW u \in Users, NEW v \in Users, AddToBlacklist(u, v) PROVE BarredInv'
    BY <1>22 DEF AddToBlacklist
  <1>23. ASSUME NEW u \in Users, NEW v \in Users, RemoveFromBlacklist(u, v) PROVE BarredInv'
    <2>1. /\ blocks' = blocks \ {<<u, v>>} /\ at' = at /\ kind' = kind /\ who' = who /\ peer' =
               peer
          /\ \A s \in Sessions : barred'[s] = IF ChatOf(s) = {u, v} THEN barred[s] \ {u} ELSE
               barred[s]
      BY <1>23 DEF RemoveFromBlacklist
    <2> SUFFICES ASSUME NEW s \in Sessions, kind[s] = "send"
                 PROVE  /\ barred'[s] \subseteq {who[s], peer[s]}
                        /\ peer[s] \in barred'[s] => <<peer[s], who[s]>> \in blocks'
                        /\ at[s] # "check" => peer[s] \notin barred'[s]
      BY <2>1
    <2>2. barred'[s] \subseteq barred[s]
      BY <2>1
    <2>3. peer[s] = u /\ who[s] = v => peer[s] \notin barred'[s]
      BY <2>1
    <2> QED
      BY <2>1, <2>2, <2>3
  <1>24. ASSUME Tick PROVE BarredInv'
    BY <1>24 DEF Tick
  <1>25. CASE UNCHANGED vars
    BY <1>25 DEF vars
  <1> HIDE DEF BarredInv, SessionType
  <1> QED
    BY <1>1, <1>2, <1>3, <1>4, <1>5, <1>6, <1>7, <1>8, <1>9, <1>10, <1>11, <1>12, <1>13, <1>14,
         <1>15, <1>16, <1>17, <1>18, <1>19, <1>20, <1>21, <1>22, <1>23, <1>24, <1>25 DEF Next

LEMMA BlockStep ==
  ASSUME TypeOK, PairInv, MineInv, PhaseInv, BarredInv, BlockHolds, Grown, AllFresh
  PROVE  BlockHolds'
  <1> SUFFICES ASSUME NEW m \in DOMAIN msgs', ~msgs'[m].cast
               PROVE  msgs'[m].barred \subseteq {msgs'[m].by}
    BY DEF BlockHolds
  <1>1. CASE m \in DOMAIN msgs
    BY <1>1 DEF BlockHolds, Grown, Lasting
  <1>2. CASE m \notin DOMAIN msgs
    <2>1. PICK s \in Sessions :
              /\ at[s] = "insert" /\ msgs'[m].by = who[s]
              /\ msgs'[m].barred = barred[s] /\ msgs'[m].cast = (kind[s] = "cast")
      BY <1>2 DEF AllFresh, Fresh
    <2>2. kind[s] = "send"
      <3>1. kind[s] \in {"none", "open", "send", "cast", "recall", "read"}
        BY DEF TypeOK
      <3> QED
        BY <2>1, <3>1 DEF PhaseInv
    <2>3. barred[s] \subseteq {who[s], peer[s]} /\ peer[s] \notin barred[s]
      BY <2>1, <2>2 DEF BarredInv
    <2> QED
      BY <2>1, <2>3
  <1> QED
    BY <1>1, <1>2

LEMMA CastStep ==
  ASSUME TypeOK, PhaseInv, ForgottenInv, CastInv, [Next]_vars
  PROVE  CastInv'
  <1>0. SessionType /\ CastType /\ PageType /\ StoreType
    BY Types
  <1>00. \A s \in Sessions :
             /\ kind[s] = "cast" =>
                   at[s] \notin {"check", "withdraw", "look", "cover", "page", "paged"}
             /\ at[s] \in {"next", "report"} => kind[s] = "cast"
    BY <1>0 DEF PhaseInv, SessionType
  <1> USE <1>0, <1>00 DEF CastInv, SessionType, CastType, Buyers, At, GoTo, ChatOf, Begin,
       castVars, pageVars, chatVars, historyVars
  <1>1. ASSUME NEW s \in Sessions, NEW u \in Users, NEW v \in Users, Open(s, u, v) PROVE CastInv'
    BY <1>1 DEF Open
  <1>2. ASSUME NEW s \in Sessions, NEW u \in Users, NEW v \in Users, Send(s, u, v) PROVE CastInv'
    BY <1>2 DEF Send
  <1>3. ASSUME NEW s \in Sessions, NEW u \in Users, NEW v \in Users, Read(s, u, v) PROVE CastInv'
    BY <1>3 DEF Read
  <1>4. ASSUME NEW s \in Sessions, CheckBlock(s) PROVE CastInv'
    <2>0. at[s] = "check" /\ open' = open /\ msgs' = msgs /\ text' = text /\ time' = time /\
         blocks' = blocks /\ late' = late /\ overran' = overran
      BY <1>4 DEF CheckBlock
    <2>1. CASE End(s)
      BY <2>0, <2>1 DEF End
    <2>2. CASE <<peer[s], who[s]>> \notin blocks /\ GoOn(s, IF kind[s] = "open" THEN "find" ELSE
         "insert")
      BY <2>0, <2>2 DEF GoOn
    <2> QED
      BY <1>4, <2>1, <2>2 DEF CheckBlock
  <1>5. ASSUME NEW s \in Sessions, Find(s) PROVE CastInv'
    <2>0. at[s] = "find" /\ open' = open /\ msgs' = msgs /\ text' = text /\ time' = time /\
         blocks' = blocks /\ late' = late /\ overran' = overran
      BY <1>5 DEF Find
    <2>1. CASE End(s)
      BY <2>0, <2>1 DEF End
    <2>2. CASE kind[s] = "open" /\ GoOn(s, "create")
      BY <2>0, <2>2 DEF GoOn
    <2>3. CASE kind[s] # "open" /\ GoOn(s, IF ChatOf(s) \in open THEN "insert" ELSE "create")
      BY <2>0, <2>3 DEF GoOn
    <2> QED
      BY <1>5, <2>1, <2>2, <2>3 DEF Find
  <1>6. ASSUME NEW s \in Sessions, Create(s) PROVE CastInv'
    <2>0. at[s] = "create" /\ msgs' = msgs /\ text' = text /\ time' = time /\ blocks' = blocks /\
         late' = late /\ overran' = overran
      BY <1>6 DEF Create
    <2>1. CASE End(s)
      BY <2>0, <2>1 DEF End
    <2>2. CASE kind[s] = "cast" /\ Fail(s) /\ broken' = [broken EXCEPT ![s] = TRUE]
      BY <2>0, <2>2 DEF Fail
    <2>3. CASE kind[s] # "open" /\ GoOn(s, "insert")
      BY <2>0, <2>3 DEF GoOn
    <2> QED
      BY <1>6, <2>1, <2>2, <2>3 DEF Create
  <1>7. ASSUME NEW s \in Sessions, Insert(s) PROVE CastInv'
    BY <1>7 DEF Insert
  <1>8. ASSUME NEW s \in Sessions, Bind(s) PROVE CastInv'
    <2>0. at[s] = "bind" /\ open' = open /\ msgs' = msgs /\ text' = text /\ time' = time /\
         blocks' = blocks /\ late' = late /\ overran' = overran
      BY <1>8 DEF Bind
    <2>1. CASE GoOn(s, "preview")
      BY <2>0, <2>1 DEF GoOn
    <2>2. CASE kind[s] = "cast" /\ Fail(s) /\ UNCHANGED broken
      BY <2>0, <2>2 DEF Fail
    <2>3. CASE End(s)
      BY <2>0, <2>3 DEF End
    <2> QED
      BY <1>8, <2>1, <2>2, <2>3 DEF Bind
  <1>9. ASSUME NEW s \in Sessions, Preview(s) PROVE CastInv'
    <2>0. at[s] = "preview" /\ open' = open /\ msgs' = msgs /\ blocks' = blocks /\ overran' =
         overran
      BY <1>9 DEF Preview
    <2>1. CASE kind[s] = "cast" /\ counted' = [counted EXCEPT ![s] = @ \cup {peer[s]}] /\ GoTo(s,
         "next") /\ UNCHANGED <<kind, who, peer, mine, barred, todo, broken, reached, failed,
         pageVars>>
      BY <2>0, <2>1
    <2>2. CASE End(s)
      BY <2>0, <2>2 DEF End
    <2> QED
      BY <1>9, <2>1, <2>2 DEF Preview
  <1>10. ASSUME NEW s \in Sessions, Broadcast(s) PROVE CastInv'
    BY <1>10 DEF Broadcast, ForgottenInv
  <1>11. ASSUME NEW s \in Sessions, NextBuyer(s) PROVE CastInv'
    <2>0. at[s] = "next" /\ open' = open /\ msgs' = msgs /\ text' = text /\ time' = time /\
         blocks' = blocks /\ late' = late /\ overran' = overran /\ kind' = kind /\ who' = who /\
         mine' = mine /\ broken' = broken /\ counted' = counted /\ reached' = reached /\
         failed' = failed /\ cursor' = cursor /\ got' = got /\ due' = due
      BY <1>11 DEF NextBuyer
    <2>1. CASE (todo[s] = {} \/ broken[s]) /\ GoTo(s, "report") /\ UNCHANGED <<peer, todo, barred>>
      BY <2>0, <2>1
    <2>2. CASE ~(todo[s] = {} \/ broken[s]) /\ \E b \in todo[s] : peer' = [peer EXCEPT ![s] = b]
         /\ barred' = [barred EXCEPT ![s] = Blocking(Publisher, b)]
         /\ todo' = [todo EXCEPT ![s] = @ \ {b}] /\ GoTo(s, "find")
      BY <2>0, <2>2
    <2> QED
      BY <1>11, <2>1, <2>2 DEF NextBuyer
  <1>12. ASSUME NEW s \in Sessions, Report(s) PROVE CastInv'
    BY <1>12 DEF Report, End
  <1>13. ASSUME NEW s \in Sessions, NEW m \in DOMAIN msgs, Recall(s, m) PROVE CastInv'
    BY <1>13 DEF Recall
  <1>14. ASSUME NEW s \in Sessions, Withdraw(s) PROVE CastInv'
    BY <1>14 DEF Withdraw
  <1>15. ASSUME NEW s \in Sessions, Look(s) PROVE CastInv'
    <2>0. at[s] = "look" /\ open' = open /\ msgs' = msgs /\ text' = text /\ time' = time /\
         blocks' = blocks /\ late' = late /\ overran' = overran
      BY <1>15 DEF Look
    <2>1. CASE time[ChatOf(s)] = msgs[mine[s]].second /\ GoOn(s, "cover")
      BY <2>0, <2>1 DEF GoOn
    <2>2. CASE time[ChatOf(s)] # msgs[mine[s]].second /\ End(s)
      BY <2>0, <2>2 DEF End
    <2> QED
      BY <1>15, <2>1, <2>2 DEF Look
  <1>16. ASSUME NEW s \in Sessions, Cover(s) PROVE CastInv'
    BY <1>16 DEF Cover, End
  <1>17. ASSUME NEW s \in Sessions, Page(s) PROVE CastInv'
    <2>1. /\ at[s] = "page" /\ kind' = kind /\ who' = who /\ peer' = peer /\ todo' = todo
          /\ broken' = broken /\ counted' = counted /\ reached' = reached /\ failed' = failed
      BY <1>17 DEF Page
    <2>2. at' = at \/ at' = [at EXCEPT ![s] = "paged"]
      BY <1>17 DEF Page
    <2> QED
      BY <2>1, <2>2
  <1>18. ASSUME NEW s \in Sessions, Paged(s) PROVE CastInv'
    BY <1>18 DEF Paged, End
  <1>19. ASSUME NEW s \in Sessions, Stop(s) PROVE CastInv'
    BY <1>19 DEF Stop, End
  <1>20. ASSUME NEW u \in Users, NEW c \in Chats, MarkRead(u, c) PROVE CastInv'
    BY <1>20 DEF MarkRead
  <1>21. ASSUME NEW u \in Users, NEW m \in DOMAIN msgs, DeleteLocal(u, m) PROVE CastInv'
    BY <1>21 DEF DeleteLocal
  <1>22. ASSUME NEW u \in Users, NEW v \in Users, AddToBlacklist(u, v) PROVE CastInv'
    BY <1>22 DEF AddToBlacklist
  <1>23. ASSUME NEW u \in Users, NEW v \in Users, RemoveFromBlacklist(u, v) PROVE CastInv'
    BY <1>23 DEF RemoveFromBlacklist
  <1>24. ASSUME Tick PROVE CastInv'
    BY <1>24 DEF Tick
  <1>25. CASE UNCHANGED vars
    BY <1>25 DEF vars
  <1> HIDE DEF CastInv, SessionType, CastType, Buyers
  <1> QED
    BY <1>1, <1>2, <1>3, <1>4, <1>5, <1>6, <1>7, <1>8, <1>9, <1>10, <1>11, <1>12, <1>13, <1>14,
         <1>15, <1>16, <1>17, <1>18, <1>19, <1>20, <1>21, <1>22, <1>23, <1>24, <1>25 DEF Next

\* What a step does to a reader: nothing, or it is a step of his own.
Still(t) ==
    /\ kind[t] = "read" /\ at'[t] = at[t] /\ who'[t] = who[t] /\ peer'[t] = peer[t]
    /\ cursor'[t] = cursor[t] /\ got'[t] = got[t] /\ due'[t] = due[t]
ReaderSteps ==
    \A t \in Sessions : kind'[t] = "read" =>
        Still(t) \/ Page(t) \/ \E u, v \in Users : Read(t, u, v)

LEMMA OwnSteps ==
  ASSUME TypeOK, PhaseInv, [Next]_vars
  PROVE  ReaderSteps
  <1>0. SessionType /\ CastType /\ PageType /\ StoreType
    BY Types
  <1>00. \A s \in Sessions : at[s] \notin {"page", "paged"} => kind[s] # "read"
    BY <1>0 DEF PhaseInv, SessionType
  <1> USE <1>0, <1>00 DEF ReaderSteps, Still, SessionType, PageType, At, GoTo, ChatOf, Begin,
       castVars, pageVars, chatVars, historyVars
  <1>1. ASSUME NEW s \in Sessions, NEW u \in Users, NEW v \in Users, Open(s, u, v) PROVE
       ReaderSteps
    BY <1>1 DEF Open
  <1>2. ASSUME NEW s \in Sessions, NEW u \in Users, NEW v \in Users, Send(s, u, v) PROVE
       ReaderSteps
    BY <1>2 DEF Send
  <1>3. ASSUME NEW s \in Sessions, NEW u \in Users, NEW v \in Users, Read(s, u, v) PROVE
       ReaderSteps
    <2>1. \A t \in Sessions : t # s => /\ kind'[t] = kind[t] /\ at'[t] = at[t] /\ got'[t] = got[t]
                                     /\ who'[t] = who[t] /\ peer'[t] = peer[t]
                                     /\ cursor'[t] = cursor[t] /\ due'[t] = due[t]
      BY <1>3 DEF Read
    <2> QED
      BY <1>3, <2>1
  <1>4. ASSUME NEW s \in Sessions, CheckBlock(s) PROVE ReaderSteps
    <2>0. at[s] = "check" /\ open' = open /\ msgs' = msgs /\ text' = text /\ time' = time /\
         blocks' = blocks /\ late' = late /\ overran' = overran
      BY <1>4 DEF CheckBlock
    <2>1. CASE End(s)
      BY <2>0, <2>1 DEF End
    <2>2. CASE <<peer[s], who[s]>> \notin blocks /\ GoOn(s, IF kind[s] = "open" THEN "find" ELSE
         "insert")
      BY <2>0, <2>2 DEF GoOn
    <2> QED
      BY <1>4, <2>1, <2>2 DEF CheckBlock
  <1>5. ASSUME NEW s \in Sessions, Find(s) PROVE ReaderSteps
    <2>0. at[s] = "find" /\ open' = open /\ msgs' = msgs /\ text' = text /\ time' = time /\
         blocks' = blocks /\ late' = late /\ overran' = overran
      BY <1>5 DEF Find
    <2>1. CASE End(s)
      BY <2>0, <2>1 DEF End
    <2>2. CASE kind[s] = "open" /\ GoOn(s, "create")
      BY <2>0, <2>2 DEF GoOn
    <2>3. CASE kind[s] # "open" /\ GoOn(s, IF ChatOf(s) \in open THEN "insert" ELSE "create")
      BY <2>0, <2>3 DEF GoOn
    <2> QED
      BY <1>5, <2>1, <2>2, <2>3 DEF Find
  <1>6. ASSUME NEW s \in Sessions, Create(s) PROVE ReaderSteps
    <2>0. at[s] = "create" /\ msgs' = msgs /\ text' = text /\ time' = time /\ blocks' = blocks /\
         late' = late /\ overran' = overran
      BY <1>6 DEF Create
    <2>1. CASE End(s)
      BY <2>0, <2>1 DEF End
    <2>2. CASE kind[s] = "cast" /\ Fail(s) /\ broken' = [broken EXCEPT ![s] = TRUE]
      BY <2>0, <2>2 DEF Fail
    <2>3. CASE kind[s] # "open" /\ GoOn(s, "insert")
      BY <2>0, <2>3 DEF GoOn
    <2> QED
      BY <1>6, <2>1, <2>2, <2>3 DEF Create
  <1>7. ASSUME NEW s \in Sessions, Insert(s) PROVE ReaderSteps
    BY <1>7 DEF Insert
  <1>8. ASSUME NEW s \in Sessions, Bind(s) PROVE ReaderSteps
    <2>0. at[s] = "bind" /\ open' = open /\ msgs' = msgs /\ text' = text /\ time' = time /\
         blocks' = blocks /\ late' = late /\ overran' = overran
      BY <1>8 DEF Bind
    <2>1. CASE GoOn(s, "preview")
      BY <2>0, <2>1 DEF GoOn
    <2>2. CASE kind[s] = "cast" /\ Fail(s) /\ UNCHANGED broken
      BY <2>0, <2>2 DEF Fail
    <2>3. CASE End(s)
      BY <2>0, <2>3 DEF End
    <2> QED
      BY <1>8, <2>1, <2>2, <2>3 DEF Bind
  <1>9. ASSUME NEW s \in Sessions, Preview(s) PROVE ReaderSteps
    <2>0. at[s] = "preview" /\ open' = open /\ msgs' = msgs /\ blocks' = blocks /\ overran' =
         overran
      BY <1>9 DEF Preview
    <2>1. CASE kind[s] = "cast" /\ counted' = [counted EXCEPT ![s] = @ \cup {peer[s]}] /\ GoTo(s,
         "next") /\ UNCHANGED <<kind, who, peer, mine, barred, todo, broken, reached, failed,
         pageVars>>
      BY <2>0, <2>1
    <2>2. CASE End(s)
      BY <2>0, <2>2 DEF End
    <2> QED
      BY <1>9, <2>1, <2>2 DEF Preview
  <1>10. ASSUME NEW s \in Sessions, Broadcast(s) PROVE ReaderSteps
    BY <1>10 DEF Broadcast
  <1>11. ASSUME NEW s \in Sessions, NextBuyer(s) PROVE ReaderSteps
    <2>0. at[s] = "next" /\ open' = open /\ msgs' = msgs /\ text' = text /\ time' = time /\
         blocks' = blocks /\ late' = late /\ overran' = overran /\ kind' = kind /\ who' = who /\
         mine' = mine /\ broken' = broken /\ counted' = counted /\ reached' = reached /\
         failed' = failed /\ cursor' = cursor /\ got' = got /\ due' = due
      BY <1>11 DEF NextBuyer
    <2>1. CASE (todo[s] = {} \/ broken[s]) /\ GoTo(s, "report") /\ UNCHANGED <<peer, todo, barred>>
      BY <2>0, <2>1
    <2>2. CASE ~(todo[s] = {} \/ broken[s]) /\ \E b \in todo[s] : peer' = [peer EXCEPT ![s] = b]
         /\ barred' = [barred EXCEPT ![s] = Blocking(Publisher, b)]
         /\ todo' = [todo EXCEPT ![s] = @ \ {b}] /\ GoTo(s, "find")
      BY <2>0, <2>2
    <2> QED
      BY <1>11, <2>1, <2>2 DEF NextBuyer
  <1>12. ASSUME NEW s \in Sessions, Report(s) PROVE ReaderSteps
    BY <1>12 DEF Report, End
  <1>13. ASSUME NEW s \in Sessions, NEW m \in DOMAIN msgs, Recall(s, m) PROVE ReaderSteps
    BY <1>13 DEF Recall
  <1>14. ASSUME NEW s \in Sessions, Withdraw(s) PROVE ReaderSteps
    BY <1>14 DEF Withdraw
  <1>15. ASSUME NEW s \in Sessions, Look(s) PROVE ReaderSteps
    <2>0. at[s] = "look" /\ open' = open /\ msgs' = msgs /\ text' = text /\ time' = time /\
         blocks' = blocks /\ late' = late /\ overran' = overran
      BY <1>15 DEF Look
    <2>1. CASE time[ChatOf(s)] = msgs[mine[s]].second /\ GoOn(s, "cover")
      BY <2>0, <2>1 DEF GoOn
    <2>2. CASE time[ChatOf(s)] # msgs[mine[s]].second /\ End(s)
      BY <2>0, <2>2 DEF End
    <2> QED
      BY <1>15, <2>1, <2>2 DEF Look
  <1>16. ASSUME NEW s \in Sessions, Cover(s) PROVE ReaderSteps
    BY <1>16 DEF Cover, End
  <1>17. ASSUME NEW s \in Sessions, Page(s) PROVE ReaderSteps
    <2>1. kind' = kind /\ who' = who /\ peer' = peer /\ due' = due
      BY <1>17 DEF Page
    <2>2. \A t \in Sessions : t # s => at'[t] = at[t] /\ got'[t] = got[t] /\ cursor'[t] =
         cursor[t]
      BY <1>17 DEF Page
    <2> QED
      BY <1>17, <2>1, <2>2
  <1>18. ASSUME NEW s \in Sessions, Paged(s) PROVE ReaderSteps
    BY <1>18 DEF Paged, End
  <1>19. ASSUME NEW s \in Sessions, Stop(s) PROVE ReaderSteps
    BY <1>19 DEF Stop, End
  <1>20. ASSUME NEW u \in Users, NEW c \in Chats, MarkRead(u, c) PROVE ReaderSteps
    BY <1>20 DEF MarkRead
  <1>21. ASSUME NEW u \in Users, NEW m \in DOMAIN msgs, DeleteLocal(u, m) PROVE ReaderSteps
    BY <1>21 DEF DeleteLocal
  <1>22. ASSUME NEW u \in Users, NEW v \in Users, AddToBlacklist(u, v) PROVE ReaderSteps
    BY <1>22 DEF AddToBlacklist
  <1>23. ASSUME NEW u \in Users, NEW v \in Users, RemoveFromBlacklist(u, v) PROVE ReaderSteps
    BY <1>23 DEF RemoveFromBlacklist
  <1>24. ASSUME Tick PROVE ReaderSteps
    BY <1>24 DEF Tick
  <1>25. CASE UNCHANGED vars
    BY <1>25 DEF vars
  <1> HIDE DEF ReaderSteps, Still, SessionType, PageType
  <1> QED
    BY <1>1, <1>2, <1>3, <1>4, <1>5, <1>6, <1>7, <1>8, <1>9, <1>10, <1>11, <1>12, <1>13, <1>14,
         <1>15, <1>16, <1>17, <1>18, <1>19, <1>20, <1>21, <1>22, <1>23, <1>24, <1>25 DEF Next

LEMMA KeptFollowing ==
  ASSUME Grown, NEW s \in Sessions, Still(s), Following(s)
  PROVE  Following(s)'
  <1>1. /\ Got(s)' = Got(s) /\ ChatOf(s)' = ChatOf(s)
        /\ who'[s] = who[s] /\ at'[s] = at[s] /\ cursor'[s] = cursor[s] /\ got'[s] = got[s]
        /\ due'[s] = due[s]
    BY DEF Still, Got, ChatOf
  <1>2. ASSUME NEW m \in due[s], m \in Visible(who[s], ChatOf(s))'
        PROVE  m \in Visible(who[s], ChatOf(s))
    <2>1. m \in DOMAIN msgs /\ Lasting(msgs[m], msgs'[m])
      BY DEF Following, Grown
    <2> QED
      BY <1>1, <1>2, <2>1 DEF Visible, Lasting
  <1>3. due[s] \subseteq DOMAIN msgs'
    BY DEF Following, Grown
  <1> QED
    BY <1>1, <1>2, <1>3 DEF Following

LEMMA FirstFollowing ==
  ASSUME TypeOK, ForgottenInv, NEW s \in Sessions, NEW u \in Users, NEW v \in Users, Read(s, u, v)
  PROVE  Following(s)'
  <1>1. SessionType /\ CastType /\ PageType /\ StoreType
    BY Types
  <1>2. /\ who'[s] = u /\ peer'[s] = v /\ at'[s] = "page" /\ cursor'[s] = MaxMessages + 1
        /\ due'[s] = Visible(u, {u, v}) /\ got'[s] = got[s] /\ at[s] = "idle" /\ msgs' = msgs
    BY <1>1 DEF Read, Begin, At, GoTo, SessionType, PageType, chatVars
  <1>3. got'[s] = <<>>
    BY <1>2 DEF ForgottenInv
  <1>4. Got(s)' = {}
    BY <1>3 DEF Got
  <1>5. \A m \in DOMAIN msgs : m < MaxMessages + 1
    BY MessageParts, Bounds DEF Ids
  <1>6. due'[s] \subseteq DOMAIN msgs
    BY <1>2 DEF Visible
  <1>7. \A m \in due'[s] : m < cursor'[s]
    BY <1>2, <1>5, <1>6
  <1>8. DOMAIN got'[s] = {}
    BY <1>3
  <1> QED
    BY <1>2, <1>4, <1>6, <1>7, <1>8 DEF Following

LEMMA NextFollowing ==
  ASSUME TypeOK, NEW s \in Sessions, Page(s), Following(s)
  PROVE  Following(s)'
  <1> DEFINE rest == {m \in Visible(who[s], ChatOf(s)) : m < cursor[s]}
             page == Newest(PageSize, rest)
  <1>1. rest \in SUBSET Ids
    BY MessageParts DEF Visible
  <1>2. /\ page \subseteq rest
        /\ Cardinality(rest) <= PageSize => page = rest
        /\ Cardinality(rest) > PageSize =>
              Min(page) \in page /\ \A m \in rest : m \in page <=> Min(page) <= m
    BY <1>1, PageOf
  <1>3. /\ at[s] = "page" /\ got' = [got EXCEPT ![s] = Append(got[s], page)]
        /\ who' = who /\ peer' = peer /\ due' = due /\ msgs' = msgs
    BY DEF Page, At, chatVars
  <1>4. IF Cardinality(rest) > PageSize
        THEN cursor' = [cursor EXCEPT ![s] = Min(page)] /\ UNCHANGED at
        ELSE GoTo(s, "paged") /\ UNCHANGED cursor
    BY DEF Page
  <1>5. SessionType /\ PageType
    BY Types
  <1>6. \A m \in rest : m < cursor[s] /\ m \in Nat
    <2>1. Ids \subseteq Nat
      BY DEF Ids
    <2> QED
      BY <1>1, <2>1
  <1>7. Visible(who[s], ChatOf(s))' = Visible(who[s], ChatOf(s))
    BY <1>3 DEF Visible, ChatOf
  <1>8. \A m \in Visible(who[s], ChatOf(s)) : m < cursor[s] => m \in rest
    OBVIOUS
  <1>9. Cardinality(rest) \in Nat /\ PageSize \in Nat /\ cursor[s] \in Nat /\ MaxMessages \in Nat
    <2>1. IsFiniteSet(1 .. MaxMessages) /\ MaxMessages \in Nat
      BY Bounds, FS_Interval
    <2>2. IsFiniteSet(rest)
      BY <1>1, <2>1, FS_Subset DEF Ids
    <2>3. cursor[s] \in 0 .. MaxMessages + 1
      BY <1>5 DEF PageType
    <2> QED
      BY <2>1, <2>2, <2>3, FS_CardinalityType, Bounds
  <1> HIDE DEF page, rest
  <1>10. \A m : m \in Got(s)' <=> m \in Got(s) \/ m \in page
    <2>1. /\ got[s] \in Seq(SUBSET Ids) /\ page \in SUBSET Ids
          /\ got'[s] = Append(got[s], page)
      BY <1>1, <1>2, <1>3, <1>5 DEF PageType
    <2>2. /\ DOMAIN got'[s] = 1 .. Len(got[s]) + 1 /\ DOMAIN got[s] = 1 .. Len(got[s])
          /\ Len(got[s]) \in Nat /\ got'[s][Len(got[s]) + 1] = page
          /\ \A i \in 1 .. Len(got[s]) : got'[s][i] = got[s][i]
      BY <2>1, AppendProperties, LenProperties
    <2>3. DOMAIN got'[s] = DOMAIN got[s] \cup {Len(got[s]) + 1}
      BY <2>2
    <2> QED
      BY <2>2, <2>3 DEF Got
  <1>11. \A i, j \in DOMAIN got'[s] : i # j => got'[s][i] \cap got'[s][j] = {}
    <2>1. /\ got[s] \in Seq(SUBSET Ids) /\ page \in SUBSET Ids
          /\ got'[s] = Append(got[s], page)
      BY <1>1, <1>2, <1>3, <1>5 DEF PageType
    <2>2. /\ DOMAIN got'[s] = 1 .. Len(got[s]) + 1 /\ DOMAIN got[s] = 1 .. Len(got[s])
          /\ Len(got[s]) \in Nat /\ got'[s][Len(got[s]) + 1] = page
          /\ \A i \in 1 .. Len(got[s]) : got'[s][i] = got[s][i]
      BY <2>1, AppendProperties, LenProperties
    <2>3. DOMAIN got'[s] = DOMAIN got[s] \cup {Len(got[s]) + 1}
      BY <2>2
    <2>4. ASSUME NEW i \in DOMAIN got[s]
          PROVE  got[s][i] \cap page = {}
      <3>1. \A m \in got[s][i] : cursor[s] <= m
        BY <1>3 DEF Following, Got
      <3>2. \A m \in page : m \in Nat /\ m < cursor[s]
        BY <1>2, <1>6
      <3> QED
        BY <1>9, <3>1, <3>2
    <2> QED
      BY <2>2, <2>3, <2>4 DEF Following
  <1>12. CASE Cardinality(rest) > PageSize
    <2>1. cursor'[s] = Min(page) /\ at'[s] = "page"
      BY <1>3, <1>4, <1>5, <1>12 DEF PageType
    <2>2. Min(page) \in page /\ \A m \in rest : m \in page <=> Min(page) <= m
      BY <1>2, <1>12
    <2> DEFINE k == Min(page)
    <2>3. k \in Nat /\ k < cursor[s] /\ (\A m \in rest : m \notin page => m < k) /\ \A m \in page : k <= m
      <3> HIDE DEF k
      <3> QED
        BY <1>2, <1>6, <2>2 DEF k
    <2> HIDE DEF k
    <2>4. \A m \in Got(s)' : k <= m
      <3>0. UNION {got[s][i] : i \in DOMAIN got[s]} \subseteq Nat
        <4>1. \A i \in DOMAIN got[s] : got[s][i] \in SUBSET Ids
          BY <1>5, ElementOfSeq DEF PageType
        <4>2. Ids \subseteq Nat
          BY DEF Ids
        <4> QED
          BY <4>1, <4>2
      <3>1. \A m \in Got(s) : cursor[s] <= m /\ m \in Nat
        BY <1>3, <3>0 DEF Following, Got
      <3> QED
        BY <1>9, <1>10, <2>3, <3>1
    <2>5. \A m \in due'[s] \cap Visible(who[s], ChatOf(s))' : m \in Got(s)' \/ m < k
      BY <1>3, <1>7, <1>8, <1>10, <2>3 DEF Following
    <2> QED
      BY <1>3, <1>11, <2>1, <2>4, <2>5 DEF Following, k
  <1>13. CASE ~(Cardinality(rest) > PageSize)
    <2>1. at'[s] = "paged" /\ page = rest
      BY <1>2, <1>4, <1>5, <1>9, <1>13 DEF GoTo, SessionType
    <2>2. \A m \in due'[s] \cap Visible(who[s], ChatOf(s))' : m \in Got(s)'
      BY <1>3, <1>7, <1>8, <1>10, <2>1 DEF Following
    <2> QED
      BY <1>3, <1>11, <2>1, <2>2 DEF Following
  <1> QED
    BY <1>12, <1>13

LEMMA PageStep ==
  ASSUME TypeOK, PhaseInv, ForgottenInv, PageInv, Grown, [Next]_vars
  PROVE  PageInv'
  <1> SUFFICES ASSUME NEW s \in Sessions, kind'[s] = "read"
               PROVE  Following(s)'
    BY DEF PageInv
  <1>1. Still(s) \/ Page(s) \/ \E u, v \in Users : Read(s, u, v)
    BY OwnSteps DEF ReaderSteps
  <1>2. CASE Still(s)
    BY <1>2, KeptFollowing DEF PageInv, Still
  <1>3. CASE Page(s)
    <2>1. at[s] = "page" /\ kind[s] = "read"
      BY <1>3 DEF Page, At, PhaseInv, TypeOK
    <2> QED
      BY <1>3, <2>1, NextFollowing DEF PageInv
  <1>4. CASE \E u, v \in Users : Read(s, u, v)
    BY <1>4, FirstFollowing
  <1> QED
    BY <1>1, <1>2, <1>3, <1>4

\* A step that touches no preview, recalls nothing and leaves every recall where it is.
Quiet ==
    /\ text' = text /\ time' = time /\ late' = late /\ overran' = overran
    /\ \A m \in DOMAIN msgs : msgs'[m].recalled => msgs[m].recalled
    /\ \A s \in Sessions : \A m : Recalling(s, m) => Recalling(s, m)'
Others(s) ==
    \A t \in Sessions : t # s => kind'[t] = kind[t] /\ mine'[t] = mine[t] /\ at'[t] = at[t]

LEMMA QuietStep ==
  ASSUME TypeOK, PairInv,          ~\E s \in Sessions : Preview(s) \/ Withdraw(s) \/ Look(s) \/
       Cover(s) \/ Stop(s), [Next]_vars
  PROVE  Quiet
  <1>0. SessionType /\ CastType /\ PageType /\ StoreType
    BY Types
  <1> USE <1>0 DEF Quiet, Recalling, SessionType, At, GoTo, ChatOf, Begin, castVars, pageVars,
       chatVars, historyVars
  <1>1. ASSUME NEW s \in Sessions, NEW u \in Users, NEW v \in Users, Open(s, u, v) PROVE Quiet
    BY <1>1 DEF Open
  <1>2. ASSUME NEW s \in Sessions, NEW u \in Users, NEW v \in Users, Send(s, u, v) PROVE Quiet
    BY <1>2 DEF Send
  <1>3. ASSUME NEW s \in Sessions, NEW u \in Users, NEW v \in Users, Read(s, u, v) PROVE Quiet
    BY <1>3 DEF Read
  <1>4. ASSUME NEW s \in Sessions, CheckBlock(s) PROVE Quiet
    <2>0. at[s] = "check" /\ open' = open /\ msgs' = msgs /\ text' = text /\ time' = time /\
         blocks' = blocks /\ late' = late /\ overran' = overran
      BY <1>4 DEF CheckBlock
    <2>1. CASE End(s)
      BY <2>0, <2>1 DEF End
    <2>2. CASE <<peer[s], who[s]>> \notin blocks /\ GoOn(s, IF kind[s] = "open" THEN "find" ELSE
         "insert")
      BY <2>0, <2>2 DEF GoOn
    <2> QED
      BY <1>4, <2>1, <2>2 DEF CheckBlock
  <1>5. ASSUME NEW s \in Sessions, Find(s) PROVE Quiet
    <2>0. at[s] = "find" /\ open' = open /\ msgs' = msgs /\ text' = text /\ time' = time /\
         blocks' = blocks /\ late' = late /\ overran' = overran
      BY <1>5 DEF Find
    <2>1. CASE End(s)
      BY <2>0, <2>1 DEF End
    <2>2. CASE kind[s] = "open" /\ GoOn(s, "create")
      BY <2>0, <2>2 DEF GoOn
    <2>3. CASE kind[s] # "open" /\ GoOn(s, IF ChatOf(s) \in open THEN "insert" ELSE "create")
      BY <2>0, <2>3 DEF GoOn
    <2> QED
      BY <1>5, <2>1, <2>2, <2>3 DEF Find
  <1>6. ASSUME NEW s \in Sessions, Create(s) PROVE Quiet
    <2>0. at[s] = "create" /\ msgs' = msgs /\ text' = text /\ time' = time /\ blocks' = blocks /\
         late' = late /\ overran' = overran
      BY <1>6 DEF Create
    <2>00. msgs' = msgs
      BY <1>6 DEF Create
    <2>1. CASE End(s)
      BY <2>0, <2>1, <2>00 DEF End
    <2>2. CASE kind[s] = "cast" /\ Fail(s) /\ broken' = [broken EXCEPT ![s] = TRUE]
      BY <2>0, <2>2, <2>00 DEF Fail
    <2>3. CASE kind[s] # "open" /\ GoOn(s, "insert")
      BY <2>0, <2>3, <2>00 DEF GoOn
    <2> QED
      BY <1>6, <2>1, <2>2, <2>3 DEF Create
  <1>7. ASSUME NEW s \in Sessions, Insert(s) PROVE Quiet
    BY <1>7, InsertMsgs DEF Insert
  <1>8. ASSUME NEW s \in Sessions, Bind(s) PROVE Quiet
    <2>0. at[s] = "bind" /\ open' = open /\ msgs' = msgs /\ text' = text /\ time' = time /\
         blocks' = blocks /\ late' = late /\ overran' = overran
      BY <1>8 DEF Bind
    <2>1. CASE GoOn(s, "preview")
      BY <2>0, <2>1 DEF GoOn
    <2>2. CASE kind[s] = "cast" /\ Fail(s) /\ UNCHANGED broken
      BY <2>0, <2>2 DEF Fail
    <2>3. CASE End(s)
      BY <2>0, <2>3 DEF End
    <2> QED
      BY <1>8, <2>1, <2>2, <2>3 DEF Bind
  <1>9. ASSUME NEW s \in Sessions, Preview(s) PROVE Quiet
    BY <1>9 DEF Preview
  <1>10. ASSUME NEW s \in Sessions, Broadcast(s) PROVE Quiet
    BY <1>10 DEF Broadcast
  <1>11. ASSUME NEW s \in Sessions, NextBuyer(s) PROVE Quiet
    <2>0. at[s] = "next" /\ open' = open /\ msgs' = msgs /\ text' = text /\ time' = time /\
         blocks' = blocks /\ late' = late /\ overran' = overran /\ kind' = kind /\ who' = who /\
         mine' = mine /\ broken' = broken /\ counted' = counted /\ reached' = reached /\
         failed' = failed /\ cursor' = cursor /\ got' = got /\ due' = due
      BY <1>11 DEF NextBuyer
    <2>1. CASE (todo[s] = {} \/ broken[s]) /\ GoTo(s, "report") /\ UNCHANGED <<peer, todo, barred>>
      BY <2>0, <2>1
    <2>2. CASE ~(todo[s] = {} \/ broken[s]) /\ \E b \in todo[s] : peer' = [peer EXCEPT ![s] = b]
         /\ barred' = [barred EXCEPT ![s] = Blocking(Publisher, b)]
         /\ todo' = [todo EXCEPT ![s] = @ \ {b}] /\ GoTo(s, "find")
      BY <2>0, <2>2
    <2> QED
      BY <1>11, <2>1, <2>2 DEF NextBuyer
  <1>12. ASSUME NEW s \in Sessions, Report(s) PROVE Quiet
    BY <1>12 DEF Report, End
  <1>13. ASSUME NEW s \in Sessions, NEW m \in DOMAIN msgs, Recall(s, m) PROVE Quiet
    BY <1>13 DEF Recall
  <1>14. ASSUME NEW s \in Sessions, Withdraw(s) PROVE Quiet
    BY <1>14 DEF Withdraw
  <1>15. ASSUME NEW s \in Sessions, Look(s) PROVE Quiet
    BY <1>15 DEF Look
  <1>16. ASSUME NEW s \in Sessions, Cover(s) PROVE Quiet
    BY <1>16 DEF Cover
  <1>17. ASSUME NEW s \in Sessions, Page(s) PROVE Quiet
    <2>1. at[s] = "page" /\ kind' = kind /\ mine' = mine /\ msgs' = msgs
      BY <1>17 DEF Page
    <2>2. text' = text /\ time' = time /\ late' = late /\ overran' = overran
      BY <1>17 DEF Page
    <2>3. at' = at \/ at' = [at EXCEPT ![s] = "paged"]
      BY <1>17 DEF Page
    <2> QED
      BY <2>1, <2>2, <2>3
  <1>18. ASSUME NEW s \in Sessions, Paged(s) PROVE Quiet
    BY <1>18 DEF Paged, End
  <1>19. ASSUME NEW s \in Sessions, Stop(s) PROVE Quiet
    BY <1>19 DEF Stop
  <1>20. ASSUME NEW u \in Users, NEW c \in Chats, MarkRead(u, c) PROVE Quiet
    BY <1>20, ReadMsgs DEF MarkRead
  <1>21. ASSUME NEW u \in Users, NEW m \in DOMAIN msgs, DeleteLocal(u, m) PROVE Quiet
    BY <1>21, HideMsgs DEF DeleteLocal
  <1>22. ASSUME NEW u \in Users, NEW v \in Users, AddToBlacklist(u, v) PROVE Quiet
    BY <1>22 DEF AddToBlacklist
  <1>23. ASSUME NEW u \in Users, NEW v \in Users, RemoveFromBlacklist(u, v) PROVE Quiet
    BY <1>23 DEF RemoveFromBlacklist
  <1>24. ASSUME Tick PROVE Quiet
    BY <1>24 DEF Tick
  <1>25. CASE UNCHANGED vars
    BY <1>25 DEF vars
  <1> HIDE DEF Quiet, Recalling, SessionType
  <1> QED
    BY <1>1, <1>2, <1>3, <1>4, <1>5, <1>6, <1>7, <1>8, <1>9, <1>10, <1>11, <1>12, <1>13, <1>14,
         <1>15, <1>16, <1>17, <1>18, <1>19, <1>20, <1>21, <1>22, <1>23, <1>24, <1>25 DEF Next

LEMMA KeptShowing ==
  ASSUME TypeOK, Grown, NEW c \in Chats, Showing(c), text'[c] = text[c], time'[c] = time[c],
         late \subseteq late', overran => overran',
         /\ text[c] \in DOMAIN msgs /\ text[c] \notin late' /\ msgs'[text[c]].recalled
         /\ msgs[text[c]].second = time[c]
         /\ msgs[text[c]].recalled => \E s \in Sessions : Recalling(s, text[c])
         => \E s \in Sessions : Recalling(s, text[c])'
  PROVE  Showing(c)'
  <1>1. text[c] \in Ids =>
          /\ text[c] \in DOMAIN msgs' /\ msgs'[text[c]].chat = c
          /\ text[c] \notin late' /\ msgs'[text[c]].second = time[c] /\ msgs'[text[c]].recalled =>
                \E s \in Sessions : Recalling(s, text[c])'
    BY DEF Showing, Grown, Lasting
  <1>2. ASSUME text[c] = RecallText, ~overran'
        PROVE  \E m \in DOMAIN msgs' :
                  msgs'[m].chat = c /\ msgs'[m].recalled /\ msgs'[m].second = time[c]
    <2>1. PICK m \in DOMAIN msgs :
              msgs[m].chat = c /\ msgs[m].recalled /\ msgs[m].second = time[c]
      BY <1>2 DEF Showing
    <2> QED
      BY <2>1 DEF Grown, Lasting
  <1> QED
    BY <1>1, <1>2 DEF Showing, Recalling

LEMMA QuietShowing ==
  ASSUME TypeOK, Grown, PreviewInv, Quiet
  PROVE  PreviewInv'
  <1> SUFFICES ASSUME NEW c \in Chats
               PROVE  Showing(c)'
    BY DEF PreviewInv
  <1>1. Showing(c)
    BY DEF PreviewInv
  <1>2. /\ text[c] \in DOMAIN msgs /\ text[c] \notin late' /\ msgs'[text[c]].recalled
        /\ msgs[text[c]].recalled => \E s \in Sessions : Recalling(s, text[c])
        => \E s \in Sessions : Recalling(s, text[c])'
    BY DEF Quiet
  <1> QED
    BY <1>1, <1>2, KeptShowing DEF Quiet

LEMMA WithdrawShowing ==
  ASSUME TypeOK, MineInv, PhaseInv, PreviewInv, NEW s \in Sessions, Withdraw(s), Grown
  PROVE  PreviewInv'
  <1> SUFFICES ASSUME NEW c \in Chats
               PROVE  Showing(c)'
    BY DEF PreviewInv
  <1>0. SessionType
    BY Types
  <1>1. /\ text' = text /\ time' = time /\ late' = late /\ overran' = overran /\ mine' = mine /\ kind' = kind
        /\ at' = [at EXCEPT ![s] = "look"] /\ at[s] = "withdraw"
    BY DEF Withdraw, At, GoTo, historyVars
  <1>2. kind[s] = "recall"
    BY <1>0, <1>1 DEF PhaseInv, SessionType
  <1>3. Recalling(s, mine[s])' /\ Others(s)
    BY <1>0, <1>1, <1>2 DEF Recalling, Others, SessionType
  <1>4. ~Recalling(s, text[c])
    BY <1>1 DEF Recalling
  <1>5. ASSUME text[c] \in DOMAIN msgs, msgs'[text[c]].recalled,
               msgs[text[c]].recalled => \E t \in Sessions : Recalling(t, text[c])
        PROVE  \E t \in Sessions : Recalling(t, text[c])'
    <2>1. CASE text[c] = mine[s]
      BY <1>1, <1>3, <2>1 DEF Recalling
    <2>2. CASE text[c] # mine[s]
      <3>1. msgs[text[c]].recalled
        BY <1>5, <2>2, WithdrawMsgs
      <3>2. PICK t \in Sessions : Recalling(t, text[c])
        BY <1>5, <3>1
      <3>3. Recalling(t, text[c])'
        <4>1. t # s
          BY <1>4, <3>2
        <4> QED
          BY <1>1, <1>3, <3>2, <4>1 DEF Others, Recalling
      <3> QED
        BY <3>3
    <2> QED
      BY <2>1, <2>2
  <1>6. Showing(c)
    BY DEF PreviewInv
  <1> QED
    BY <1>1, <1>5, <1>6, KeptShowing

\* A recall that ends without covering the preview: it was of another second, or the
\* request has stopped.
LEMMA EndShowing ==
  ASSUME TypeOK, PreviewInv, NEW s \in Sessions, Grown, Others(s),
         text' = text, time' = time, late \subseteq late', overran' = overran, msgs' = msgs,
         \A c \in Chats : /\ Recalling(s, text[c]) /\ text[c] \in DOMAIN msgs /\ msgs[text[c]].chat = c
                          => text[c] \in late' \/ msgs[text[c]].second # time[c]
  PROVE  PreviewInv'
  <1> SUFFICES ASSUME NEW c \in Chats
               PROVE  Showing(c)'
    BY DEF PreviewInv
  <1>1. Showing(c)
    BY DEF PreviewInv
  <1>2. ASSUME text[c] \in DOMAIN msgs, text[c] \notin late', msgs'[text[c]].recalled,
               msgs[text[c]].second = time[c],
               msgs[text[c]].recalled => \E t \in Sessions : Recalling(t, text[c])
        PROVE  \E t \in Sessions : Recalling(t, text[c])'
    <2>1. PICK t \in Sessions : Recalling(t, text[c])
      BY <1>2
    <2>2. text[c] \in Ids
      BY <1>2, MessageParts
    <2>3. msgs[text[c]].chat = c /\ msgs[text[c]].second = time[c]
      BY <1>1, <1>2, <2>2 DEF Showing
    <2>4. t # s
      BY <1>2, <2>1, <2>3
    <2> QED
      BY <2>1, <2>4 DEF Others, Recalling
  <1> QED
    BY <1>1, <1>2, KeptShowing

LEMMA LookShowing ==
  ASSUME TypeOK, MineInv, PreviewInv, NEW s \in Sessions, Look(s), Grown
  PROVE  PreviewInv'
  <1>0. SessionType
    BY Types
  <1>1. /\ text' = text /\ time' = time /\ late' = late /\ overran' = overran /\ msgs' = msgs
        /\ at[s] = "look"
    BY DEF Look, At, chatVars, historyVars
  <1>2. mine[s] \in DOMAIN msgs /\ msgs[mine[s]].chat = ChatOf(s)
    BY <1>1 DEF MineInv
  <1>3. CASE time[ChatOf(s)] = msgs[mine[s]].second /\ GoOn(s, "cover")
    <2>1. kind' = kind /\ mine' = mine /\ at' = [at EXCEPT ![s] = "cover"]
      BY <1>3 DEF GoOn, GoTo
    <2>2. Quiet
      BY <1>0, <1>1, <2>1 DEF Quiet, Recalling, SessionType
    <2> QED
      BY <2>2, QuietShowing
  <1>4. CASE time[ChatOf(s)] # msgs[mine[s]].second /\ End(s)
    <2>1. Others(s)
      BY <1>0, <1>4 DEF End, GoTo, Others, SessionType
    <2>2. \A c \in Chats : /\ Recalling(s, text[c]) /\ text[c] \in DOMAIN msgs /\ msgs[text[c]].chat = c
                           => text[c] \in late' \/ msgs[text[c]].second # time[c]
      BY <1>2, <1>4 DEF Recalling
    <2> QED
      BY <1>1, <2>1, <2>2, EndShowing
  <1> QED
    BY <1>3, <1>4 DEF Look

LEMMA StopShowing ==
  ASSUME TypeOK, PreviewInv, NEW s \in Sessions, Stop(s), Grown
  PROVE  PreviewInv'
  <1>0. SessionType
    BY Types
  <1>1. /\ text' = text /\ time' = time /\ overran' = overran /\ msgs' = msgs
        /\ late' = IF kind[s] = "recall" THEN late \cup {mine[s]} ELSE late
    BY DEF Stop, chatVars
  <1>2. Others(s)
    BY <1>0 DEF Stop, End, GoTo, Others, SessionType
  <1>3. \A c \in Chats : /\ Recalling(s, text[c]) /\ text[c] \in DOMAIN msgs /\ msgs[text[c]].chat = c
                         => text[c] \in late' \/ msgs[text[c]].second # time[c]
    BY <1>1 DEF Recalling
  <1> QED
    BY <1>1, <1>2, <1>3, EndShowing

\* A preview that is overwritten: a recall of another message is not disturbed.
LEMMA OverwrittenShowing ==
  ASSUME TypeOK, PreviewInv, Grown, NEW s \in Sessions, Others(s), msgs' = msgs,
         late \subseteq late', overran => overran',
         \A m : Recalling(s, m) => m \in DOMAIN msgs /\ msgs[m].chat = ChatOf(s),
         NEW c \in Chats, c # ChatOf(s), text'[c] = text[c], time'[c] = time[c]
  PROVE  Showing(c)'
  <1>1. Showing(c)
    BY DEF PreviewInv
  <1>2. ASSUME text[c] \in DOMAIN msgs, msgs'[text[c]].recalled,
               msgs[text[c]].recalled => \E t \in Sessions : Recalling(t, text[c]),
               text[c] \notin late'
        PROVE  \E t \in Sessions : Recalling(t, text[c])'
    <2>1. PICK t \in Sessions : Recalling(t, text[c])
      BY <1>2
    <2>2. msgs[text[c]].chat = c
      BY <1>1, <1>2, MessageParts DEF Showing
    <2>3. t # s
      BY <2>1, <2>2
    <2>4. Recalling(t, text[c])'
      BY <2>1, <2>3 DEF Others, Recalling
    <2> QED
      BY <2>4
  <1> QED
    BY <1>1, <1>2, KeptShowing

LEMMA PreviewShowing ==
  ASSUME TypeOK, PhaseInv, PairInv, MineInv, PreviewInv, NEW s \in Sessions, Preview(s), Grown
  PROVE  PreviewInv'
  <1>0. SessionType /\ StoreType
    BY Types
  <1> DEFINE k == mine[s]
             d == ChatOf(s)
  <1>1. /\ at[s] = "preview" /\ text' = [text EXCEPT ![d] = k] /\ time' = [time EXCEPT ![d] = clock]
        /\ late' = IF msgs[k].recalled THEN late \cup {k} ELSE late
        /\ overran' = overran /\ msgs' = msgs
    BY DEF Preview, At
  <1>2. d \in Chats /\ k \in DOMAIN msgs /\ msgs[k].chat = d
    BY <1>1 DEF PairInv, Paired, MineInv
  <1>3. k \in Ids /\ k # RecallText
    BY <1>2, MessageParts DEF Ids, RecallText
  <1>4. Others(s)
    <2>1. CASE kind[s] = "cast" /\ GoTo(s, "next")
               /\ UNCHANGED <<kind, who, peer, mine, barred, todo, broken, reached, failed, pageVars>>
      BY <1>0, <2>1 DEF GoTo, Others, SessionType
    <2>2. CASE End(s)
      BY <1>0, <2>2 DEF End, GoTo, Others, SessionType
    <2> QED
      BY <2>1, <2>2 DEF Preview
  <1>5. \A m : ~Recalling(s, m)
    BY <1>1 DEF Recalling
  <1> HIDE DEF d, k
  <1>6. ASSUME NEW c \in Chats, c = d
        PROVE  Showing(c)'
    <2>1. text'[c] = k /\ time'[c] = clock
      BY <1>0, <1>1, <1>2, <1>6 DEF StoreType
    <2>2. k \notin late' => ~msgs[k].recalled
      BY <1>1
    <2> QED
      BY <1>1, <1>2, <1>3, <1>6, <2>1, <2>2 DEF Showing
  <1>7. ASSUME NEW c \in Chats, c # d
        PROVE  Showing(c)'
    <2>1. text'[c] = text[c] /\ time'[c] = time[c] /\ late \subseteq late'
      BY <1>0, <1>1, <1>7 DEF StoreType
    <2> QED
      BY <1>1, <1>4, <1>5, <1>7, <2>1, OverwrittenShowing DEF d
  <1> QED
    BY <1>6, <1>7 DEF PreviewInv

LEMMA CoverShowing ==
  ASSUME TypeOK, PhaseInv, PairInv, MineInv, PreviewInv, NEW s \in Sessions, Cover(s), Grown
  PROVE  PreviewInv'
  <1>0. SessionType /\ StoreType
    BY Types
  <1> DEFINE k == mine[s]
             d == ChatOf(s)
  <1>1. /\ at[s] = "cover" /\ text' = [text EXCEPT ![d] = RecallText] /\ time' = time /\ late' = late
        /\ overran' = (overran \/ time[d] # msgs[k].second) /\ msgs' = msgs
    BY DEF Cover, At
  <1>2. d \in Chats /\ k \in DOMAIN msgs /\ msgs[k].chat = d /\ msgs[k].recalled
    BY <1>1 DEF PairInv, Paired, MineInv
  <1>3. RecallText \notin Ids
    BY DEF Ids, RecallText
  <1>4. Others(s)
    BY <1>0 DEF Cover, End, GoTo, Others, SessionType
  <1>5. \A m : Recalling(s, m) => m \in DOMAIN msgs /\ msgs[m].chat = d
    BY <1>2 DEF Recalling
  <1> HIDE DEF d, k
  <1>6. ASSUME NEW c \in Chats, c = d
        PROVE  Showing(c)'
    <2>1. text'[c] = RecallText /\ time'[c] = time[c]
      BY <1>0, <1>1, <1>2, <1>6 DEF StoreType
    <2>2. ~overran' => msgs[k].second = time[d]
      BY <1>1
    <2> QED
      BY <1>1, <1>2, <1>3, <1>6, <2>1, <2>2 DEF Showing
  <1>7. ASSUME NEW c \in Chats, c # d
        PROVE  Showing(c)'
    <2>1. text'[c] = text[c] /\ time'[c] = time[c] /\ late \subseteq late' /\ (overran => overran')
      BY <1>0, <1>1, <1>7 DEF StoreType
    <2> QED
      BY <1>1, <1>4, <1>5, <1>7, <2>1, OverwrittenShowing DEF d
  <1> QED
    BY <1>6, <1>7 DEF PreviewInv

LEMMA PreviewStep ==
  ASSUME TypeOK, PhaseInv, PairInv, MineInv, PreviewInv, Grown, [Next]_vars
  PROVE  PreviewInv'
  <1>1. CASE ~\E s \in Sessions : Preview(s) \/ Withdraw(s) \/ Look(s) \/ Cover(s) \/ Stop(s)
    BY <1>1, QuietStep, QuietShowing
  <1>2. CASE \E s \in Sessions : Preview(s) \/ Withdraw(s) \/ Look(s) \/ Cover(s) \/ Stop(s)
    BY <1>2, PreviewShowing, WithdrawShowing, LookShowing, CoverShowing, StopShowing
  <1> QED
    BY <1>1, <1>2

-----------------------------------------------------------------------------
(* The theorems *)

LEMMA PairStepAll ==
  ASSUME TypeOK, PairInv, MineInv, PhaseInv, CastInv, Grown, [Next]_vars
  PROVE  PairInv'
  <1>1. Paired'
    BY PairStep
  <1>2. ASSUME NEW m \in DOMAIN msgs'
        PROVE  msgs'[m].by \in msgs'[m].chat
    <2>1. CASE m \in DOMAIN msgs
      BY <2>1 DEF PairInv, Grown, Lasting
    <2>2. CASE m \notin DOMAIN msgs
      BY <2>2, FreshMsgs DEF AllFresh, Fresh, ChatOf
    <2> QED
      BY <2>1, <2>2
  <1> QED
    BY <1>1, <1>2 DEF PairInv

LEMMA InitInv == ASSUME Init PROVE IInv
  <1>1. SessionType
    BY Bounds DEF Init, SessionType, Steps
  <1>2. CastType
    BY DEF Init, CastType
  <1>3. PageType
    BY Bounds DEF Init, PageType
  <1>4. MsgsType
    BY Bounds DEF Init, MsgsType
  <1>5. StoreType
    <2>1. open \subseteq Chats
      BY DEF Init
    <2>2. text \in [Chats -> Ids \cup {NoText, RecallText}]
      BY DEF Init
    <2>3. time \in [Chats -> -1 .. MaxSeconds] /\ clock \in 0 .. MaxSeconds
      BY Bounds DEF Init
    <2> QED
      BY <2>1, <2>2, <2>3 DEF Init, StoreType
  <1>6. TypeOK
    BY <1>1, <1>2, <1>3, <1>4, <1>5, Types
  <1>7. DOMAIN msgs = {}
    BY DEF Init
  <1>8. \A s \in Sessions : at[s] = "idle" /\ kind[s] = "none"
    BY DEF Init
  <1>9. PhaseInv /\ MineInv /\ BarredInv /\ CastInv /\ PageInv
    BY <1>8 DEF PhaseInv, MineInv, BarredInv, CastInv, PageInv
  <1>10. PairInv /\ BlockHolds
    BY <1>7, <1>8 DEF PairInv, Paired, BlockHolds
  <1>11. ForgottenInv
    BY DEF Init, ForgottenInv
  <1>12. PreviewInv
    <2>1. \A c \in Chats : text[c] = NoText
      BY DEF Init
    <2>2. NoText \notin Ids /\ NoText # RecallText
      BY DEF NoText, RecallText, Ids
    <2> QED
      BY <2>1, <2>2 DEF PreviewInv, Showing
  <1> QED
    BY <1>6, <1>9, <1>10, <1>11, <1>12 DEF IInv

LEMMA StepInv == ASSUME IInv, [Next]_vars PROVE IInv'
  <1>1. /\ TypeOK /\ PhaseInv /\ PairInv /\ ForgottenInv /\ MineInv /\ BarredInv /\ BlockHolds
        /\ CastInv /\ PageInv /\ PreviewInv
    BY DEF IInv
  <1>2. TypeOK' /\ Grown
    BY <1>1, TypeStep
  <1>3. AllFresh
    BY <1>1, FreshMsgs
  <1>4. PhaseInv' /\ ForgottenInv' /\ BarredInv' /\ CastInv'
    BY <1>1, PhaseStep, ForgottenStep, BarredStep, CastStep
  <1>5. PairInv' /\ MineInv'
    BY <1>1, <1>2, PairStepAll, MineStep
  <1>6. BlockHolds'
    BY <1>1, <1>2, <1>3, BlockStep
  <1>7. PageInv' /\ PreviewInv'
    BY <1>1, <1>2, PageStep, PreviewStep
  <1> QED
    BY <1>2, <1>4, <1>5, <1>6, <1>7 DEF IInv

\* The inductive invariant holds in every behaviour, whatever the users, the requests
\* at the same time and the bounds are.
THEOREM Invariant == Spec => []IInv
  BY InitInv, StepInv, PTL DEF Spec

\* Every variable keeps its type: a preview points at a message there can be, and a
\* chat is one of a publisher with one buyer.
THEOREM TypeCorrect == Spec => []TypeOK
  <1>1. IInv => TypeOK
    BY DEF IInv
  <1> QED
    BY <1>1, Invariant, PTL

\* Nobody gets a message sent to him alone from somebody he blocked before it was
\* asked for and has blocked ever since, though the check of the blacklist and the
\* INSERT are two statements.  Broadcasts, which are not checked, are not spoken of.
THEOREM BlockCorrect == Spec => []BlockHolds
  <1>1. IInv => BlockHolds
    BY DEF IInv
  <1> QED
    BY <1>1, Invariant, PTL

\* When no recall is under way, a preview shows no recalled message of its own second,
\* unless the recall came before the preview or stopped, and says "recalled" only for
\* a message of its second, unless the preview changed under the recall.
THEOREM PreviewCorrect == Spec => []PreviewHonest
  <1>1. ASSUME IInv
        PROVE  PreviewHonest
    <2> SUFFICES ASSUME \A s \in Sessions : kind[s] # "recall", NEW c \in Chats
                 PROVE  /\ text[c] \in Ids /\ msgs[text[c]].recalled =>
                              text[c] \in late \/ msgs[text[c]].second # time[c]
                        /\ text[c] = RecallText /\ ~overran =>
                              \E m \in DOMAIN msgs :
                                 msgs[m].chat = c /\ msgs[m].recalled /\ msgs[m].second = time[c]
      BY DEF PreviewHonest
    <2>1. Showing(c)
      BY <1>1 DEF IInv, PreviewInv
    <2>2. \A s \in Sessions : ~Recalling(s, text[c])
      BY DEF Recalling
    <2> QED
      BY <2>1, <2>2 DEF Showing
  <1> QED
    BY <1>1, Invariant, PTL

\* Who has read to the end has got every message that was there when he began and is
\* still visible to him, and none twice, whatever was sent or hidden while he read.
THEOREM PagesCorrect == Spec => []PagesComplete
  <1>1. ASSUME IInv
        PROVE  PagesComplete
    <2> SUFFICES ASSUME NEW s \in Sessions, at[s] = "paged"
                 PROVE  /\ due[s] \cap Visible(who[s], ChatOf(s)) \subseteq Got(s)
                        /\ \A i, j \in DOMAIN got[s] : i # j => got[s][i] \cap got[s][j] = {}
      BY DEF PagesComplete, At, Got
    <2>1. kind[s] = "read"
      BY <1>1 DEF IInv, PhaseInv, TypeOK
    <2>2. Following(s)
      BY <1>1, <2>1 DEF IInv, PageInv
    <2> QED
      BY <2>2 DEF Following
  <1> QED
    BY <1>1, Invariant, PTL

\* A broadcast reports the buyers it has reached and whose message did not fail, and
\* it has tried every buyer unless its database session was broken.
THEOREM CastCorrect == Spec => []BroadcastCounts
  <1>1. ASSUME IInv
        PROVE  BroadcastCounts
    <2> SUFFICES ASSUME NEW s \in Sessions, at[s] = "report"
                 PROVE  /\ counted[s] = reached[s] \ failed[s]
                        /\ ~broken[s] => reached[s] \cup failed[s] = Buyers
      BY DEF BroadcastCounts, At
    <2>1. kind[s] = "cast"
      BY <1>1 DEF IInv, PhaseInv, TypeOK
    <2> QED
      BY <1>1, <2>1 DEF IInv, CastInv
  <1> QED
    BY <1>1, Invariant, PTL

=============================================================================
