--------------------------- MODULE WebChildProofs ---------------------------
(***************************************************************************)
(* Theorems about the child's server for any number of connections and     *)
(* requests.  The inductive invariant IInv adds which connection is at     *)
(* which end, where the pieces of a request may be, and that what waits to *)
(* be read was sent after everything that has been acted on.               *)
(***************************************************************************)
EXTENDS WebChild, SequenceTheorems, TLAPS

\* Connections are accepted in the order they were made, and only the newest
\* has its client.
LinksOK ==
  /\ pc # "dead" =>
       \A n \in 1..Len(links) :
         /\ links[n].end = "queued" <=> n > client_fd
         /\ links[n].end = "served" <=> n = client_fd /\ pc # "accept"
  /\ pc = "dead" => \A n \in 1..Len(links) : links[n].end = "closed"
  /\ pc \in {"read", "serve", "asleep"} => client_fd # 0
  /\ \A n \in 1..Len(links) : links[n].open => n = Len(links)

\* Requests were sent on one connection after the other.
SentOK ==
  /\ Len(sent) <= MaxRequests
  /\ \A r \in 1..Len(sent) : sent[r].link <= Len(links)
  /\ \A q, r \in 1..Len(sent) : q <= r => sent[q].link <= sent[r].link
  /\ rest => /\ sent # <<>> /\ sent[Len(sent)].link = Len(links)
             /\ links[Len(links)].open

\* A piece waits on the connection that its request was sent on; of a request
\* that is half written there is no more than its head.
Fits(p, n) ==
  /\ p.req <= Len(sent) /\ sent[p.req].link = n
  /\ rest /\ p.req = Len(sent) => p.part = "head"

PiecesOK ==
  \A n \in 1..Len(links) : \A i \in 1..Len(links[n].inbox) : Fits(links[n].inbox[i], n)

\* Acted on, or about to be.
Acted(r) == \E i \in 1..Len(out) : out[i] = r
Taken(r) == Acted(r) \/ (pc \in {"serve", "asleep"} /\ r = root)

\* What waits to be read, or to be completed, was sent after all that was
\* taken.
WaitingIsLater ==
  \A q \in 1..Len(sent) : Taken(q) =>
    /\ \A n \in 1..Len(links) : links[n].end # "closed" =>
         \A i \in 1..Len(links[n].inbox) : q < links[n].inbox[i].req
    /\ rest => q < Len(sent)

\* The request that is served was sent on this connection, and after all that
\* was acted on.
RootOK ==
  pc \in {"serve", "asleep"} =>
    /\ root # 0 /\ sent[root].link = client_fd
    /\ \A i \in 1..Len(out) : out[i] < root

\* A patient client that has left a connection had its answers.
LeftAnswered ==
  patient => \A r \in 1..Len(sent) :
    Expects(r) /\ ~links[sent[r].link].open => Acted(r)

IInv ==
  /\ WebTypeOK
  /\ LinksOK
  /\ SentOK
  /\ PiecesOK
  /\ WaitingIsLater
  /\ RootOK
  /\ ActedInOrder
  /\ LeftAnswered
  /\ ServerSurvives

-----------------------------------------------------------------------------
\* The sequences and what they hold.
LEMMA Shapes ==
  ASSUME WebTypeOK
  PROVE  /\ Len(links) \in Nat /\ DOMAIN links = 1..Len(links)
         /\ Len(sent) \in Nat /\ DOMAIN sent = 1..Len(sent)
         /\ Len(out) \in Nat /\ DOMAIN out = 1..Len(out)
         /\ client_fd \in Nat /\ root \in Nat
         /\ \A n \in 1..Len(links) :
              /\ links[n] \in Link /\ links[n].open \in BOOLEAN
              /\ links[n].end \in {"queued", "served", "closed"}
              /\ links[n].inbox \in Seq(Piece)
              /\ Len(links[n].inbox) \in Nat
              /\ \A i \in 1..Len(links[n].inbox) :
                   links[n].inbox[i] \in Piece /\ links[n].inbox[i].req \in Nat \ {0}
         /\ \A r \in 1..Len(sent) : sent[r].link \in Nat \ {0} /\ sent[r].tag \in Tag
         /\ \A i \in 1..Len(out) : out[i] \in 1..Len(sent)
<1>1. /\ links \in Seq(Link) /\ sent \in Seq([link : 1..MaxLinks, tag : Tag])
      /\ out \in Seq(1..Len(sent))
  BY DEF WebTypeOK
<1>2. /\ Len(links) \in Nat /\ DOMAIN links = 1..Len(links)
      /\ Len(sent) \in Nat /\ DOMAIN sent = 1..Len(sent)
      /\ Len(out) \in Nat /\ DOMAIN out = 1..Len(out)
  BY <1>1, LenProperties
<1>3. client_fd \in Nat /\ root \in Nat
  BY <1>2 DEF WebTypeOK
<1>4. ASSUME NEW n \in 1..Len(links)
      PROVE  /\ links[n] \in Link /\ links[n].open \in BOOLEAN
             /\ links[n].end \in {"queued", "served", "closed"}
             /\ links[n].inbox \in Seq(Piece)
             /\ Len(links[n].inbox) \in Nat
             /\ \A i \in 1..Len(links[n].inbox) :
                  links[n].inbox[i] \in Piece /\ links[n].inbox[i].req \in Nat \ {0}
  <2>1. links[n] \in Link
    BY <1>1, ElementOfSeq
  <2>2. links[n].inbox \in Seq(Piece)
    BY <2>1 DEF Link
  <2>3. \A i \in 1..Len(links[n].inbox) : links[n].inbox[i] \in Piece
    BY <2>2, ElementOfSeq
  <2>4. \A p \in Piece : p.req \in Nat \ {0}
    BY WebAssumption DEF Piece
  <2>5. QED
    BY <2>1, <2>2, <2>3, <2>4, LenProperties DEF Link
<1>5. \A r \in 1..Len(sent) : sent[r] \in [link : 1..MaxLinks, tag : Tag]
  BY <1>1, ElementOfSeq
<1>6. \A r \in 1..Len(sent) : sent[r].link \in Nat \ {0} /\ sent[r].tag \in Tag
  BY <1>5, WebAssumption
<1>7. \A i \in 1..Len(out) : out[i] \in 1..Len(sent)
  BY <1>1, ElementOfSeq
<1>8. QED
  BY <1>2, <1>3, <1>4, <1>6, <1>7

\* What one write to the child changes.
LEMMA PutFacts ==
  ASSUME WebTypeOK, NEW n \in 1..Len(links), NEW r \in 1..MaxRequests,
         NEW part \in {"whole", "head", "tail"}, links' = Put(n, r, part)
  PROVE  /\ links' \in Seq(Link) /\ Len(links') = Len(links)
         /\ \A m \in 1..Len(links) :
              /\ links'[m].open = links[m].open /\ links'[m].end = links[m].end
              /\ m # n => links'[m].inbox = links[m].inbox
         /\ Len(links'[n].inbox) = Len(links[n].inbox) + 1
         /\ \A i \in 1..Len(links[n].inbox) : links'[n].inbox[i] = links[n].inbox[i]
         /\ links'[n].inbox[Len(links[n].inbox) + 1] = [req |-> r, part |-> part]
<1> DEFINE piece == [req |-> r, part |-> part]
           l == [links[n] EXCEPT !.inbox = Append(@, piece)]
<1>1. links \in Seq(Link) /\ links[n] \in Link /\ links[n].inbox \in Seq(Piece)
      /\ DOMAIN links = 1..Len(links)
  BY Shapes DEF WebTypeOK
<1>2. piece \in Piece
  BY DEF Piece
<1>3. /\ Append(links[n].inbox, piece) \in Seq(Piece)
      /\ Len(Append(links[n].inbox, piece)) = Len(links[n].inbox) + 1
      /\ \A i \in 1..Len(links[n].inbox) : Append(links[n].inbox, piece)[i] = links[n].inbox[i]
      /\ Append(links[n].inbox, piece)[Len(links[n].inbox) + 1] = piece
  BY <1>1, <1>2, AppendProperties
<1> HIDE DEF piece
<1>4. /\ l \in Link /\ l.open = links[n].open /\ l.end = links[n].end
      /\ l.inbox = Append(links[n].inbox, piece)
  BY <1>1, <1>3 DEF Link
<1>5. links' = [links EXCEPT ![n] = l]
  BY DEF Put, piece
<1> HIDE DEF l
<1>6. links' \in Seq(Link) /\ Len(links') = Len(links) /\ links'[n] = l
      /\ \A m \in 1..Len(links) \ {n} : links'[m] = links[m]
  BY <1>1, <1>4, <1>5, ExceptSeq
<1>7. QED
  BY <1>3, <1>4, <1>6 DEF piece

\* The client's writes and its leaving do not change the child's ends.
LEMMA EndsKept ==
  ASSUME WebTypeOK, LinksOK, UNCHANGED <<pc, client_fd>>,
         links' \in Seq(Link), Len(links') = Len(links),
         \A m \in 1..Len(links) : /\ links'[m].end = links[m].end
                                  /\ links'[m].open => links[m].open
  PROVE  /\ LinksOK'
         /\ \A m \in 1..Len(links') :
              links'[m].end = "served" <=> m = client_fd' /\ pc' \in {"read", "serve", "asleep"}
<1>1. UNCHANGED <<pc, client_fd>> /\ Len(links') = Len(links)
  OBVIOUS
<1>2. \A m \in 1..Len(links') :
        links'[m].end = "served" <=> m = client_fd' /\ pc' \in {"read", "serve", "asleep"}
  BY DEF WebTypeOK
<1>3. pc' # "dead" =>
        \A m \in 1..Len(links') :
          /\ links'[m].end = "queued" <=> m > client_fd'
          /\ links'[m].end = "served" <=> m = client_fd' /\ pc' # "accept"
  <2>1. pc # "dead" =>
          \A m \in 1..Len(links) :
            /\ links[m].end = "queued" <=> m > client_fd
            /\ links[m].end = "served" <=> m = client_fd /\ pc # "accept"
    BY DEF LinksOK
  <2>2. QED
    BY <1>1, <2>1
<1>4. pc' = "dead" => \A m \in 1..Len(links') : links'[m].end = "closed"
  <2>1. pc = "dead" => \A m \in 1..Len(links) : links[m].end = "closed"
    BY DEF LinksOK
  <2>2. QED
    BY <1>1, <2>1
<1>5. pc' \in {"read", "serve", "asleep"} => client_fd' # 0
  BY <1>1 DEF LinksOK
<1>6. \A m \in 1..Len(links') : links'[m].open => m = Len(links')
  <2>1. \A m \in 1..Len(links) : links[m].open => m = Len(links)
    BY DEF LinksOK
  <2>2. QED
    BY <1>1, <2>1
<1>7. LinksOK'
  BY <1>3, <1>4, <1>5, <1>6, Zenon DEF LinksOK
<1>8. QED
  BY <1>2, <1>7

-----------------------------------------------------------------------------
(***************************************************************************)
(* Every action keeps the inductive invariant.                             *)
(***************************************************************************)
LEMMA SendInv ==
  ASSUME IInv, NEW n \in 1..MaxLinks, NEW tag \in Tag, Send(n, tag)
  PROVE  IInv'
<1> DEFINE S == Len(sent)
           L == Len(links)
<1>1. /\ n \in 1..L /\ links[n].open /\ links[n].end # "closed" /\ ~rest /\ S < MaxRequests
      /\ sent' = Append(sent, [link |-> n, tag |-> tag])
      /\ UNCHANGED <<pc, client_fd, root, bridge, out>>
      /\ patient' \in BOOLEAN /\ (patient' => patient)
  BY DEF Send, Open, IInv, WebTypeOK
<1>2. PICK part \in {"whole", "head"} :
        links' = Put(n, S + 1, part) /\ rest' \in BOOLEAN /\ (rest' <=> part = "head")
  BY DEF Send
<1>3. S \in Nat /\ L \in Nat /\ S + 1 \in 1..MaxRequests
  BY <1>1, Shapes, WebAssumption DEF IInv
<1>4. /\ sent' \in Seq([link : 1..MaxLinks, tag : Tag])
      /\ Len(sent') = S + 1
      /\ \A r \in 1..S : sent'[r] = sent[r]
      /\ sent'[S + 1].link = n
  BY <1>1, AppendProperties DEF IInv, WebTypeOK
<1>5. /\ links' \in Seq(Link) /\ Len(links') = L
      /\ \A m \in 1..L :
           /\ links'[m].open = links[m].open /\ links'[m].end = links[m].end
           /\ m # n => links'[m].inbox = links[m].inbox
      /\ Len(links'[n].inbox) = Len(links[n].inbox) + 1
      /\ \A i \in 1..Len(links[n].inbox) : links'[n].inbox[i] = links[n].inbox[i]
      /\ links'[n].inbox[Len(links[n].inbox) + 1] = [req |-> S + 1, part |-> part]
  <2>1. PICK r \in 1..MaxRequests : r = S + 1 /\ links' = Put(n, r, part)
    BY <1>2, <1>3
  <2>2. WebTypeOK /\ n \in 1..Len(links) /\ part \in {"whole", "head", "tail"}
    BY <1>1 DEF IInv
  <2>3. /\ links' \in Seq(Link) /\ Len(links') = Len(links)
        /\ \A m \in 1..Len(links) :
             /\ links'[m].open = links[m].open /\ links'[m].end = links[m].end
             /\ m # n => links'[m].inbox = links[m].inbox
        /\ Len(links'[n].inbox) = Len(links[n].inbox) + 1
        /\ \A i \in 1..Len(links[n].inbox) : links'[n].inbox[i] = links[n].inbox[i]
        /\ links'[n].inbox[Len(links[n].inbox) + 1] = [req |-> r, part |-> part]
    BY <2>1, <2>2, PutFacts, Zenon
  <2>4. QED
    BY <2>1, <2>3, Zenon
<1>6. n = L
  BY <1>1 DEF IInv, LinksOK
<1> HIDE DEF S, L
<1>7. WebTypeOK'
  <2>1. out' \in Seq(1..Len(sent'))
    <3>1. 1..S \subseteq 1..Len(sent') /\ out \in Seq(1..S)
      BY <1>3, <1>4 DEF IInv, WebTypeOK, S
    <3>2. QED
      BY <1>1, <3>1, SeqMonotonic
  <2>2. root' \in 0..Len(sent') /\ client_fd' \in 0..Len(links')
    BY <1>1, <1>3, <1>4, <1>5 DEF IInv, WebTypeOK, S, L
  <2>3. \A m \in 1..Len(links') :
          links'[m].end = "served" <=> m = client_fd' /\ pc' \in {"read", "serve", "asleep"}
    BY <1>1, <1>5, EndsKept DEF IInv, L
  <2>4. pc' \in {"accept", "read", "serve", "asleep", "dead"} /\ bridge' \in {"silent", "heard", "gone"}
    BY <1>1 DEF IInv, WebTypeOK
  <2>5. QED
    BY <1>1, <1>2, <1>4, <1>5, <2>1, <2>2, <2>3, <2>4, Zenon DEF WebTypeOK
<1>8. LinksOK'
  BY <1>1, <1>5, EndsKept DEF IInv, L
<1>9. SentOK'
  <2>1. \A r \in 1..S : sent[r].link <= L
    BY DEF IInv, SentOK, S, L
  <2>2. \A q, r \in 1..S : q <= r => sent[q].link <= sent[r].link
    BY DEF IInv, SentOK, S
  <2>3. \A r \in 1..S + 1 : r = S + 1 \/ r \in 1..S
    BY <1>3
  <2>4. sent' # <<>>
    BY <1>3, <1>4
  <2>5. links'[L].open
    BY <1>1, <1>5, <1>6
  <2>6. \A r \in 1..S + 1 : sent'[r].link <= L
    BY <1>1, <1>3, <1>4, <1>6, <2>1, <2>3
  <2>7. \A q, r \in 1..S + 1 : q <= r => sent'[q].link <= sent'[r].link
    <3>1. ASSUME NEW q \in 1..S + 1, NEW r \in 1..S + 1, q <= r
          PROVE  sent'[q].link <= sent'[r].link
      <4>1. CASE r = S + 1
        BY <1>4, <1>6, <2>6, <4>1
      <4>2. CASE r \in 1..S
        BY <1>3, <1>4, <2>2, <2>3, <3>1, <4>2
      <4>3. QED
        BY <2>3, <4>1, <4>2
    <3>2. QED
      BY <3>1
  <2>8. QED
    BY <1>3, <1>4, <1>5, <1>6, <2>4, <2>5, <2>6, <2>7 DEF SentOK
<1>10. \A m \in 1..L : \A i \in 1..Len(links'[m].inbox) :
         \/ m = n /\ links'[m].inbox[i] = [req |-> S + 1, part |-> part]
         \/ i \in 1..Len(links[m].inbox) /\ links'[m].inbox[i] = links[m].inbox[i]
  <2>1. ASSUME NEW m \in 1..L, m # n
        PROVE  links'[m].inbox = links[m].inbox
    BY <1>5, <2>1
  <2>2. Len(links[n].inbox) \in Nat
    BY <1>1, Shapes DEF IInv, L
  <2>3. \A i \in 1..Len(links'[n].inbox) :
          i \in 1..Len(links[n].inbox) \/ i = Len(links[n].inbox) + 1
    BY <1>5, <2>2
  <2>4. QED
    BY <1>5, <2>1, <2>3
<1>11. \A m \in 1..L : \A i \in 1..Len(links[m].inbox) :
         /\ links[m].inbox[i].req \in 1..S
         /\ sent[links[m].inbox[i].req].link = m
  <2>1. WebTypeOK /\ PiecesOK
    BY DEF IInv
  <2>2. ASSUME NEW m \in 1..L, NEW i \in 1..Len(links[m].inbox)
        PROVE  Fits(links[m].inbox[i], m) /\ links[m].inbox[i].req \in Nat \ {0}
    BY <2>1, <2>2, Shapes DEF PiecesOK, L
  <2>3. ASSUME NEW p, p.req \in Nat \ {0}, p.req <= S
        PROVE  p.req \in 1..S
    BY <1>3, <2>3
  <2>4. QED
    BY <2>2, <2>3 DEF Fits, S
<1>12. PiecesOK'
  <2>1. ASSUME NEW m \in 1..L, NEW i \in 1..Len(links'[m].inbox)
        PROVE  Fits(links[m].inbox[i], m)'
    <3>1. CASE m = n /\ links'[m].inbox[i] = [req |-> S + 1, part |-> part]
      <4>1. PICK p : p = links'[m].inbox[i]
        OBVIOUS
      <4>2. p.req = S + 1 /\ p.part = part
        BY <3>1, <4>1
      <4>3. p.req <= Len(sent') /\ sent'[p.req].link = m
        BY <1>3, <1>4, <3>1, <4>2
      <4>4. rest' /\ p.req = Len(sent') => p.part = "head"
        BY <1>2, <1>4, <4>2
      <4>5. QED
        BY <4>1, <4>3, <4>4 DEF Fits
    <3>2. CASE i \in 1..Len(links[m].inbox) /\ links'[m].inbox[i] = links[m].inbox[i]
      <4> DEFINE r == links[m].inbox[i].req
      <4>1. r \in 1..S /\ sent[r].link = m /\ links'[m].inbox[i].req = r
        BY <1>11, <3>2
      <4> HIDE DEF r
      <4>2. sent'[r] = sent[r] /\ r # S + 1 /\ r <= S + 1
        BY <1>3, <1>4, <4>1
      <4>3. QED
        BY <1>4, <4>1, <4>2 DEF Fits
    <3>3. QED
      BY <1>10, <3>1, <3>2
  <2>2. QED
    BY <1>5, <2>1 DEF PiecesOK
<1>13. \A q : Taken(q)' <=> Taken(q)
  BY <1>1 DEF Taken, Acted
<1>14. \A q : Taken(q) => q \in 1..S
  <2>1. \A i \in 1..Len(out) : out[i] \in 1..S
    BY Shapes DEF IInv, S
  <2>2. pc \in {"serve", "asleep"} => root \in 1..S
    <3>1. root \in 0..S /\ (pc \in {"serve", "asleep"} => root # 0)
      BY DEF IInv, WebTypeOK, RootOK, S
    <3>2. QED
      BY <1>3, <3>1
  <2>3. QED
    BY <2>1, <2>2 DEF Taken, Acted
<1>15. WaitingIsLater'
  <2>1. ASSUME NEW q \in 1..S, Taken(q), NEW m \in 1..L, links[m].end # "closed",
               NEW i \in 1..Len(links[m].inbox)
        PROVE  q < links[m].inbox[i].req
    BY <2>1 DEF IInv, WaitingIsLater, S, L
  <2>2. ASSUME NEW q \in 1..S, Taken(q), NEW m \in 1..L, links[m].end # "closed",
               NEW i \in 1..Len(links'[m].inbox)
        PROVE  q < links'[m].inbox[i].req
    <3>1. CASE links'[m].inbox[i] = [req |-> S + 1, part |-> part]
      BY <1>3, <3>1
    <3>2. CASE i \in 1..Len(links[m].inbox) /\ links'[m].inbox[i] = links[m].inbox[i]
      BY <2>1, <2>2, <3>2
    <3>3. QED
      BY <1>10, <3>1, <3>2
  <2>3. \A q \in 1..S : q < S + 1
    BY <1>3
  <2>4. QED
    BY <1>4, <1>5, <1>13, <1>14, <2>2, <2>3 DEF WaitingIsLater
<1>16. RootOK' /\ ActedInOrder' /\ ServerSurvives'
  BY <1>1, <1>4, Shapes DEF IInv, RootOK, ActedInOrder, ServerSurvives, WebTypeOK, S
<1>17. LeftAnswered'
  <2>1. \A r \in 1..S : sent[r].link \in 1..L
    BY Shapes DEF IInv, SentOK, S, L
  <2>2. \A r \in 1..S + 1 : r = S + 1 \/ r \in 1..S
    BY <1>3
  <2>3. ASSUME patient, NEW r \in 1..S, Expects(r), ~links[sent[r].link].open
        PROVE  Acted(r)
    BY <2>3 DEF IInv, LeftAnswered, S
  <2>4. \A r : Acted(r)' <=> Acted(r)
    BY <1>1 DEF Acted
  <2>5. \A r \in 1..S : /\ Expects(r)' <=> Expects(r)
                       /\ links'[sent'[r].link].open <=> links[sent[r].link].open
    BY <1>4, <1>5, <2>1 DEF Expects
  <2>6. links'[sent'[S + 1].link].open
    BY <1>1, <1>4, <1>5
  <2>7. ASSUME patient', NEW r \in 1..S + 1, Expects(r)', ~links'[sent'[r].link].open
        PROVE  Acted(r)'
    <3>1. r \in 1..S
      BY <2>2, <2>6, <2>7
    <3>2. patient /\ Expects(r) /\ ~links[sent[r].link].open
      <4>1. patient
        BY <1>1, <2>7
      <4>2. Expects(r)
        BY <1>4, <2>7, <3>1 DEF Expects
      <4>3. ~links[sent[r].link].open
        BY <2>5, <2>7, <3>1
      <4>4. QED
        BY <4>1, <4>2, <4>3
    <3>3. Acted(r)
      BY <2>3, <3>1, <3>2
    <3>4. QED
      BY <2>4, <3>3
  <2>8. QED
    BY <1>4, <2>7 DEF LeftAnswered
<1>18. QED
  BY <1>7, <1>8, <1>9, <1>12, <1>15, <1>16, <1>17 DEF IInv

LEMMA SendRestInv ==
  ASSUME IInv, NEW n \in 1..MaxLinks, SendRest(n)
  PROVE  IInv'
<1> DEFINE S == Len(sent)
           L == Len(links)
           piece == [req |-> S, part |-> "tail"]
<1>1. /\ n \in 1..L /\ links[n].open /\ links[n].end # "closed" /\ rest
      /\ links' = Put(n, S, "tail") /\ rest' = FALSE
      /\ UNCHANGED <<pc, client_fd, root, sent, bridge, out, patient>>
  BY DEF SendRest, Open
<1>2. /\ S \in Nat /\ L \in Nat /\ S \in 1..MaxRequests
      /\ n = L /\ sent[S].link = n
  BY <1>1, Shapes, EmptySeq, WebAssumption DEF IInv, LinksOK, SentOK, WebTypeOK
<1>3. /\ links' \in Seq(Link) /\ Len(links') = L
      /\ \A m \in 1..L :
           /\ links'[m].open = links[m].open /\ links'[m].end = links[m].end
           /\ m # n => links'[m].inbox = links[m].inbox
      /\ Len(links'[n].inbox) = Len(links[n].inbox) + 1
      /\ \A i \in 1..Len(links[n].inbox) : links'[n].inbox[i] = links[n].inbox[i]
      /\ links'[n].inbox[Len(links[n].inbox) + 1] = piece
  BY <1>1, <1>2, PutFacts DEF IInv
<1> HIDE DEF S, L
<1>4. WebTypeOK' /\ LinksOK' /\ RootOK' /\ ActedInOrder' /\ ServerSurvives'
  <2>1. WebTypeOK'
    <3>1. \A m \in 1..Len(links') :
            links'[m].end = "served" <=> m = client_fd' /\ pc' \in {"read", "serve", "asleep"}
      BY <1>1, <1>3, EndsKept DEF IInv, L
    <3>2. client_fd' \in 0..Len(links')
      BY <1>1, <1>3 DEF IInv, WebTypeOK, L
    <3>3. /\ pc \in {"accept", "read", "serve", "asleep", "dead"} /\ root \in 0..Len(sent)
          /\ sent \in Seq([link : 1..MaxLinks, tag : Tag])
          /\ bridge \in {"silent", "heard", "gone"} /\ patient \in BOOLEAN
          /\ out \in Seq(1..Len(sent))
      BY DEF IInv, WebTypeOK
    <3>4. QED
      BY <1>1, <1>3, <3>1, <3>2, <3>3, Zenon DEF WebTypeOK
  <2>2. LinksOK'
    BY <1>1, <1>3, EndsKept DEF IInv, L
  <2>3. RootOK' /\ ActedInOrder' /\ ServerSurvives'
    BY <1>1 DEF IInv, RootOK, ActedInOrder, ServerSurvives
  <2>4. QED
    BY <2>1, <2>2, <2>3
<1>5. SentOK'
  BY <1>1, <1>3 DEF IInv, SentOK, L
<1>6. \A m \in 1..L : \A i \in 1..Len(links'[m].inbox) :
        \/ m = n /\ links'[m].inbox[i] = piece
        \/ i \in 1..Len(links[m].inbox) /\ links'[m].inbox[i] = links[m].inbox[i]
  <2>1. ASSUME NEW m \in 1..L, m # n
        PROVE  links'[m].inbox = links[m].inbox
    BY <1>3, <2>1
  <2>2. Len(links[n].inbox) \in Nat
    BY <1>1, Shapes DEF IInv, L
  <2>3. \A i \in 1..Len(links'[n].inbox) :
          i \in 1..Len(links[n].inbox) \/ i = Len(links[n].inbox) + 1
    BY <1>3, <2>2
  <2>4. QED
    BY <1>3, <2>1, <2>3
<1>7. PiecesOK'
  <2>1. ASSUME NEW m \in 1..L, NEW i \in 1..Len(links[m].inbox)
        PROVE  Fits(links[m].inbox[i], m)
    BY <2>1 DEF IInv, PiecesOK, L
  <2>2. ASSUME NEW m \in 1..L, NEW i \in 1..Len(links'[m].inbox)
        PROVE  Fits(links[m].inbox[i], m)'
    <3>1. CASE m = n /\ links'[m].inbox[i] = piece
      <4>1. PICK p : p = links'[m].inbox[i]
        OBVIOUS
      <4>2. p.req = piece.req /\ p.part = piece.part /\ m = n
        BY <3>1, <4>1
      <4>3. p.req <= Len(sent') /\ sent'[p.req].link = m
        BY <1>1, <1>2, <4>2 DEF S
      <4>4. rest' /\ p.req = Len(sent') => p.part = "head"
        BY <1>1, <1>2, <4>2 DEF S
      <4>5. QED
        BY <4>1, <4>3, <4>4 DEF Fits
    <3>2. CASE i \in 1..Len(links[m].inbox) /\ links'[m].inbox[i] = links[m].inbox[i]
      <4>1. Fits(links[m].inbox[i], m)
        BY <2>1, <3>2
      <4>2. QED
        BY <1>1, <3>2, <4>1 DEF Fits
    <3>3. QED
      BY <1>6, <3>1, <3>2
  <2>3. QED
    BY <1>3, <2>2 DEF PiecesOK
<1>8. WaitingIsLater'
  <2>1. ASSUME NEW q \in 1..S, Taken(q), NEW m \in 1..L, links[m].end # "closed",
               NEW i \in 1..Len(links'[m].inbox)
        PROVE  q < links'[m].inbox[i].req
    <3>1. CASE links'[m].inbox[i] = piece
      BY <1>1, <2>1, <3>1 DEF IInv, WaitingIsLater, S
    <3>2. CASE i \in 1..Len(links[m].inbox) /\ links'[m].inbox[i] = links[m].inbox[i]
      BY <2>1, <3>2 DEF IInv, WaitingIsLater, S, L
    <3>3. QED
      BY <1>6, <3>1, <3>2
  <2>2. \A q : Taken(q)' <=> Taken(q)
    BY <1>1 DEF Taken, Acted
  <2>3. QED
    BY <1>1, <1>3, <2>1, <2>2 DEF WaitingIsLater, S
<1>9. LeftAnswered'
  <2>1. \A r \in 1..S : sent[r].link \in 1..L
    BY Shapes DEF IInv, SentOK, S, L
  <2>2. QED
    BY <1>1, <1>3, <2>1 DEF IInv, LeftAnswered, Expects, Acted, S
<1>10. QED
  BY <1>4, <1>5, <1>7, <1>8, <1>9 DEF IInv

\* No piece has been added to what waits, and no connection opened.
PiecesStay ==
  \A n \in 1..Len(links') : \A i \in 1..Len(links'[n].inbox) :
    /\ n \in 1..Len(links) /\ i \in 1..Len(links[n].inbox)
    /\ links'[n].inbox[i] = links[n].inbox[i]
    /\ links'[n].end # "closed" => links[n].end # "closed"

LEMMA PiecesStayOK ==
  ASSUME IInv, PiecesStay, UNCHANGED sent, rest' => rest
  PROVE  /\ PiecesOK'
         /\ (\A q : Taken(q)' => Taken(q)) => WaitingIsLater'
<1>1. PiecesOK'
  <2>1. ASSUME NEW n \in 1..Len(links'), NEW i \in 1..Len(links'[n].inbox)
        PROVE  Fits(links[n].inbox[i], n)'
    <3>1. /\ n \in 1..Len(links) /\ i \in 1..Len(links[n].inbox)
          /\ links'[n].inbox[i] = links[n].inbox[i]
      BY <2>1 DEF PiecesStay
    <3>2. Fits(links[n].inbox[i], n)
      BY <3>1 DEF IInv, PiecesOK
    <3>3. QED
      BY <3>1, <3>2 DEF Fits
  <2>2. QED
    BY <2>1 DEF PiecesOK
<1>2. ASSUME \A q : Taken(q)' => Taken(q)
      PROVE  WaitingIsLater'
  BY <1>2 DEF IInv, WaitingIsLater, PiecesStay
<1>3. QED
  BY <1>1, <1>2

\* Nothing is said of the child's progress.
ChildStays == UNCHANGED <<pc, client_fd, root, sent, bridge, out>>

LEMMA ConnectInv ==
  ASSUME IInv, Connect
  PROVE  IInv'
<1> DEFINE L == Len(links)
           l == [open |-> TRUE, end |-> "queued", inbox |-> <<>>]
<1>1. /\ pc # "dead" /\ \A n \in 1..L : ~links[n].open
      /\ links' = Append(links, l) /\ UNCHANGED <<rest, patient>> /\ ChildStays
  BY DEF Connect, ChildStays
<1>2. l \in Link /\ Len(l.inbox) = 0
  BY DEF Link
<1>3. /\ L \in Nat /\ links' \in Seq(Link) /\ Len(links') = L + 1
      /\ \A n \in 1..L : links'[n] = links[n]
      /\ links'[L + 1] = l
  BY <1>1, <1>2, Shapes, AppendProperties DEF IInv, WebTypeOK
<1> HIDE DEF L
<1>4. \A n \in 1..L + 1 : n \in 1..L \/ n = L + 1
  BY <1>3
<1>5. client_fd \in 0..L /\ \A r \in 1..Len(sent) : sent[r].link \in 1..L
  BY Shapes DEF IInv, WebTypeOK, SentOK, L
<1>6. WebTypeOK'
  <2>1. \A n \in 1..L + 1 :
          links'[n].end = "served" <=> n = client_fd /\ pc \in {"read", "serve", "asleep"}
    <3>1. \A n \in 1..L :
            links[n].end = "served" <=> n = client_fd /\ pc \in {"read", "serve", "asleep"}
      BY DEF IInv, WebTypeOK, L
    <3>2. links'[L + 1].end = "queued" /\ L + 1 # client_fd
      BY <1>3, <1>5
    <3>3. QED
      BY <1>3, <1>4, <3>1, <3>2
  <2>2. client_fd \in 0..L + 1
    BY <1>3, <1>5
  <2>3. QED
    BY <1>1, <1>3, <2>1, <2>2 DEF IInv, WebTypeOK, ChildStays
<1>7. LinksOK'
  <2>1. \A n \in 1..L + 1 :
          /\ links'[n].end = "queued" <=> n > client_fd
          /\ links'[n].end = "served" <=> n = client_fd /\ pc # "accept"
    BY <1>1, <1>3, <1>4, <1>5 DEF IInv, LinksOK, L
  <2>2. \A n \in 1..L + 1 : links'[n].open => n = L + 1
    BY <1>1, <1>3, <1>4
  <2>3. QED
    BY <1>1, <1>3, <2>1, <2>2 DEF IInv, LinksOK, ChildStays
<1>8. ~rest
  <2>1. rest => \E r \in 1..Len(sent) : sent[r].link = L /\ links[L].open
    <3>1. rest => Len(sent) \in 1..Len(sent)
      BY Shapes, EmptySeq DEF IInv, SentOK, WebTypeOK
    <3>2. QED
      BY <3>1 DEF IInv, SentOK, L
  <2>2. QED
    BY <1>1, <1>5, <2>1
<1>9. SentOK'
  <2>1. \A r \in 1..Len(sent) : sent[r].link <= L + 1
    BY <1>3, <1>5
  <2>2. QED
    BY <1>1, <1>3, <1>8, <2>1 DEF IInv, SentOK, ChildStays
<1>10. PiecesStay
  <2>1. \A i \in 1..Len(l.inbox) : FALSE
    BY <1>2
  <2> HIDE DEF l
  <2>2. QED
    BY <1>3, <1>4, <2>1 DEF PiecesStay, L
<1>11. PiecesOK' /\ WaitingIsLater'
  BY <1>1, <1>10, PiecesStayOK DEF ChildStays, Taken, Acted
<1>12. RootOK' /\ ActedInOrder' /\ ServerSurvives'
  BY <1>1 DEF IInv, RootOK, ActedInOrder, ServerSurvives, ChildStays
<1>13. LeftAnswered'
  BY <1>1, <1>3, <1>5 DEF IInv, LeftAnswered, Expects, Acted, ChildStays
<1>14. QED
  BY <1>6, <1>7, <1>9, <1>11, <1>12, <1>13 DEF IInv

LEMMA DisconnectInv ==
  ASSUME IInv, NEW n \in 1..MaxLinks, Disconnect(n)
  PROVE  IInv'
<1> DEFINE L == Len(links)
           l == [links[n] EXCEPT !.open = FALSE]
<1>1. /\ n \in 1..L /\ links[n].open
      /\ links' = [links EXCEPT ![n] = l] /\ rest' = FALSE /\ ChildStays
      /\ patient' \in BOOLEAN /\ (patient' => patient /\ MayLeave(n))
  BY DEF Disconnect, Open, ChildStays, IInv, WebTypeOK
<1>2. /\ l \in Link /\ l.open = FALSE /\ l.end = links[n].end /\ l.inbox = links[n].inbox
  BY <1>1, Shapes DEF IInv, Link
<1> HIDE DEF l
<1>3. /\ L \in Nat /\ links' \in Seq(Link) /\ Len(links') = L /\ links'[n] = l
      /\ \A m \in 1..L \ {n} : links'[m] = links[m]
  BY <1>1, <1>2, Shapes, ExceptSeq DEF IInv, WebTypeOK
<1>4. \A m \in 1..L : /\ links'[m].end = links[m].end /\ links'[m].inbox = links[m].inbox
                      /\ links'[m].open => links[m].open
  BY <1>2, <1>3
<1>5. n = L /\ \A r \in 1..Len(sent) : sent[r].link \in 1..L
  <2>1. n = L
    BY <1>1 DEF IInv, LinksOK
  <2>2. \A r \in 1..Len(sent) : sent[r].link \in 1..L
    BY <1>3, Shapes DEF IInv, SentOK
  <2>3. QED
    BY <2>1, <2>2
<1> HIDE DEF L
<1>6. WebTypeOK'
  BY <1>1, <1>3, <1>4 DEF IInv, WebTypeOK, ChildStays, L
<1>7. LinksOK'
  BY <1>1, <1>3, <1>4, EndsKept DEF IInv, ChildStays, L
<1>8. SentOK'
  BY <1>1, <1>3 DEF IInv, SentOK, ChildStays, L
<1>9. PiecesStay
  BY <1>3, <1>4 DEF PiecesStay, L
<1>10. PiecesOK' /\ WaitingIsLater'
  BY <1>1, <1>9, PiecesStayOK DEF ChildStays, Taken, Acted
<1>11. RootOK' /\ ActedInOrder' /\ ServerSurvives'
  BY <1>1 DEF IInv, RootOK, ActedInOrder, ServerSurvives, ChildStays
<1>12. LeftAnswered'
  <2>1. \A r : r \in ToSet(out) => Acted(r)
    BY Shapes DEF IInv, ToSet, Acted
  <2>2. ASSUME patient', NEW r \in 1..Len(sent), Expects(r), ~links'[sent[r].link].open
        PROVE  Acted(r)
    <3>1. CASE sent[r].link = n
      BY <1>1, <2>1, <2>2, <3>1 DEF MayLeave
    <3>2. CASE sent[r].link # n
      BY <1>1, <1>3, <1>5, <2>2, <3>2 DEF IInv, LeftAnswered
    <3>3. QED
      BY <3>1, <3>2
  <2>3. QED
    BY <1>1, <2>2 DEF LeftAnswered, Expects, Acted, ChildStays
<1>13. QED
  BY <1>6, <1>7, <1>8, <1>10, <1>11, <1>12 DEF IInv

\* The parent hears the pump's address, or nothing happens.
LEMMA IdleInv ==
  ASSUME IInv,
         \/ UpdatePPmeshAddr \/ Hangup \/ SleepOnMutex \/ Wake \/ UNCHANGED web_vars
  PROVE  IInv'
<1>1. /\ UNCHANGED <<client_fd, root, links, sent, rest, out, patient>>
      /\ pc' = pc \/ {pc, pc'} = {"serve", "asleep"}
      /\ bridge' \in {"silent", "heard", "gone"} /\ (bridge = "gone" => bridge' = "gone")
  BY DEF IInv, WebTypeOK, UpdatePPmeshAddr, Hangup, SleepOnMutex, Wake, web_vars
<1>2. WebTypeOK' /\ LinksOK' /\ SentOK'
  <2>1. pc' = pc \/ (pc \in {"serve", "asleep"} /\ pc' \in {"serve", "asleep"})
    BY <1>1
  <2>2. WebTypeOK'
    BY <1>1, <2>1 DEF IInv, WebTypeOK
  <2>3. LinksOK' /\ SentOK'
    BY <1>1, <2>1 DEF IInv, LinksOK, SentOK
  <2>4. QED
    BY <2>2, <2>3
<1>3. PiecesStay
  BY <1>1 DEF PiecesStay
<1>4. PiecesOK' /\ WaitingIsLater'
  BY <1>1, <1>3, PiecesStayOK DEF Taken, Acted
<1>5. RootOK' /\ ActedInOrder' /\ ServerSurvives'
  BY <1>1 DEF IInv, RootOK, ActedInOrder, ServerSurvives
<1>6. LeftAnswered'
  BY <1>1 DEF IInv, LeftAnswered, Expects, Acted
<1>7. QED
  BY <1>2, <1>4, <1>5, <1>6 DEF IInv

LEMMA AcceptInv ==
  ASSUME IInv, Accept
  PROVE  IInv'
<1> DEFINE L == Len(links)
           queued == {n \in 1..L : links[n].end = "queued"}
           c == client_fd + 1
           l == [links[c] EXCEPT !.end = "served"]
<1>1. /\ pc = "accept" /\ queued # {} /\ client_fd' = Min(queued)
      /\ links' = [links EXCEPT ![Min(queued)].end = "served"]
      /\ pc' = "read"
      /\ UNCHANGED <<root, sent, rest, bridge, out, patient>>
  BY DEF Accept
<1>2. L \in Nat /\ client_fd \in Nat /\ links \in Seq(Link)
  BY Shapes DEF IInv, WebTypeOK
<1>3. queued = {n \in 1..L : n > client_fd}
  BY <1>1 DEF IInv, LinksOK
<1>4. c \in 1..L /\ Min(queued) = c
  <2>1. c \in queued /\ \A n \in queued : c <= n
    BY <1>1, <1>2, <1>3
  <2>2. \A m \in queued : (\A n \in queued : m <= n) => m = c
    BY <2>1, <1>2
  <2>3. QED
    BY <1>2, <2>1, <2>2 DEF Min
<1>5. links' = [links EXCEPT ![c] = l] /\ client_fd' = c
  BY <1>1, <1>4
<1>6. links[c] \in Link /\ links[c].inbox \in Seq(Piece) /\ links[c].end = "queued"
  <2>1. c > client_fd
    BY <1>2
  <2>2. QED
    BY <1>1, <1>4, <2>1, Shapes DEF IInv, LinksOK
<1>7. /\ l \in Link /\ l.end = "served"
      /\ l.open = links[c].open /\ l.inbox = links[c].inbox
  BY <1>6 DEF Link
<1> HIDE DEF l
<1>8. /\ links' \in Seq(Link) /\ Len(links') = L /\ links'[c] = l
      /\ \A m \in 1..L \ {c} : links'[m] = links[m]
  BY <1>2, <1>4, <1>5, <1>7, ExceptSeq
<1>9. \A m \in 1..L : /\ links'[m].inbox = links[m].inbox
                      /\ links'[m].open = links[m].open
                      /\ links'[m].end = IF m = c THEN "served" ELSE links[m].end
  BY <1>4, <1>7, <1>8
<1>10. LinksOK'
  <2>1. \A m \in 1..L : /\ links[m].end = "queued" <=> m > client_fd
                        /\ links[m].end # "served"
    BY <1>1 DEF IInv, LinksOK
  <2>2. \A m \in 1..L : links[m].open => m = L
    BY DEF IInv, LinksOK
  <2>3. \A m \in 1..L : /\ links'[m].end = "queued" <=> m > c
                        /\ links'[m].end = "served" <=> m = c
    BY <1>2, <1>9, <2>1
  <2>4. c # 0
    BY <1>2
  <2>5. pc' = "read" /\ client_fd' = c /\ Len(links') = L
    BY <1>1, <1>5, <1>8
  <2>6. \A m \in 1..L : links'[m].open => m = L
    BY <1>9, <2>2
  <2> HIDE DEF c, L
  <2>7. QED
    BY <2>3, <2>4, <2>5, <2>6 DEF LinksOK
<1>11. WebTypeOK'
  <2>1. \A m \in 1..L : links'[m].end = "served" <=> m = c /\ pc' # "accept"
    BY <1>5, <1>8, <1>10, <1>1 DEF LinksOK
  <2>2. c \in 0..L
    BY <1>4
  <2> HIDE DEF c, L
  <2>3. QED
    BY <1>1, <1>5, <1>8, <2>1, <2>2 DEF IInv, WebTypeOK
<1>12. SentOK'
  <2>1. rest => links'[L].open = links[L].open
    <3>1. rest => L # 0
      BY Shapes, EmptySeq DEF IInv, SentOK, WebTypeOK
    <3>2. QED
      BY <1>2, <1>9, <3>1
  <2>2. QED
    BY <1>1, <1>8, <2>1 DEF IInv, SentOK
<1>13. PiecesStay
  BY <1>6, <1>8, <1>9 DEF PiecesStay
<1>14. PiecesOK' /\ WaitingIsLater'
  <2>1. \A q : Taken(q)' => Taken(q)
    BY <1>1 DEF Taken, Acted
  <2>2. QED
    BY <1>1, <1>13, <2>1, PiecesStayOK
<1>15. RootOK' /\ ActedInOrder' /\ ServerSurvives'
  BY <1>1 DEF IInv, RootOK, ActedInOrder, ServerSurvives
<1>16. LeftAnswered'
  <2>1. \A r \in 1..Len(sent) : sent[r].link \in 1..L
    BY Shapes DEF IInv, SentOK
  <2>2. QED
    BY <1>1, <1>9, <2>1 DEF IInv, LeftAnswered, Expects, Acted
<1>17. QED
  BY <1>10, <1>11, <1>12, <1>14, <1>15, <1>16 DEF IInv

LEMMA EofInv ==
  ASSUME IInv, Eof
  PROVE  IInv'
<1> DEFINE L == Len(links)
           c == client_fd
           l == [links[c] EXCEPT !.end = "closed"]
<1>1. /\ pc = "read" /\ links' = [links EXCEPT ![c] = l] /\ pc' = "accept"
      /\ UNCHANGED <<client_fd, root, sent, rest, bridge, out, patient>>
  BY DEF Eof, Closed, AfterEof
<1>2. L \in Nat /\ c \in 1..L /\ links \in Seq(Link) /\ links[c] \in Link
  BY <1>1, Shapes DEF IInv, WebTypeOK, LinksOK
<1>3. l \in Link /\ l.end = "closed" /\ l.open = links[c].open /\ l.inbox = links[c].inbox
  BY <1>2 DEF Link
<1> HIDE DEF l
<1>4. /\ links' \in Seq(Link) /\ Len(links') = L /\ links'[c] = l
      /\ \A m \in 1..L \ {c} : links'[m] = links[m]
  BY <1>1, <1>2, <1>3, ExceptSeq
<1>5. \A m \in 1..L : /\ links'[m].inbox = links[m].inbox
                      /\ links'[m].open = links[m].open
                      /\ links'[m].end = IF m = c THEN "closed" ELSE links[m].end
  BY <1>3, <1>4
<1>6. \A m \in 1..L : /\ links'[m].end = "queued" <=> m > c
                      /\ links'[m].end # "served"
  <2>1. \A m \in 1..L : /\ links[m].end = "queued" <=> m > c
                        /\ links[m].end = "served" <=> m = c
    BY <1>1 DEF IInv, LinksOK
  <2>2. QED
    BY <1>2, <1>5, <2>1
<1>7. LinksOK'
  <2>1. \A m \in 1..L : links[m].open => m = L
    BY DEF IInv, LinksOK
  <2> HIDE DEF L
  <2>2. QED
    BY <1>1, <1>4, <1>5, <1>6, <2>1 DEF LinksOK
<1>8. WebTypeOK'
  <2> HIDE DEF L
  <2>1. QED
    BY <1>1, <1>4, <1>6 DEF IInv, WebTypeOK, L
<1>9. SentOK'
  <2>1. rest => links'[L].open = links[L].open
    BY <1>2, <1>5
  <2>2. QED
    BY <1>1, <1>4, <2>1 DEF IInv, SentOK
<1>10. PiecesStay
  BY <1>4, <1>5 DEF PiecesStay
<1>11. PiecesOK' /\ WaitingIsLater'
  <2>1. \A q : Taken(q)' => Taken(q)
    BY <1>1 DEF Taken, Acted
  <2>2. QED
    BY <1>1, <1>10, <2>1, PiecesStayOK
<1>12. RootOK' /\ ActedInOrder' /\ ServerSurvives'
  BY <1>1 DEF IInv, RootOK, ActedInOrder, ServerSurvives
<1>13. LeftAnswered'
  <2>1. \A r \in 1..Len(sent) : sent[r].link \in 1..L
    BY Shapes DEF IInv, SentOK
  <2>2. QED
    BY <1>1, <1>5, <2>1 DEF IInv, LeftAnswered, Expects, Acted
<1>14. QED
  BY <1>7, <1>8, <1>9, <1>11, <1>12, <1>13 DEF IInv

\* What acting on the request in hand adds to the record.
LEMMA ActedNext ==
  ASSUME IInv, pc = "serve", out' = Append(out, root)
  PROVE  /\ out' \in Seq(1..Len(sent)) /\ ActedInOrder'
         /\ \A q : Acted(q)' <=> Acted(q) \/ q = root
<1>1. /\ root \in 1..Len(sent) /\ out \in Seq(1..Len(sent)) /\ Len(out) \in Nat
      /\ \A i \in 1..Len(out) : out[i] < root
  BY Shapes DEF IInv, WebTypeOK, RootOK
<1>2. /\ out' \in Seq(1..Len(sent)) /\ Len(out') = Len(out) + 1
      /\ \A i \in 1..Len(out) : out'[i] = out[i]
      /\ out'[Len(out) + 1] = root
  BY <1>1, AppendProperties
<1>3. \A i \in 1..Len(out) + 1 : i \in 1..Len(out) \/ i = Len(out) + 1
  BY <1>1
<1>4. ActedInOrder'
  <2>1. ASSUME NEW i \in 1..Len(out) + 1, NEW j \in 1..Len(out) + 1, i < j
        PROVE  out'[i] < out'[j]
    <3>1. i \in 1..Len(out)
      BY <1>1, <1>3, <2>1
    <3>2. CASE j = Len(out) + 1
      BY <1>1, <1>2, <3>1, <3>2
    <3>3. CASE j \in 1..Len(out)
      BY <1>2, <2>1, <3>1, <3>3 DEF IInv, ActedInOrder
    <3>4. QED
      BY <1>3, <3>2, <3>3
  <2>2. QED
    BY <1>2, <2>1 DEF ActedInOrder
<1>5. \A q : Acted(q)' <=> Acted(q) \/ q = root
  <2>1. 1..Len(out) \subseteq 1..Len(out) + 1 /\ Len(out) + 1 \in 1..Len(out) + 1
    BY <1>1
  <2>2. QED
    BY <1>2, <1>3, <2>1 DEF Acted
<1>6. QED
  BY <1>2, <1>4, <1>5

\* The child has acted on a request, and reads on.
LEMMA ServedInv ==
  ASSUME IInv, pc = "serve", pc' = "read", out' \in {out, Append(out, root)},
         UNCHANGED <<client_fd, root, links, sent, rest, bridge, patient>>
  PROVE  IInv'
<1>1. /\ out' \in Seq(1..Len(sent)) /\ ActedInOrder'
      /\ \A q : Acted(q) => Acted(q)'
      /\ \A q : Taken(q)' => Taken(q)
  <2>1. CASE out' = out
    BY <2>1 DEF IInv, WebTypeOK, ActedInOrder, Taken, Acted
  <2>2. CASE out' = Append(out, root)
    BY <2>2, ActedNext DEF Taken
  <2>3. QED
    BY <2>1, <2>2
<1>2. WebTypeOK' /\ LinksOK' /\ SentOK'
  BY <1>1 DEF IInv, WebTypeOK, LinksOK, SentOK
<1>3. PiecesStay
  BY DEF PiecesStay
<1>4. PiecesOK' /\ WaitingIsLater'
  BY <1>1, <1>3, PiecesStayOK
<1>5. RootOK' /\ ServerSurvives' /\ LeftAnswered'
  BY <1>1 DEF IInv, RootOK, ServerSurvives, LeftAnswered, Expects
<1>6. QED
  BY <1>1, <1>2, <1>4, <1>5 DEF IInv

\* SIGPIPE ends the server and closes its sockets.
LEMMA DieInv ==
  ASSUME IInv, pc = "serve", Die, ~patient \/ bridge = "gone",
         UNCHANGED <<client_fd, root, sent, rest, bridge, patient>>
  PROVE  IInv'
<1> DEFINE L == Len(links)
<1>1. /\ pc = "serve" /\ pc' = "dead"
      /\ links' = [n \in 1..L |-> [links[n] EXCEPT !.end = "closed"]]
      /\ UNCHANGED <<client_fd, root, sent, rest, bridge, patient, out>>
  BY DEF Die
<1>2. ~(patient' /\ bridge' # "gone") /\ (patient' <=> patient)
  OBVIOUS
<1>3. L \in Nat /\ \A n \in 1..L : links[n] \in Link
  BY Shapes DEF IInv
<1>4. \A n \in 1..L : [links[n] EXCEPT !.end = "closed"] \in Link
  BY <1>3 DEF Link
<1>5. links' \in Seq(Link) /\ Len(links') = L
  BY <1>1, <1>3, <1>4
<1>6. \A n \in 1..L : /\ links'[n].open = links[n].open
                      /\ links'[n].inbox = links[n].inbox
                      /\ links'[n].end = "closed"
  BY <1>1, <1>3 DEF Link
<1> HIDE DEF L
<1>7. WebTypeOK'
  BY <1>1, <1>5, <1>6 DEF IInv, WebTypeOK, L
<1>8. LinksOK'
  BY <1>1, <1>5, <1>6 DEF IInv, LinksOK, L
<1>9. SentOK'
  <2>1. rest => links'[L].open = links[L].open
    <3>1. rest => L # 0
      BY Shapes, EmptySeq DEF IInv, SentOK, WebTypeOK, L
    <3>2. QED
      BY <1>3, <1>6, <3>1
  <2>2. QED
    BY <1>1, <1>5, <2>1 DEF IInv, SentOK, L
<1>10. PiecesOK' /\ WaitingIsLater'
  <2>1. PiecesStay
    BY <1>5, <1>6 DEF PiecesStay, L
  <2>2. \A q : Taken(q)' => Taken(q)
    BY <1>1 DEF Taken, Acted
  <2>3. QED
    BY <1>1, <2>1, <2>2, PiecesStayOK
<1>11. RootOK' /\ ActedInOrder' /\ ServerSurvives'
  BY <1>1, <1>2 DEF IInv, RootOK, ActedInOrder, ServerSurvives
<1>12. LeftAnswered'
  <2>1. \A r \in 1..Len(sent) : sent[r].link \in 1..L
    BY Shapes DEF IInv, SentOK, L
  <2>2. QED
    BY <1>1, <1>6, <2>1 DEF IInv, LeftAnswered, Expects, Acted
<1>13. QED
  BY <1>7, <1>8, <1>9, <1>10, <1>11, <1>12 DEF IInv

\* An answer that finds its client gone is not one to a patient client, for
\* the request in hand had no answer yet.
LEMMA GoneWasImpatient ==
  ASSUME IInv, Answer, ~links[client_fd].open
  PROVE  ~patient
<1>1. /\ root \in 1..Len(sent) /\ sent[root].link = client_fd
      /\ \A i \in 1..Len(out) : out[i] < root /\ out[i] \in Nat
  <2>1. pc = "serve" /\ RootOK /\ WebTypeOK
    BY DEF IInv, Answer
  <2>2. root \in 0..Len(sent) /\ Len(sent) \in Nat /\ \A i \in 1..Len(out) : out[i] \in Nat
    BY <2>1, Shapes DEF WebTypeOK
  <2>3. root # 0 /\ sent[root].link = client_fd /\ \A i \in 1..Len(out) : out[i] < root
    BY <2>1 DEF RootOK
  <2>4. QED
    BY <2>2, <2>3
<1>2. Expects(root)
  BY DEF Expects, Answer, Answered
<1>3. ~Acted(root)
  BY <1>1 DEF Acted
<1>4. QED
  BY <1>1, <1>2, <1>3 DEF IInv, LeftAnswered

LEMMA ServeInv ==
  ASSUME IInv, Answer \/ Command
  PROVE  IInv'
<1>1. CASE Answer /\ links[client_fd].open
  BY <1>1, ServedInv DEF Answer
<1>2. CASE Answer /\ ~links[client_fd].open
  BY <1>2, GoneWasImpatient, DieInv DEF Answer
<1>3. CASE Command /\ ~Die
  BY <1>3, ServedInv DEF Command
<1>4. CASE Command /\ Die
  <2>1. pc = "serve" /\ bridge = "gone"
    BY <1>4 DEF Command, Die
  <2>2. QED
    BY <1>4, <2>1, DieInv DEF Command
<1>5. QED
  BY <1>1, <1>2, <1>3, <1>4

\* A request that parses is whole, and was sent on this connection after all
\* that was acted on.
LEMMA Parsed ==
  ASSUME IInv, pc = "read", OneObject(links[client_fd].inbox)
  PROVE  LET r == links[client_fd].inbox[1].req
         IN  /\ r \in 1..Len(sent) /\ sent[r].link = client_fd
             /\ rest => r < Len(sent)
             /\ \A i \in 1..Len(out) : out[i] < r
<1> DEFINE s == links[client_fd].inbox
           r == s[1].req
<1>1. client_fd \in 1..Len(links) /\ links[client_fd].end = "served"
  BY Shapes DEF IInv, LinksOK, WebTypeOK
<1>2. PICK q \in 1..Len(sent) :
        \/ s = <<[req |-> q, part |-> "whole"]>>
        \/ s = <<[req |-> q, part |-> "head"], [req |-> q, part |-> "tail"]>>
  BY DEF OneObject
<1>3. \E k \in 1..2 : k \in 1..Len(s) /\ s[k].req = q /\ s[k].part # "head"
  <2>1. CASE s = <<[req |-> q, part |-> "whole"]>>
    <3>1. 1 \in 1..Len(s) /\ s[1].req = q /\ s[1].part = "whole"
      BY <2>1
    <3>2. QED
      BY <3>1
  <2>2. CASE s = <<[req |-> q, part |-> "head"], [req |-> q, part |-> "tail"]>>
    <3>1. 2 \in 1..Len(s) /\ s[2].req = q /\ s[2].part = "tail"
      BY <2>2
    <3>2. QED
      BY <3>1
  <2>3. QED
    BY <1>2, <2>1, <2>2
<1>4. r = q /\ 1 \in 1..Len(s)
  <2>1. CASE s = <<[req |-> q, part |-> "whole"]>>
    <3>1. Len(s) = 1 /\ s[1] = [req |-> q, part |-> "whole"]
      BY <2>1
    <3>2. QED
      BY <3>1
  <2>2. CASE s = <<[req |-> q, part |-> "head"], [req |-> q, part |-> "tail"]>>
    <3>1. Len(s) = 2 /\ s[1] = [req |-> q, part |-> "head"]
      BY <2>2
    <3>2. QED
      BY <3>1
  <2>3. QED
    BY <1>2, <2>1, <2>2
<1> HIDE DEF s
<1>5. \A k \in 1..Len(s) : Fits(s[k], client_fd)
  BY <1>1 DEF IInv, PiecesOK, s
<1>6. Len(sent) \in Nat
  BY Shapes DEF IInv
<1>7. sent[q].link = client_fd /\ (rest => q < Len(sent))
  BY <1>3, <1>5, <1>6 DEF Fits
<1>8. ASSUME NEW i \in 1..Len(out) PROVE out[i] < r
  <2>1. out[i] \in 1..Len(sent) /\ Taken(out[i])
    BY <1>8, Shapes DEF IInv, Taken, Acted
  <2>2. QED
    BY <1>1, <1>4, <2>1 DEF IInv, WaitingIsLater, s
<1>9. QED
  BY <1>4, <1>7, <1>8 DEF s

LEMMA ReadInv ==
  ASSUME IInv, Read
  PROVE  IInv'
<1> DEFINE L == Len(links)
           c == client_fd
           l == [links[c] EXCEPT !.inbox = <<>>]
           r == links[c].inbox[1].req
<1>1. /\ pc = "read" /\ links' = [links EXCEPT ![c] = l]
      /\ UNCHANGED <<client_fd, sent, rest, bridge, out, patient>>
      /\ IF OneObject(links[c].inbox) THEN pc' = "serve" /\ root' = r
         ELSE UNCHANGED <<pc, root>>
  BY DEF Read, LeftByRead
<1>2. L \in Nat /\ c \in 1..L /\ links \in Seq(Link) /\ links[c] \in Link
  BY <1>1, Shapes DEF IInv, WebTypeOK, LinksOK
<1>3. /\ l \in Link /\ l.end = links[c].end /\ l.open = links[c].open
      /\ l.inbox = <<>> /\ Len(l.inbox) = 0
  <2>1. <<>> \in Seq(Piece) /\ Len(<<>>) = 0
    OBVIOUS
  <2>2. l \in Link /\ l.end = links[c].end /\ l.open = links[c].open /\ l.inbox = <<>>
    BY <1>2, <2>1 DEF Link
  <2>3. QED
    BY <2>1, <2>2
<1> HIDE DEF l
<1>4. /\ links' \in Seq(Link) /\ Len(links') = L /\ links'[c] = l
      /\ \A m \in 1..L \ {c} : links'[m] = links[m]
  BY <1>1, <1>2, <1>3, ExceptSeq
<1>5. \A m \in 1..L : links'[m].end = links[m].end /\ links'[m].open = links[m].open
  BY <1>3, <1>4
<1>6. /\ pc' \in {"read", "serve", "asleep"} /\ root' \in 0..Len(sent)
      /\ pc' = "serve" => OneObject(links[c].inbox) /\ root' = r
  BY <1>1, Parsed DEF IInv, WebTypeOK
<1>7. /\ pc' = "serve" => /\ r \in 1..Len(sent) /\ sent[r].link = c
                          /\ rest => r < Len(sent)
                          /\ \A i \in 1..Len(out) : out[i] < r
  <2>1. ASSUME OneObject(links[client_fd].inbox)
        PROVE  LET q == links[client_fd].inbox[1].req
               IN  /\ q \in 1..Len(sent) /\ sent[q].link = client_fd
                   /\ rest => q < Len(sent)
                   /\ \A i \in 1..Len(out) : out[i] < q
    BY <1>1, <2>1, Parsed
  <2>2. QED
    BY <1>6, <2>1
<1> HIDE DEF L, r
<1>8. WebTypeOK' /\ LinksOK' /\ SentOK'
  <2>1. WebTypeOK'
    BY <1>1, <1>4, <1>5, <1>6 DEF IInv, WebTypeOK, L
  <2>2. LinksOK'
    BY <1>1, <1>4, <1>5, <1>6 DEF IInv, LinksOK, L
  <2>3. rest => links'[L].open = links[L].open
    <3>1. L \in 1..L
      BY <1>2
    <3>2. QED
      BY <1>5, <3>1
  <2>4. SentOK'
    BY <1>1, <1>4, <2>3 DEF IInv, SentOK, L
  <2>5. QED
    BY <2>1, <2>2, <2>4
<1>9. PiecesStay
  <2>1. \A i \in 1..Len(l.inbox) : FALSE
    BY <1>3
  <2>2. QED
    BY <1>4, <1>5, <2>1 DEF PiecesStay, L
<1>10. PiecesOK'
  BY <1>1, <1>9, PiecesStayOK
<1>11. WaitingIsLater'
  <2>1. ASSUME NEW q \in 1..Len(sent), Acted(q)
        PROVE  /\ \A n \in 1..L : links'[n].end # "closed" =>
                    \A i \in 1..Len(links'[n].inbox) : q < links'[n].inbox[i].req
               /\ rest => q < Len(sent)
    BY <1>4, <1>9, <2>1 DEF IInv, WaitingIsLater, Taken, PiecesStay
  <2>2. ASSUME pc' = "serve", NEW n \in 1..L, links'[n].end # "closed",
               NEW i \in 1..Len(links'[n].inbox)
        PROVE  r < links'[n].inbox[i].req
    <3> DEFINE p == links'[n].inbox[i]
    <3>1. p = links[n].inbox[i] /\ i \in 1..Len(links[n].inbox)
      BY <1>4, <1>9, <2>2 DEF PiecesStay
    <3>2. n # c
      BY <1>3, <1>4, <2>2
    <3>3. n > c
      BY <1>1, <1>5, <2>2, <3>2, Shapes DEF IInv, LinksOK, L
    <3>4. p.req \in 1..Len(sent) /\ sent[p.req].link = n
      <4>1. Fits(links[n].inbox[i], n) /\ WebTypeOK /\ n \in 1..Len(links)
        BY <3>1 DEF IInv, PiecesOK, L
      <4>2. links[n].inbox[i].req \in Nat \ {0} /\ Len(sent) \in Nat
        BY <3>1, <4>1, Shapes
      <4>3. QED
        BY <3>1, <4>1, <4>2 DEF Fits
    <3>5. p.req <= r => sent[p.req].link <= sent[r].link
      BY <1>7, <2>2, <3>4 DEF IInv, SentOK
    <3> HIDE DEF p
    <3>6. ~(p.req <= r)
      BY <1>2, <1>7, <2>2, <3>3, <3>4, <3>5
    <3>7. QED
      BY <1>7, <2>2, <3>4, <3>6 DEF p
  <2>3. \A q : Taken(q)' => Acted(q) \/ (pc' = "serve" /\ q = r)
    BY <1>1, <1>6 DEF Taken, Acted
  <2>4. QED
    BY <1>1, <1>4, <1>7, <2>1, <2>2, <2>3 DEF WaitingIsLater
<1>12. RootOK' /\ ActedInOrder' /\ ServerSurvives'
  <2>1. RootOK'
    BY <1>1, <1>6, <1>7 DEF RootOK
  <2>2. ActedInOrder' /\ ServerSurvives'
    BY <1>1, <1>6 DEF IInv, ActedInOrder, ServerSurvives
  <2>3. QED
    BY <2>1, <2>2
<1>13. LeftAnswered'
  <2>1. \A q \in 1..Len(sent) : sent[q].link \in 1..L
    BY Shapes DEF IInv, SentOK, L
  <2>2. QED
    BY <1>1, <1>5, <2>1 DEF IInv, LeftAnswered, Expects, Acted
<1>14. QED
  BY <1>8, <1>10, <1>11, <1>12, <1>13 DEF IInv

-----------------------------------------------------------------------------
\* The server starts with the invariant.
LEMMA InitInv ==
  ASSUME WebInit
  PROVE  IInv
<1>1. /\ Len(links) = 0 /\ Len(sent) = 0 /\ Len(out) = 0
      /\ \A i \in 1..0 : FALSE
  BY DEF WebInit
<1>2. WebTypeOK
  <2>1. links \in Seq(Link) /\ sent \in Seq([link : 1..MaxLinks, tag : Tag])
        /\ out \in Seq(1..Len(sent))
    BY EmptySeq DEF WebInit
  <2>2. /\ client_fd \in 0..Len(links) /\ root \in 0..Len(sent)
        /\ \A n \in 1..Len(links) : FALSE
    BY <1>1 DEF WebInit
  <2>3. /\ pc \in {"accept", "read", "serve", "asleep", "dead"}
        /\ rest \in BOOLEAN /\ bridge \in {"silent", "heard", "gone"} /\ patient \in BOOLEAN
    BY DEF WebInit
  <2>4. QED
    BY <2>1, <2>2, <2>3 DEF WebTypeOK
<1>3. LinksOK /\ SentOK /\ PiecesOK
  BY <1>1, WebAssumption DEF WebInit, LinksOK, SentOK, PiecesOK
<1>4. WaitingIsLater /\ RootOK /\ ActedInOrder /\ LeftAnswered /\ ServerSurvives
  BY <1>1 DEF WebInit, WaitingIsLater, RootOK, ActedInOrder, LeftAnswered, ServerSurvives
<1>5. QED
  BY <1>2, <1>3, <1>4 DEF IInv

\* Every step of the client and of the child keeps the invariant.
LEMMA StepInv ==
  ASSUME IInv, [WebNext]_web_vars
  PROVE  IInv'
BY ConnectInv, SendInv, SendRestInv, DisconnectInv, IdleInv, AcceptInv, ReadInv,
   EofInv, ServeInv DEF WebNext

\* The inductive invariant holds in every state that the server reaches.
THEOREM Invariance == WebSpec => []IInv
<1>1. WebInit => IInv
  BY InitInv
<1>2. IInv /\ [WebNext]_web_vars => IInv'
  BY StepInv
<1>3. QED
  BY <1>1, <1>2, PTL DEF WebSpec

\* The shape of the state: at most one connection is served, and only while
\* the child is in its inner loop (Up2webCommPrc).
THEOREM TypeCorrect == WebSpec => []WebTypeOK
<1>1. IInv => WebTypeOK
  BY DEF IInv
<1>2. QED
  BY <1>1, Invariance, PTL

\* Requests are acted on in the order in which they were sent, and none twice,
\* over all the connections of a client that comes back and goes.
THEOREM RequestsInOrder == WebSpec => []ActedInOrder
<1>1. IInv => ActedInOrder
  BY DEF IInv
<1>2. QED
  BY <1>1, Invariance, PTL

\* While the UART server stays, SIGPIPE never ends the child of a client that
\* waits for its answers before it leaves a connection, not even when the child
\* slept on a mutex meanwhile (up2web_comm.cpp:120-170, ble_messaging.cpp:105).
THEOREM PatientIsSafe == WebSpec => []ServerSurvives
<1>1. IInv => ServerSurvives
  BY DEF IInv
<1>2. QED
  BY <1>1, Invariance, PTL
=============================================================================
