---------------------------- MODULE HomeBoxProofs ----------------------------
(***************************************************************************)
(* What HomeBox checks, for any number of boxes, pieces, outstanding       *)
(* requests, screens, swaps and connections.  The argument is about what   *)
(* is on its way: a session's box reads run after every piece that an      *)
(* earlier session has sent (FlightInv), so that it captures what the game *)
(* has, and from there on every piece in flight is the one it waits for    *)
(* (ContentInv); a save therefore completes the exchange (KeptInv).        *)
(* The order the player makes has an argument of its own (OrderInv).       *)
(***************************************************************************)
EXTENDS HomeBox, TLAPS, WellFoundedInduction

Perms == {o \in Orders : \A j \in Slots : \E i \in Slots : o[i] = j}
Kinds == {"ptr", "state", "order", "meta", "box", "piece"}

IsPiece(r) == r.kind = "piece"
IsBox(r) == r.kind = "box"

Requests ==
  {r \in [kind : Kinds, slot : 0..(Local + Remote), piece : 0..Pieces, box : Boxes \cup {Blank}] :
     /\ IsBox(r) => r.slot \in LocalSlots
     /\ IsPiece(r) => r.slot \in LocalSlots /\ r.piece \in 1..Pieces /\ r.box \in Boxes}
Results == {a \in [answer : Requests, order : Perms \cup {Fresh}] : IsBox(a.answer) => a.answer.box \in Boxes}

\* The types, and that what is outstanding fits.
WireInv ==
  /\ sent \in Seq(Requests) /\ results \in Seq(Results)
  /\ Len(sent) + Len(results) <= MaxOutstanding

StateInv ==
  /\ open \in BOOLEAN /\ order \in Perms \cup {Fresh} /\ gBoxes \in [LocalSlots -> Boxes]
  /\ file \in [1..Remote -> Boxes]
  /\ conn \in {"up", "closing", "down"}
  /\ oPtr \in {"unread", "null", "set"}
  /\ oOrder \in Perms \cup {Fresh, NoOrder} /\ oBox \in Boxes \cup {NoBox}
  /\ opens \in 0..MaxOpens /\ swaps \in 0..MaxSwaps /\ conns \in 0..MaxConnections
  /\ lost \in BOOLEAN /\ crossed \in BOOLEAN

Captured == {"SendGameDataInit", "WaitForInit"}

\* What a behaviour has in each of its states.
PhaseInv ==
  /\ attached \in BOOLEAN /\ reopen \in BOOLEAN /\ waiting \in BOOLEAN /\ pending \in BOOLEAN /\ retry \in BOOLEAN
  /\ hState \in HStates /\ idx \in Perms /\ queue \subseteq LocalSlots
  /\ nextPiece \in 1..(Pieces + 1) /\ writeIndex \in 1..(Local + Remote + 1)
  /\ stored = << >> \/ stored \in [1..Remote -> Boxes]
  /\ ~attached => hState = "OpenOfflineFile"
  /\ attached => conn # "down"
  /\ hState # "Update" => ~pending /\ idx = Identity
  /\ ~pending => queue = {}
  /\ queue = {} => ~waiting /\ nextPiece = 1
  /\ waiting => nextPiece > 1
  /\ hState = "OpenOfflineFile" => active = << >>
  /\ hState \in {"InitialiseBoxData", "WaitingForBoxData"} => stored = file
  /\ hState = "InitialiseBoxData" => active \in Seq(Boxes) /\ Len(active) <= Local
  /\ hState = "WaitingForBoxData" =>
       /\ active \in Seq(Boxes \cup {Blank}) /\ Len(active) \in LocalSlots
       /\ \A i \in 1..(Len(active) - 1) : active[i] \in Boxes
  /\ hState \in Captured \cup {"Update"} => active \in [Slots -> Boxes]
  /\ hState \in Captured => \A j \in 1..Remote : active[Local + j] = file[j]

NoPiecesIn(q) == \A i \in 1..Len(q) : ~IsPiece(q[i])
NoPieceResults == \A i \in 1..Len(results) : ~IsPiece(results[i].answer)
NoPieces == NoPiecesIn(sent) /\ NoPieceResults
NoBoxesBut(b, c) ==
  /\ \A i \in 1..Len(sent) : IsBox(sent[i]) => i = b
  /\ \A i \in 1..Len(results) : IsBox(results[i].answer) => i = c

\* The box that is waited for: it has come, or its answer is the j-th of the
\* results, or its read the j-th that has yet to run.  No piece is behind it.
BoxCame == oBox # NoBox /\ oBox = gBoxes[Len(active)] /\ NoPieces /\ NoBoxesBut(0, 0)
BoxAnswered(j) ==
  /\ IsBox(results[j].answer) /\ results[j].answer.box = gBoxes[Len(active)]
  /\ oBox = NoBox /\ NoBoxesBut(0, j)
  /\ NoPiecesIn(sent) /\ \A i \in (j + 1)..Len(results) : ~IsPiece(results[i].answer)
BoxAsked(j) ==
  /\ IsBox(sent[j]) /\ sent[j].slot = Len(active)
  /\ oBox = NoBox /\ NoBoxesBut(j, 0)
  /\ \A i \in (j + 1)..Len(sent) : ~IsPiece(sent[i])
BoxExpected ==
  \/ BoxCame
  \/ \E j \in 1..Len(results) : BoxAnswered(j)
  \/ \E j \in 1..Len(sent) : BoxAsked(j)

\* The piece that is waited for, the only one on its way.
OwnPiece(r) == waiting /\ r = PieceWrite(Front, nextPiece - 1, active[idx[Front]])
OnePiece ==
  /\ \A i \in 1..Len(sent) : IsPiece(sent[i]) => OwnPiece(sent[i]) /\ NoPieceResults
  /\ \A i \in 1..Len(results) : IsPiece(results[i].answer) => waiting
  /\ \A i, j \in 1..Len(sent) : IsPiece(sent[i]) /\ IsPiece(sent[j]) => i = j
  /\ \A i, j \in 1..Len(results) : IsPiece(results[i].answer) /\ IsPiece(results[j].answer) => i = j

FlightInv == ~crossed =>
  /\ hState = "InitialiseBoxData" /\ active # << >> => NoPieces
  /\ hState = "WaitingForBoxData" /\ Len(active) > 1 => NoPieces
  /\ hState = "WaitingForBoxData" /\ conn = "up" => BoxExpected
  /\ hState \in Captured => NoPieces
  /\ hState = "Update" => OnePiece

\* What the game has of the boxes that the session gives to it.
Written(k) ==
  \/ gBoxes[Front][k] = active[idx[Front]][k]
  \/ k = nextPiece - 1 /\ ~NoPiecesIn(sent)

ContentInv == ~crossed =>
  /\ hState = "InitialiseBoxData" => \A i \in 1..Len(active) : active[i] = gBoxes[i]
  /\ hState = "WaitingForBoxData" => \A i \in 1..(Len(active) - 1) : active[i] = gBoxes[i]
  /\ hState \in Captured => \A i \in LocalSlots : active[i] = gBoxes[i]
  /\ hState = "Update" =>
       /\ \A i \in LocalSlots \ queue : gBoxes[i] = active[idx[i]]
       /\ queue # {} => \A k \in 1..(nextPiece - 1) : Written(k)

Originals == {Original(i) : i \in Slots}
AllOf(a) == {a[i] : i \in Slots}
Known == AllOf(active)
HeldBy(g, f) == {g[i] : i \in LocalSlots} \cup {f[j] : j \in 1..Remote}

\* Nothing is on its way that would change a game without a session, and a
\* session has every box.
KeptInv == ~crossed /\ ~lost =>
  /\ hState # "Update" => NoPiecesIn(sent)
  /\ ~pending => Held = Originals
  /\ hState \in Captured \cup {"Update"} => Known = Originals
  /\ hState = "Update" /\ ~pending => \A j \in 1..Remote : file[j] = active[idx[Local + j]]

HomeBoxInv == WireInv /\ StateInv /\ PhaseInv /\ FlightInv /\ ContentInv /\ KeptInv

-----------------------------------------------------------------------------
(* Numbers, boxes, orders and requests. *)

LEMMA Bounds ==
  /\ Local \in Nat \ {0} /\ Remote \in Nat \ {0} /\ Pieces \in Nat \ {0} /\ MaxOutstanding \in Nat \ {0}
  /\ MaxOpens \in Nat /\ MaxSwaps \in Nat /\ MaxConnections \in Nat \ {0}
  /\ LocalSlots \subseteq Slots /\ 1 \in LocalSlots /\ \A j \in 1..Remote : Local + j \in Slots
  /\ \A i \in Slots : i \in LocalSlots \/ (i - Local \in 1..Remote /\ i = Local + (i - Local))
BY HomeBoxAssumption DEF LocalSlots, Slots

LEMMA BoxFacts ==
  /\ \A i \in Slots : Original(i) \in Boxes
  /\ NoBox \notin Boxes /\ Blank \notin Boxes /\ NoBox # Blank
<1>1. 1 \in 1..Pieces /\ Local + Remote + 1 \notin Slots /\ 0 \notin Slots /\ Local + Remote + 1 # 0
  BY Bounds DEF Slots
<1>2. NoBox[1] = Local + Remote + 1 /\ Blank[1] = 0 /\ \A b \in Boxes : b[1] \in Slots
  BY <1>1 DEF NoBox, Blank, Boxes
<1>3. \A i \in Slots : Original(i) \in Boxes
  BY DEF Original, Boxes
<1>4. QED
  BY <1>1, <1>2, <1>3

LEMMA OrderFacts ==
  /\ Identity \in Perms /\ Perms \subseteq Orders /\ Perms \subseteq [Slots -> Slots]
  /\ \A o \in Perms, i \in Slots : o[i] \in Slots
  /\ Fresh \notin Perms
<1>1. Identity \in Perms
  BY DEF Identity, Perms, Orders
<1>2. 1 \in Slots /\ 0 \notin Slots
  BY Bounds DEF Slots
<1>3. Fresh \notin [Slots -> Slots]
  BY <1>2 DEF Fresh
<1>4. QED
  BY <1>1, <1>3 DEF Perms, Orders

\* A swap of two entries of a permutation is a permutation.
LEMMA SwapKeeps ==
  ASSUME NEW o \in Perms, NEW i \in Slots, NEW j \in Slots, i # j
  PROVE  [o EXCEPT ![i] = o[j], ![j] = o[i]] \in Perms
<1> DEFINE p == [o EXCEPT ![i] = o[j], ![j] = o[i]]
<1>1. o \in [Slots -> Slots] /\ \A a, b \in Slots : a # b => o[a] # o[b]
  BY DEF Perms, Orders
<1>2. p \in [Slots -> Slots] /\ p[i] = o[j] /\ p[j] = o[i] /\ \A a \in Slots \ {i, j} : p[a] = o[a]
  BY <1>1
<1> HIDE DEF p
<1>3. \A a, b \in Slots : a # b => p[a] # p[b]
  BY <1>1, <1>2
<1>4. ASSUME NEW b \in Slots PROVE \E a \in Slots : p[a] = b
  <2>1. PICK a \in Slots : o[a] = b
    BY DEF Perms
  <2>2. QED
    BY <1>2, <2>1
<1>5. p \in Perms
  BY <1>2, <1>3, <1>4 DEF Perms, Orders
<1>6. QED
  BY <1>5 DEF p

LEMMA RequestFacts ==
  /\ PtrRead \in Requests /\ StateRead \in Requests /\ OrderWrite \in Requests
  /\ \A i \in Slots : MetaWrite(i) \in Requests
  /\ \A i \in LocalSlots : BoxRead(i) \in Requests /\ IsBox(BoxRead(i)) /\ BoxRead(i).slot = i
  /\ \A i \in LocalSlots, k \in 1..Pieces, b \in Boxes : PieceWrite(i, k, b) \in Requests
<1>1. 0 \in 0..(Local + Remote) /\ 0 \in 0..Pieces /\ Slots \subseteq 0..(Local + Remote) /\ 1..Pieces \subseteq 0..Pieces
  BY Bounds DEF Slots
<1>2. PtrRead \in Requests /\ StateRead \in Requests /\ OrderWrite \in Requests
  BY <1>1 DEF PtrRead, StateRead, OrderWrite, Requests, Kinds, IsBox, IsPiece
<1>3. \A i \in Slots : MetaWrite(i) \in Requests
  BY <1>1 DEF MetaWrite, Requests, Kinds, IsBox, IsPiece
<1>4. \A i \in LocalSlots : BoxRead(i) \in Requests /\ IsBox(BoxRead(i)) /\ BoxRead(i).slot = i
  BY <1>1, Bounds DEF BoxRead, Requests, Kinds, IsBox, IsPiece
<1>5. \A i \in LocalSlots, k \in 1..Pieces, b \in Boxes : PieceWrite(i, k, b) \in Requests
  BY <1>1, Bounds DEF PieceWrite, Requests, Kinds, IsBox, IsPiece
<1>6. QED
  BY <1>2, <1>3, <1>4, <1>5

\* The front of a queue that is not empty is the least slot of it.
LEMMA FrontFacts == ASSUME queue \subseteq LocalSlots, queue # {} PROVE Front \in queue
<1> DEFINE R == OpToRel(<, Nat)
<1>1. R = {ss \in Nat \X Nat : ss[1] < ss[2]} /\ IsWellFoundedOn(R, Nat)
  BY NatLessThanWellFounded, Zenon DEF OpToRel
<1> HIDE DEF R
<1>2. queue \subseteq Nat
  BY Bounds DEF LocalSlots
<1>3. PICK i \in queue : \A j \in queue : ~ (<<j, i>> \in R)
  BY <1>1, <1>2, WFMin
<1>4. \A j \in queue : i <= j
  <2> SUFFICES ASSUME NEW j \in queue PROVE ~(j < i)
    BY <1>2
  <2>1. <<j, i>> \in Nat \X Nat /\ <<j, i>>[1] = j /\ <<j, i>>[2] = i
    BY <1>2
  <2>2. <<j, i>> \notin {ss \in Nat \X Nat : ss[1] < ss[2]}
    BY <1>1, <1>3
  <2>3. QED
    BY <2>1, <2>2
<1>5. QED
  BY <1>4 DEF Front

-----------------------------------------------------------------------------
(* Requests that are neither pieces nor box reads behind what has been sent. *)

Plain(r) == r \in Requests /\ ~IsPiece(r) /\ ~IsBox(r)

Longer(q) ==
  /\ q \in Seq(Requests) /\ Len(q) + Len(results) <= MaxOutstanding
  /\ Len(sent) <= Len(q) /\ \A i \in 1..Len(sent) : q[i] = sent[i]
  /\ \A i \in (Len(sent) + 1)..Len(q) : Plain(q[i])

LEMMA Appended ==
  ASSUME NEW S, NEW q \in Seq(S), NEW r \in S
  PROVE  /\ Append(q, r) \in Seq(S) /\ Len(Append(q, r)) = Len(q) + 1 /\ Len(q) \in Nat
         /\ \A i \in 1..Len(q) : Append(q, r)[i] = q[i]
         /\ Append(q, r)[Len(q) + 1] = r
OBVIOUS

LEMMA OfferLonger ==
  ASSUME WireInv, NEW q, Longer(q), NEW r, Plain(r)
  PROVE  Longer(Offer(q, r))
<1>1. CASE ~HasRoom(q)
  BY <1>1 DEF Offer
<1>2. CASE HasRoom(q)
  <2> DEFINE p == Append(q, r)
  <2>1. /\ p \in Seq(Requests) /\ Len(p) = Len(q) + 1 /\ Len(q) \in Nat /\ Len(sent) \in Nat /\ Len(results) \in Nat
        /\ (\A i \in 1..Len(q) : p[i] = q[i]) /\ p[Len(q) + 1] = r
    BY Appended DEF WireInv, Longer, Plain
  <2> HIDE DEF p
  <2>2. Len(p) + Len(results) <= MaxOutstanding /\ Len(sent) <= Len(p)
    BY <1>2, <2>1, Bounds DEF HasRoom, Longer
  <2>3. \A i \in 1..Len(sent) : p[i] = sent[i]
    BY <2>1 DEF Longer
  <2>4. \A i \in (Len(sent) + 1)..Len(p) : Plain(p[i])
    BY <2>1, SMTT(30) DEF Longer
  <2>5. Longer(p)
    BY <2>1, <2>2, <2>3, <2>4 DEF Longer
  <2>6. QED
    BY <1>2, <2>5 DEF Offer, p
<1>3. QED
  BY <1>1, <1>2

LEMMA ObservingLonger == ASSUME WireInv PROVE Longer(sent) /\ Longer(Observing)
<1>1. Longer(sent)
  BY DEF WireInv, Longer
<1>2. Plain(PtrRead) /\ Plain(StateRead)
  BY RequestFacts DEF Plain, PtrRead, StateRead, IsPiece, IsBox
<1>3. Longer(Offer(sent, PtrRead))
  BY <1>1, <1>2, OfferLonger
<1>4. Longer(Offer(Offer(sent, PtrRead), StateRead))
  BY <1>2, <1>3, OfferLonger
<1>5. QED
  BY <1>1, <1>3, <1>4 DEF Observing

LEMMA LongerKeeps ==
  ASSUME WireInv, Longer(sent'), results' = results
  PROVE  /\ WireInv' /\ (NoPiecesIn(sent) <=> NoPiecesIn(sent)') /\ (NoPieceResults <=> NoPieceResults')
         /\ \A b \in 0..Len(sent), c \in Nat : NoBoxesBut(b, c) => NoBoxesBut(b, c)'
<1>1. /\ sent \in Seq(Requests) /\ results \in Seq(Results) /\ Len(sent) \in Nat /\ Len(results) \in Nat
      /\ sent' \in Seq(Requests) /\ Len(sent') \in Nat /\ Len(sent) <= Len(sent')
      /\ \A i \in 1..Len(sent) : i \in 1..Len(sent') /\ sent'[i] = sent[i]
      /\ \A i \in 1..Len(sent') : i \in 1..Len(sent) \/ Plain(sent'[i])
  BY DEF WireInv, Longer
<1>2. WireInv'
  BY DEF WireInv, Longer
<1>3. NoPiecesIn(sent) <=> NoPiecesIn(sent)'
  BY <1>1 DEF NoPiecesIn, Plain
<1>4. NoPieceResults <=> NoPieceResults'
  BY DEF NoPieceResults
<1>5. ASSUME NEW b \in 0..Len(sent), NEW c \in Nat, NoBoxesBut(b, c) PROVE NoBoxesBut(b, c)'
  BY <1>1, <1>5 DEF NoBoxesBut, Plain
<1>6. QED
  BY <1>2, <1>3, <1>4, <1>5

LEMMA LongerExpects ==
  ASSUME WireInv, Longer(sent'), UNCHANGED <<results, gBoxes, oBox, active>>, BoxExpected
  PROVE  BoxExpected'
<1>1. /\ sent \in Seq(Requests) /\ results \in Seq(Results) /\ Len(sent) \in Nat /\ Len(results) \in Nat
      /\ sent' \in Seq(Requests) /\ Len(sent') \in Nat /\ Len(sent) <= Len(sent')
      /\ \A i \in 1..Len(sent) : i \in 1..Len(sent') /\ sent'[i] = sent[i]
      /\ \A i \in 1..Len(sent') : i \in 1..Len(sent) \/ Plain(sent'[i])
  <2>1. sent \in Seq(Requests) /\ results \in Seq(Results) /\ Len(sent) \in Nat /\ Len(results) \in Nat
    BY DEF WireInv
  <2>2. /\ sent' \in Seq(Requests) /\ Len(sent') \in Nat /\ Len(sent) <= Len(sent')
        /\ \A i \in 1..Len(sent) : sent'[i] = sent[i]
        /\ \A i \in (Len(sent) + 1)..Len(sent') : Plain(sent'[i])
    BY DEF Longer
  <2>3. \A i \in 1..Len(sent') : i \in 1..Len(sent) \/ i \in (Len(sent) + 1)..Len(sent')
    BY <2>1, <2>2
  <2>4. \A i \in 1..Len(sent) : i \in 1..Len(sent')
    BY <2>1, <2>2
  <2>5. QED
    BY <2>1, <2>2, <2>3, <2>4
<1>2. CASE BoxCame
  <2>1. BoxCame'
    BY <1>1, <1>2, LongerKeeps DEF BoxCame, NoPieces
  <2>2. QED
    BY <2>1 DEF BoxExpected
<1>3. ASSUME NEW j \in 1..Len(results), BoxAnswered(j) PROVE BoxExpected'
  <2>1. BoxAnswered(j)'
    BY <1>1, <1>3, LongerKeeps DEF BoxAnswered
  <2>2. QED
    BY <2>1 DEF BoxExpected
<1>4. ASSUME NEW j \in 1..Len(sent), BoxAsked(j) PROVE BoxExpected'
  <2>1. NoBoxesBut(j, 0)'
    BY <1>1, <1>4, LongerKeeps DEF BoxAsked
  <2>2. \A i \in (j + 1)..Len(sent') : ~IsPiece(sent'[i])
    BY <1>1, <1>4, SMTT(30) DEF BoxAsked, Plain
  <2>3. BoxAsked(j)' /\ j \in 1..Len(sent')
    BY <1>1, <1>4, <2>1, <2>2 DEF BoxAsked
  <2>4. QED
    BY <2>3 DEF BoxExpected
<1>5. QED
  BY <1>2, <1>3, <1>4 DEF BoxExpected

LEMMA LongerOnePiece ==
  ASSUME WireInv, Longer(sent'), UNCHANGED <<results, waiting, queue, nextPiece, active, idx>>, OnePiece
  PROVE  OnePiece'
<1>1. /\ \A i \in 1..Len(sent) : i \in 1..Len(sent') /\ sent'[i] = sent[i]
      /\ \A i \in 1..Len(sent') : IsPiece(sent'[i]) => i \in 1..Len(sent) /\ sent'[i] = sent[i]
  BY SMTT(30) DEF WireInv, Longer, Plain
<1>2. Front' = Front /\ NoPieceResults' = NoPieceResults
  BY DEF Front, NoPieceResults
<1>3. QED
  BY <1>1, <1>2 DEF OnePiece, OwnPiece

-----------------------------------------------------------------------------
(* Steps that leave the boxes and what is on its way alone. *)

LEMMA SameStep ==
  ASSUME HomeBoxInv, StateInv', conn' \in {conn, "closing"},
         UNCHANGED <<gBoxes, file, sent, results, oBox, behaviourVars, lost, crossed>>
  PROVE  HomeBoxInv'
<1>1. /\ NoPieces' = NoPieces /\ NoPiecesIn(sent)' = NoPiecesIn(sent) /\ BoxExpected' = BoxExpected
      /\ OnePiece' = OnePiece /\ Front' = Front /\ Held' = Held /\ Known' = Known
  BY DEF NoPieces, NoPiecesIn, NoPieceResults, BoxExpected, BoxCame, BoxAnswered, BoxAsked, NoBoxesBut, OnePiece, OwnPiece,
         Front, Held, Known, behaviourVars
<1>2. WireInv' /\ PhaseInv'
  BY DEF HomeBoxInv, WireInv, PhaseInv, behaviourVars
<1>3. FlightInv'
  BY <1>1 DEF HomeBoxInv, FlightInv, behaviourVars
<1>4. ContentInv'
  <2>1. \A k : Written(k)' = Written(k)
    BY <1>1 DEF Written, behaviourVars
  <2>2. QED
    BY <2>1 DEF HomeBoxInv, ContentInv, behaviourVars
<1>5. KeptInv'
  BY <1>1 DEF HomeBoxInv, KeptInv, behaviourVars
<1>6. QED
  BY <1>2, <1>3, <1>4, <1>5 DEF HomeBoxInv

LEMMA PlayerKeeps ==
  ASSUME HomeBoxInv, OpenScreen \/ CloseScreen \/ (\E i, j \in Slots : i < j /\ Swap(i, j)) \/ LoseConnection
  PROVE  HomeBoxInv'
<1>1. CASE OpenScreen
  <2>1. StateInv'
    BY <1>1, Bounds DEF OpenScreen, HomeBoxInv, StateInv, observedVars
  <2>2. QED
    BY <1>1, <2>1, SameStep DEF OpenScreen, observedVars
<1>2. CASE CloseScreen
  <2>1. StateInv'
    BY <1>2 DEF CloseScreen, HomeBoxInv, StateInv, observedVars
  <2>2. QED
    BY <1>2, <2>1, SameStep DEF CloseScreen, observedVars
<1>3. CASE \E i, j \in Slots : i < j /\ Swap(i, j)
  <2>1. PICK i \in Slots, j \in Slots : i < j /\ Swap(i, j)
    BY <1>3
  <2>2. order \in Perms /\ i # j
    BY <2>1 DEF Swap, HomeBoxInv, StateInv, Slots
  <2>3. order' \in Perms
    BY <2>1, <2>2, SwapKeeps DEF Swap
  <2>4. swaps' \in 0..MaxSwaps
    BY <2>1, Bounds, SMTT(30) DEF Swap, HomeBoxInv, StateInv
  <2>5. StateInv'
    BY <2>1, <2>3, <2>4 DEF Swap, HomeBoxInv, StateInv, observedVars
  <2>6. QED
    BY <2>1, <2>5, SameStep DEF Swap, observedVars
<1>4. CASE LoseConnection
  <2>1. StateInv'
    BY <1>4 DEF LoseConnection, HomeBoxInv, StateInv, observedVars, gameVars
  <2>2. QED
    BY <1>4, <2>1, SameStep DEF LoseConnection, observedVars, gameVars
<1>5. QED
  BY <1>1, <1>2, <1>3, <1>4

-----------------------------------------------------------------------------
(* The game runs a request. *)

LEMMA HeadTail ==
  ASSUME NEW S, NEW q \in Seq(S), q # << >>
  PROVE  /\ Head(q) \in S /\ Head(q) = q[1] /\ Tail(q) \in Seq(S)
         /\ Len(q) \in Nat \ {0} /\ Len(Tail(q)) = Len(q) - 1
         /\ \A i \in 1..Len(Tail(q)) : i + 1 \in 1..Len(q) /\ Tail(q)[i] = q[i + 1]
OBVIOUS

Answer(r) ==
  CASE r.kind = "ptr" -> [r EXCEPT !.slot = IF open THEN 1 ELSE 0]
    [] r.kind = "box" -> [r EXCEPT !.box = gBoxes[r.slot]]
    [] OTHER -> r

LEMMA AnswerFacts ==
  ASSUME StateInv, NEW r \in Requests
  PROVE  /\ Answer(r) \in Requests /\ Answer(r).kind = r.kind
         /\ IsBox(r) => Answer(r).box = gBoxes[r.slot] /\ gBoxes[r.slot] \in Boxes
         /\ [answer |-> Answer(r), order |-> order] \in Results
<1>1. r \in [kind : Kinds, slot : 0..(Local + Remote), piece : 0..Pieces, box : Boxes \cup {Blank}]
  BY DEF Requests
<1>2. 1 \in 0..(Local + Remote) /\ 0 \in 0..(Local + Remote)
  BY Bounds
<1>3. IsBox(r) => gBoxes[r.slot] \in Boxes
  BY DEF Requests, StateInv
<1>4. CASE r.kind = "ptr"
  BY <1>1, <1>2, <1>4 DEF Answer, Requests, IsBox, IsPiece, Results, StateInv
<1>5. CASE r.kind = "box"
  <2>1. Answer(r) = [r EXCEPT !.box = gBoxes[r.slot]]
    BY <1>5 DEF Answer
  <2>2. /\ Answer(r) \in [kind : Kinds, slot : 0..(Local + Remote), piece : 0..Pieces, box : Boxes \cup {Blank}]
        /\ Answer(r).kind = "box" /\ Answer(r).slot = r.slot /\ Answer(r).box = gBoxes[r.slot]
    BY <1>1, <1>3, <1>5, <2>1 DEF IsBox
  <2>3. r.slot \in LocalSlots
    BY <1>5 DEF Requests, IsBox
  <2>4. Answer(r) \in Requests
    BY <2>2, <2>3 DEF Requests, IsBox, IsPiece
  <2>5. [answer |-> Answer(r), order |-> order] \in Results
    BY <1>3, <1>5, <2>2, <2>4 DEF Results, StateInv, IsBox
  <2>6. QED
    BY <1>3, <1>5, <2>2, <2>4, <2>5
<1>6. CASE r.kind \notin {"ptr", "box"}
  <2>1. Answer(r) = r
    BY <1>6 DEF Answer
  <2>2. [answer |-> r, order |-> order] \in Results
    BY <1>6 DEF Results, StateInv, IsBox
  <2>3. QED
    BY <1>6, <2>1, <2>2 DEF IsBox
<1>7. QED
  BY <1>4, <1>5, <1>6

\* What Execute does with the oldest request r.
Runs(r) ==
  /\ sent # << >> /\ r = Head(sent) /\ sent' = Tail(sent)
  /\ order' = IF r.kind = "order" THEN Identity ELSE order
  /\ gBoxes' = IF r.kind = "piece" THEN [gBoxes EXCEPT ![r.slot][r.piece] = r.box[r.piece]] ELSE gBoxes
  /\ results' = IF conn = "up" THEN Append(results, [answer |-> Answer(r), order |-> order]) ELSE results
  /\ UNCHANGED <<open, opens, swaps, file, conn, observedVars, behaviourVars, conns, lost, crossed>>

LEMMA ExecuteRuns == Execute => Runs(Head(sent))
BY DEF Execute, Runs, Answer

LEMMA RunsTypes ==
  ASSUME HomeBoxInv, NEW r, Runs(r)
  PROVE  /\ WireInv' /\ StateInv' /\ PhaseInv' /\ r \in Requests /\ r = sent[1]
         /\ Len(sent) \in Nat \ {0} /\ Len(sent') = Len(sent) - 1 /\ Len(results) \in Nat
         /\ \A i \in 1..Len(sent') : i + 1 \in 1..Len(sent) /\ sent'[i] = sent[i + 1]
         /\ conn = "up" =>
              /\ Len(results') = Len(results) + 1 /\ results'[Len(results) + 1].answer = Answer(r)
              /\ \A i \in 1..Len(results) : results'[i] = results[i]
         /\ Answer(r).kind = r.kind /\ (IsBox(r) => Answer(r).box = gBoxes[r.slot])
         /\ ~IsPiece(r) => gBoxes' = gBoxes
<1>1. sent \in Seq(Requests) /\ results \in Seq(Results) /\ Len(sent) + Len(results) <= MaxOutstanding
  BY DEF HomeBoxInv, WireInv
<1>2. /\ r \in Requests /\ r = sent[1] /\ sent' \in Seq(Requests)
      /\ Len(sent) \in Nat \ {0} /\ Len(sent') = Len(sent) - 1
      /\ \A i \in 1..Len(sent') : i + 1 \in 1..Len(sent) /\ sent'[i] = sent[i + 1]
  BY <1>1, HeadTail DEF Runs
<1>3. /\ [answer |-> Answer(r), order |-> order] \in Results /\ Answer(r).kind = r.kind
      /\ IsBox(r) => Answer(r).box = gBoxes[r.slot]
  BY <1>2, AnswerFacts DEF HomeBoxInv
<1>4. /\ Len(results) \in Nat /\ results' \in Seq(Results)
      /\ conn = "up" =>
           /\ Len(results') = Len(results) + 1 /\ results'[Len(results) + 1].answer = Answer(r)
           /\ \A i \in 1..Len(results) : results'[i] = results[i]
      /\ conn # "up" => results' = results
  <2> DEFINE a == [answer |-> Answer(r), order |-> order]
  <2>1. a \in Results /\ a.answer = Answer(r)
    BY <1>3
  <2>2. results' = IF conn = "up" THEN Append(results, a) ELSE results
    BY DEF Runs
  <2> HIDE DEF a
  <2>3. QED
    BY <1>1, <2>1, <2>2, Appended
<1>5. WireInv'
  BY <1>1, <1>2, <1>4, Bounds DEF WireInv
<1>6. gBoxes' \in [LocalSlots -> Boxes]
  <2>1. CASE IsPiece(r)
    <3>1. r.slot \in LocalSlots /\ r.piece \in 1..Pieces /\ r.box[r.piece] \in Slots
      BY <1>2, <2>1 DEF Requests, Boxes
    <3>2. gBoxes \in [LocalSlots -> [1..Pieces -> Slots]]
      BY DEF HomeBoxInv, StateInv, Boxes
    <3>3. gBoxes' = [gBoxes EXCEPT ![r.slot][r.piece] = r.box[r.piece]]
      BY <2>1 DEF Runs, IsPiece
    <3>4. QED
      BY <3>1, <3>2, <3>3 DEF Boxes
  <2>2. QED
    BY <2>1 DEF Runs, IsPiece, HomeBoxInv, StateInv
<1>7. order' \in Perms \cup {Fresh}
  BY OrderFacts DEF Runs, HomeBoxInv, StateInv
<1>8. StateInv'
  BY <1>6, <1>7 DEF Runs, HomeBoxInv, StateInv, observedVars
<1>9. PhaseInv'
  BY DEF Runs, HomeBoxInv, PhaseInv, behaviourVars
<1>10. ~IsPiece(r) => gBoxes' = gBoxes
  BY DEF Runs, IsPiece
<1>11. QED
  BY <1>2, <1>3, <1>4, <1>5, <1>8, <1>9, <1>10

LEMMA RunsNoPieces ==
  ASSUME HomeBoxInv, NEW r, Runs(r)
  PROVE  /\ NoPiecesIn(sent) => NoPiecesIn(sent)' /\ ~IsPiece(r)
         /\ NoPieces => NoPieces'
<1>1. NoPiecesIn(sent) => NoPiecesIn(sent)' /\ ~IsPiece(r)
  BY RunsTypes, SMTT(30) DEF NoPiecesIn
<1>2. ASSUME NoPieces PROVE NoPieceResults'
  <2>1. CASE conn = "up"
    BY <1>1, <1>2, <2>1, RunsTypes, SMTT(30) DEF NoPieces, NoPieceResults, IsPiece
  <2>2. CASE conn # "up"
    BY <1>2, <2>2 DEF Runs, NoPieces, NoPieceResults
  <2>3. QED
    BY <2>1, <2>2
<1>3. QED
  BY <1>1, <1>2 DEF NoPieces

LEMMA RunsExpects ==
  ASSUME HomeBoxInv, NEW r, Runs(r), conn = "up", BoxExpected
  PROVE  BoxExpected'
<1>0. PICK n \in Nat : n = Len(results)
  BY RunsTypes
<1>1. /\ r = sent[1] /\ Len(sent) \in Nat \ {0} /\ Len(sent') = Len(sent) - 1 /\ n \in Nat
      /\ \A i \in 1..Len(sent') : i + 1 \in 1..Len(sent) /\ sent'[i] = sent[i + 1]
      /\ Len(results') = n + 1 /\ results'[n + 1].answer = Answer(r)
      /\ \A i \in 1..n : results'[i] = results[i]
      /\ Answer(r).kind = r.kind /\ (IsBox(r) => Answer(r).box = gBoxes[r.slot])
      /\ ~IsPiece(r) => gBoxes' = gBoxes
  BY <1>0, RunsTypes
<1>2. oBox' = oBox /\ active' = active
  BY DEF Runs, observedVars, behaviourVars
<1>3. \A i \in 1..Len(results') : i \in 1..n \/ i = n + 1
  BY <1>1
<1>9. \A i \in 1..Len(results') : IsBox(results'[i].answer) => (IsBox(r) /\ i = n + 1) \/ (i \in 1..n /\ IsBox(results[i].answer))
  BY <1>1, <1>3 DEF IsBox
<1>10. \A i \in 1..Len(sent') : IsBox(sent'[i]) => \E k \in 1..Len(sent) : k = i + 1 /\ k > 1 /\ IsBox(sent[k])
  BY <1>1
<1>4. CASE BoxCame
  <2>1. ~IsPiece(r) /\ ~IsBox(r)
    BY <1>1, <1>4, RunsNoPieces DEF BoxCame, NoPieces, NoBoxesBut
  <2>2. NoBoxesBut(0, 0)'
    BY <1>0, <1>4, <1>9, <1>10, <2>1 DEF BoxCame, NoBoxesBut
  <2>3. BoxCame'
    BY <1>1, <1>2, <1>4, <2>1, <2>2, RunsNoPieces DEF BoxCame
  <2>4. QED
    BY <2>3 DEF BoxExpected
<1>5. ASSUME NEW j \in 1..Len(results), BoxAnswered(j) PROVE BoxExpected'
  <2>1. ~IsPiece(r) /\ ~IsBox(r) /\ NoPiecesIn(sent)'
    BY <1>1, <1>5, RunsNoPieces DEF BoxAnswered, NoBoxesBut
  <2>2. NoBoxesBut(0, j)'
    <3>1. \A i \in 1..Len(sent') : ~IsBox(sent'[i])
      BY <1>5, <1>10 DEF BoxAnswered, NoBoxesBut
    <3>2. \A i \in 1..Len(results') : IsBox(results'[i].answer) => i = j
      BY <1>0, <1>5, <1>9, <2>1 DEF BoxAnswered, NoBoxesBut
    <3>3. QED
      BY <3>1, <3>2 DEF NoBoxesBut
  <2>3. \A i \in (j + 1)..Len(results') : ~IsPiece(results'[i].answer)
    BY <1>0, <1>1, <1>3, <1>5, <2>1 DEF BoxAnswered, IsPiece
  <2>4. j \in 1..Len(results') /\ results'[j] = results[j]
    BY <1>0, <1>1
  <2>5. BoxAnswered(j)'
    BY <1>1, <1>2, <1>5, <2>1, <2>2, <2>3, <2>4 DEF BoxAnswered
  <2>6. QED
    BY <2>4, <2>5 DEF BoxExpected
<1>6. ASSUME NEW j \in 1..Len(sent), BoxAsked(j), j # 1 PROVE BoxExpected'
  <2>1. ~IsBox(r)
    BY <1>1, <1>6 DEF BoxAsked, NoBoxesBut
  <2>2. j - 1 \in 1..Len(sent') /\ sent'[j - 1] = sent[j]
    BY <1>1, <1>6
  <2>3. NoBoxesBut(j - 1, 0)'
    <3>1. \A i \in 1..Len(sent') : IsBox(sent'[i]) => i = j - 1
      BY <1>6, <1>10 DEF BoxAsked, NoBoxesBut
    <3>2. \A i \in 1..Len(results') : ~IsBox(results'[i].answer)
      BY <1>0, <1>6, <1>9, <2>1 DEF BoxAsked, NoBoxesBut
    <3>3. QED
      BY <3>1, <3>2 DEF NoBoxesBut
  <2>4. \A i \in ((j - 1) + 1)..Len(sent') : ~IsPiece(sent'[i])
    BY <1>1, <1>6, SMTT(30) DEF BoxAsked
  <2>5. BoxAsked(j - 1)'
    BY <1>2, <1>6, <2>2, <2>3, <2>4 DEF BoxAsked
  <2>6. QED
    BY <2>2, <2>5 DEF BoxExpected
<1>7. ASSUME BoxAsked(1) PROVE BoxExpected'
  <2>1. IsBox(r) /\ r.slot = Len(active) /\ ~IsPiece(r) /\ gBoxes' = gBoxes
    BY <1>1, <1>7 DEF BoxAsked, IsBox, IsPiece
  <2>2. NoPiecesIn(sent)'
    <3>1. ASSUME NEW i \in 1..Len(sent') PROVE ~IsPiece(sent'[i])
      <4>1. i + 1 \in (1 + 1)..Len(sent) /\ sent'[i] = sent[i + 1]
        BY <1>1
      <4>2. QED
        BY <1>7, <4>1 DEF BoxAsked
    <3>2. QED
      BY <3>1 DEF NoPiecesIn
  <2>3. n + 1 \in 1..Len(results') /\ results'[n + 1].answer = Answer(r)
    BY <1>1
  <2>4. NoBoxesBut(0, n + 1)'
    <3>1. \A i \in 1..Len(sent') : ~IsBox(sent'[i])
      BY <1>7, <1>10 DEF BoxAsked, NoBoxesBut
    <3>2. \A i \in 1..Len(results') : IsBox(results'[i].answer) => i = n + 1
      BY <1>0, <1>7, <1>9 DEF BoxAsked, NoBoxesBut
    <3>3. QED
      BY <3>1, <3>2 DEF NoBoxesBut
  <2>5. IsBox(Answer(r)) /\ Answer(r).box = gBoxes'[Len(active')]
    BY <1>1, <1>2, <2>1 DEF IsBox
  <2>6. \A i \in ((n + 1) + 1)..Len(results') : FALSE
    BY <1>1
  <2>7. BoxAnswered(n + 1)'
    <3>1. oBox' = NoBox
      BY <1>2, <1>7 DEF BoxAsked
    <3>2. QED
      BY <2>2, <2>3, <2>4, <2>5, <2>6, <3>1 DEF BoxAnswered
  <2>8. QED
    BY <2>3, <2>7 DEF BoxExpected
<1>8. QED
  BY <1>4, <1>5, <1>6, <1>7 DEF BoxExpected

LEMMA RunsOnePiece ==
  ASSUME HomeBoxInv, NEW r, Runs(r), OnePiece
  PROVE  OnePiece'
<1>1. /\ r = sent[1] /\ Len(sent) \in Nat \ {0} /\ Len(sent') = Len(sent) - 1 /\ Len(results) \in Nat
      /\ \A i \in 1..Len(sent') : i + 1 \in 1..Len(sent) /\ sent'[i] = sent[i + 1]
  BY RunsTypes
<1>2. /\ \A i \in 1..Len(results') : IsPiece(results'[i].answer) =>
           (IsPiece(r) /\ i = Len(results) + 1) \/ (i \in 1..Len(results) /\ IsPiece(results[i].answer))
  <2>1. CASE conn = "up"
    <3>1. \A i \in 1..Len(results') : i \in 1..Len(results) \/ i = Len(results) + 1
      BY <1>1, <2>1, RunsTypes
    <3>2. QED
      BY <2>1, <3>1, RunsTypes DEF IsPiece
  <2>2. CASE conn # "up"
    BY <2>2 DEF Runs
  <2>3. QED
    BY <2>1, <2>2
<1>3. UNCHANGED <<waiting, queue, nextPiece, active, idx>> /\ Front' = Front
  BY DEF Runs, behaviourVars, Front
<1>4. \A i \in 1..Len(sent') : IsPiece(sent'[i]) =>
        OwnPiece(sent'[i]) /\ NoPieceResults /\ ~IsPiece(r)
  <2> SUFFICES ASSUME NEW i \in 1..Len(sent'), IsPiece(sent'[i]) PROVE OwnPiece(sent'[i]) /\ NoPieceResults /\ ~IsPiece(r)
    OBVIOUS
  <2>1. i + 1 \in 1..Len(sent) /\ sent'[i] = sent[i + 1] /\ 1 \in 1..Len(sent) /\ i + 1 # 1
    BY <1>1
  <2>2. QED
    BY <1>1, <2>1 DEF OnePiece
<1>5. \A i \in 1..Len(sent') : IsPiece(sent'[i]) => OwnPiece(sent[i])' /\ NoPieceResults'
  BY <1>2, <1>3, <1>4 DEF OwnPiece, NoPieceResults
<1>6. IsPiece(r) => waiting /\ NoPieceResults
  BY <1>1 DEF OnePiece, OwnPiece
<1>7. \A i \in 1..Len(results') : IsPiece(results'[i].answer) => waiting'
  BY <1>2, <1>3, <1>6 DEF OnePiece
<1>8. \A i, j \in 1..Len(sent') : IsPiece(sent'[i]) /\ IsPiece(sent'[j]) => i = j
  <2> SUFFICES ASSUME NEW i \in 1..Len(sent'), NEW j \in 1..Len(sent'), IsPiece(sent'[i]), IsPiece(sent'[j]) PROVE i = j
    OBVIOUS
  <2>1. i + 1 \in 1..Len(sent) /\ IsPiece(sent[i + 1]) /\ j + 1 \in 1..Len(sent) /\ IsPiece(sent[j + 1])
    BY <1>1
  <2>2. i + 1 = j + 1
    BY <2>1 DEF OnePiece
  <2>3. QED
    BY <1>1, <2>2
<1>9. \A i, j \in 1..Len(results') : IsPiece(results'[i].answer) /\ IsPiece(results'[j].answer) => i = j
  BY <1>2, <1>6 DEF OnePiece, NoPieceResults
<1>10. QED
  BY <1>5, <1>7, <1>8, <1>9 DEF OnePiece

\* A piece that runs while a session works with the game is the one it waits for.
LEMMA RunsPiece ==
  ASSUME HomeBoxInv, ~crossed, hState = "Update", NEW r, Runs(r), IsPiece(r)
  PROVE  /\ waiting /\ queue # {} /\ pending /\ Front \in queue /\ Front \in LocalSlots
         /\ r.slot = Front /\ r.piece = nextPiece - 1 /\ r.box = active[idx[Front]]
         /\ gBoxes' = [gBoxes EXCEPT ![Front][nextPiece - 1] = active[idx[Front]][nextPiece - 1]]
<1>1. waiting /\ r = PieceWrite(Front, nextPiece - 1, active[idx[Front]])
  <2>1. 1 \in 1..Len(sent) /\ r = sent[1]
    BY RunsTypes
  <2>2. QED
    BY <2>1 DEF HomeBoxInv, FlightInv, OnePiece, OwnPiece
<1>2. queue # {} /\ pending /\ queue \subseteq LocalSlots
  BY <1>1 DEF HomeBoxInv, PhaseInv
<1>3. Front \in queue
  BY <1>2, FrontFacts
<1>4. r.slot = Front /\ r.piece = nextPiece - 1 /\ r.box = active[idx[Front]]
  BY <1>1 DEF PieceWrite
<1>5. QED
  BY <1>1, <1>2, <1>3, <1>4 DEF Runs, IsPiece

LEMMA RunsContent ==
  ASSUME HomeBoxInv, NEW r, Runs(r)
  PROVE  ContentInv'
<1> SUFFICES ASSUME ~crossed PROVE ContentInv'
  BY DEF ContentInv, Runs
<1>1. UNCHANGED <<hState, waiting, queue, nextPiece, active, idx>> /\ Front' = Front
  BY DEF Runs, behaviourVars, Front
<1>2. NoPieces => gBoxes' = gBoxes
  BY RunsNoPieces, RunsTypes DEF NoPieces
<1>3. hState = "InitialiseBoxData" => \A i \in 1..Len(active) : active[i] = gBoxes'[i]
  BY <1>2 DEF HomeBoxInv, FlightInv, ContentInv
<1>4. hState = "WaitingForBoxData" => \A i \in 1..(Len(active) - 1) : active[i] = gBoxes'[i]
  <2> SUFFICES ASSUME hState = "WaitingForBoxData", NEW i \in 1..(Len(active) - 1) PROVE active[i] = gBoxes'[i]
    OBVIOUS
  <2>1. Len(active) > 1
    BY DEF HomeBoxInv, PhaseInv, LocalSlots
  <2>2. QED
    BY <1>2, <2>1 DEF HomeBoxInv, FlightInv, ContentInv
<1>5. hState \in Captured => \A i \in LocalSlots : active[i] = gBoxes'[i]
  BY <1>2 DEF HomeBoxInv, FlightInv, ContentInv
<1>6. CASE hState = "Update" /\ IsPiece(r)
  <2>1. /\ Front \in queue /\ Front \in LocalSlots
        /\ gBoxes' = [gBoxes EXCEPT ![Front][nextPiece - 1] = active[idx[Front]][nextPiece - 1]]
    BY <1>6, RunsPiece
  <2>2. gBoxes \in [LocalSlots -> [1..Pieces -> Slots]] /\ nextPiece \in 1..(Pieces + 1) /\ Pieces \in Nat
    BY Bounds DEF HomeBoxInv, StateInv, PhaseInv, Boxes
  <2>3. \A i \in LocalSlots \ queue : gBoxes'[i] = active[idx[i]]
    BY <1>6, <2>1, <2>2 DEF HomeBoxInv, ContentInv
  <2>4. \A k \in 1..(nextPiece - 1) : gBoxes'[Front][k] = active[idx[Front]][k]
    <3> SUFFICES ASSUME NEW k \in 1..(nextPiece - 1) PROVE gBoxes'[Front][k] = active[idx[Front]][k]
      OBVIOUS
    <3>1. CASE k = nextPiece - 1
      BY <2>1, <2>2, <3>1
    <3>2. CASE k # nextPiece - 1
      <4>1. gBoxes[Front][k] = active[idx[Front]][k]
        BY <1>6, <2>1, <3>2 DEF HomeBoxInv, ContentInv, Written
      <4>2. QED
        BY <2>1, <2>2, <3>2, <4>1
    <3>3. QED
      BY <3>1, <3>2
  <2>5. QED
    BY <1>1, <1>6, <2>3, <2>4 DEF ContentInv, Written, Captured
<1>7. CASE hState = "Update" /\ ~IsPiece(r)
  <2>1. gBoxes' = gBoxes
    BY <1>7, RunsTypes
  <2>2. ~NoPiecesIn(sent) => ~NoPiecesIn(sent)'
    <3> SUFFICES ASSUME NEW i \in 1..Len(sent), IsPiece(sent[i]) PROVE \E k \in 1..Len(sent') : IsPiece(sent'[k])
      BY DEF NoPiecesIn
    <3>1. i # 1 /\ i \in Nat /\ Len(sent) \in Nat /\ Len(sent') = Len(sent) - 1
      BY <1>7, RunsTypes
    <3>2. i - 1 \in 1..Len(sent')
      BY <3>1
    <3>3. sent'[i - 1] = sent[i]
      BY <3>1, <3>2, RunsTypes
    <3>4. QED
      BY <3>2, <3>3
  <2>3. QED
    BY <1>1, <1>7, <2>1, <2>2 DEF HomeBoxInv, ContentInv, Written, Captured
<1>8. QED
  BY <1>1, <1>3, <1>4, <1>5, <1>6, <1>7 DEF ContentInv

LEMMA ExecuteKeeps == ASSUME HomeBoxInv, Execute PROVE HomeBoxInv'
<1>1. PICK r : Runs(r)
  BY ExecuteRuns
<1>2. /\ UNCHANGED <<hState, conn, crossed, lost, active, pending, file, idx>>
      /\ (NoPieces => NoPieces') /\ (NoPiecesIn(sent) => NoPiecesIn(sent)' /\ gBoxes' = gBoxes)
      /\ (conn = "up" /\ BoxExpected => BoxExpected') /\ (OnePiece => OnePiece')
  BY <1>1, RunsNoPieces, RunsExpects, RunsOnePiece, RunsTypes DEF Runs, behaviourVars
<1>3. FlightInv'
  BY <1>2 DEF HomeBoxInv, FlightInv
<1>4. KeptInv'
  <2>1. ~crossed /\ ~lost /\ ~pending => gBoxes' = gBoxes
    BY <1>1, <1>2, RunsPiece, RunsTypes DEF HomeBoxInv, KeptInv
  <2>2. gBoxes' = gBoxes => Held' = Held
    BY <1>2 DEF Held
  <2>3. QED
    BY <1>2, <2>1, <2>2 DEF HomeBoxInv, KeptInv, Known
<1>5. QED
  BY <1>1, <1>3, <1>4, RunsTypes, RunsContent DEF HomeBoxInv

-----------------------------------------------------------------------------
(* A result is polled. *)

LEMMA DeliverTypes ==
  ASSUME HomeBoxInv, Deliver
  PROVE  /\ WireInv' /\ StateInv' /\ PhaseInv' /\ results[1] \in Results
         /\ Len(results) \in Nat \ {0} /\ Len(results') = Len(results) - 1 /\ Len(sent) \in Nat
         /\ \A i \in 1..Len(results') : i + 1 \in 1..Len(results) /\ results'[i] = results[i + 1]
         /\ oBox' = IF IsBox(results[1].answer) THEN results[1].answer.box ELSE oBox
         /\ waiting' = (waiting /\ ~IsPiece(results[1].answer))
         /\ UNCHANGED <<gBoxes, file, sent, conn, lost, crossed>>
         /\ UNCHANGED <<attached, hState, reopen, stored, active, idx, queue, nextPiece, writeIndex, pending, retry>>
<1>1. sent \in Seq(Requests) /\ results \in Seq(Results) /\ Len(sent) + Len(results) <= MaxOutstanding /\ results # << >>
  BY DEF HomeBoxInv, WireInv, Deliver
<1>2. /\ Head(results) \in Results /\ Head(results) = results[1] /\ results' \in Seq(Results)
      /\ Len(results) \in Nat \ {0} /\ Len(results') = Len(results) - 1
      /\ \A i \in 1..Len(results') : i + 1 \in 1..Len(results) /\ results'[i] = results[i + 1]
  BY <1>1, HeadTail DEF Deliver
<1>3. /\ oBox' = IF IsBox(results[1].answer) THEN results[1].answer.box ELSE oBox
      /\ waiting' = (waiting /\ ~IsPiece(results[1].answer))
      /\ oPtr' \in {oPtr, "set", "null"} /\ oOrder' \in {oOrder, results[1].order}
      /\ UNCHANGED <<gBoxes, file, sent, conn, lost, crossed>>
      /\ UNCHANGED <<attached, hState, reopen, stored, active, idx, queue, nextPiece, writeIndex, pending, retry>>
      /\ UNCHANGED <<open, order, opens, swaps, conns>>
  BY <1>2 DEF Deliver, IsBox, IsPiece, gameVars
<1>4. WireInv'
  BY <1>1, <1>2, <1>3, Bounds DEF WireInv
<1>5. results[1].order \in Perms \cup {Fresh} /\ (IsBox(results[1].answer) => results[1].answer.box \in Boxes)
  BY <1>2 DEF Results
<1>6. StateInv'
  BY <1>3, <1>5 DEF HomeBoxInv, StateInv
<1>7. PhaseInv'
  <2>1. waiting' \in BOOLEAN /\ (waiting' => waiting)
    BY <1>3
  <2>2. QED
    BY <1>3, <2>1 DEF HomeBoxInv, PhaseInv
<1>8. QED
  BY <1>1, <1>2, <1>3, <1>4, <1>6, <1>7

LEMMA DeliverExpects ==
  ASSUME HomeBoxInv, Deliver, BoxExpected
  PROVE  BoxExpected'
<1>1. /\ Len(results) \in Nat \ {0} /\ Len(results') = Len(results) - 1
      /\ \A i \in 1..Len(results') : i + 1 \in 1..Len(results) /\ results'[i] = results[i + 1]
      /\ oBox' = IF IsBox(results[1].answer) THEN results[1].answer.box ELSE oBox
      /\ UNCHANGED <<gBoxes, sent, active>>
  BY DeliverTypes
<1>2. \A i \in 1..Len(results') : IsBox(results'[i].answer) => \E k \in 1..Len(results) : k = i + 1 /\ k > 1 /\ IsBox(results[k].answer)
  BY <1>1
<1>3. \A i \in 1..Len(results') : IsPiece(results'[i].answer) => \E k \in 1..Len(results) : k = i + 1 /\ k > 1 /\ IsPiece(results[k].answer)
  BY <1>1
<1>4. NoPiecesIn(sent)' = NoPiecesIn(sent)
  BY <1>1 DEF NoPiecesIn
<1>5. CASE BoxCame
  <2>1. ~IsBox(results[1].answer) /\ NoPieceResults'
    BY <1>1, <1>3, <1>5 DEF BoxCame, NoBoxesBut, NoPieces, NoPieceResults
  <2>2. NoBoxesBut(0, 0)'
    BY <1>1, <1>2, <1>5 DEF BoxCame, NoBoxesBut
  <2>3. BoxCame'
    BY <1>1, <1>4, <1>5, <2>1, <2>2 DEF BoxCame, NoPieces
  <2>4. QED
    BY <2>3 DEF BoxExpected
<1>6. ASSUME BoxAnswered(1) PROVE BoxExpected'
  <2>1. oBox' = gBoxes'[Len(active')] /\ oBox' # NoBox
    <3>1. results[1] \in Results
      BY DeliverTypes
    <3>2. QED
      BY <1>1, <1>6, <3>1, BoxFacts DEF BoxAnswered, Results
  <2>2. NoPieceResults'
    BY <1>1, <1>3, <1>6 DEF BoxAnswered, NoPieceResults
  <2>3. NoBoxesBut(0, 0)'
    BY <1>1, <1>2, <1>6 DEF BoxAnswered, NoBoxesBut
  <2>4. BoxCame'
    BY <1>4, <1>6, <2>1, <2>2, <2>3 DEF BoxAnswered, BoxCame, NoPieces
  <2>5. QED
    BY <2>4 DEF BoxExpected
<1>7. ASSUME NEW j \in 1..Len(results), BoxAnswered(j), j # 1 PROVE BoxExpected'
  <2>1. ~IsBox(results[1].answer)
    BY <1>1, <1>7 DEF BoxAnswered, NoBoxesBut
  <2>2. j - 1 \in 1..Len(results') /\ results'[j - 1] = results[j]
    BY <1>1, <1>7
  <2>3. NoBoxesBut(0, j - 1)'
    BY <1>1, <1>2, <1>7 DEF BoxAnswered, NoBoxesBut
  <2>4. \A i \in ((j - 1) + 1)..Len(results') : ~IsPiece(results'[i].answer)
    <3> SUFFICES ASSUME NEW i \in ((j - 1) + 1)..Len(results') PROVE ~IsPiece(results'[i].answer)
      OBVIOUS
    <3>1. i \in 1..Len(results') /\ i + 1 \in (j + 1)..Len(results)
      BY <1>1, <1>7
    <3>2. QED
      BY <1>1, <1>7, <3>1 DEF BoxAnswered
  <2>5. BoxAnswered(j - 1)'
    BY <1>1, <1>4, <1>7, <2>1, <2>2, <2>3, <2>4 DEF BoxAnswered
  <2>6. QED
    BY <2>2, <2>5 DEF BoxExpected
<1>8. ASSUME NEW j \in 1..Len(sent), BoxAsked(j) PROVE BoxExpected'
  <2>1. ~IsBox(results[1].answer)
    BY <1>1, <1>8 DEF BoxAsked, NoBoxesBut
  <2>2. NoBoxesBut(j, 0)'
    <3>1. \A i \in 1..Len(sent) : IsBox(sent[i]) => i = j
      BY <1>8 DEF BoxAsked, NoBoxesBut
    <3>2. \A i \in 1..Len(results) : ~IsBox(results[i].answer)
      BY <1>1, <1>8 DEF BoxAsked, NoBoxesBut
    <3>3. \A i \in 1..Len(sent') : IsBox(sent'[i]) => i = j
      BY <1>1, <3>1
    <3>4. \A i \in 1..Len(results') : ~IsBox(results'[i].answer)
      BY <1>1, <3>2
    <3>5. QED
      BY <3>3, <3>4 DEF NoBoxesBut
  <2>3. BoxAsked(j)' /\ j \in 1..Len(sent')
    BY <1>1, <1>8, <2>1, <2>2 DEF BoxAsked
  <2>4. QED
    BY <2>3 DEF BoxExpected
<1>9. QED
  BY <1>5, <1>6, <1>7, <1>8 DEF BoxExpected

LEMMA DeliverOnePiece ==
  ASSUME HomeBoxInv, Deliver, OnePiece
  PROVE  OnePiece'
<1>1. /\ Len(results) \in Nat \ {0} /\ Len(results') = Len(results) - 1
      /\ \A i \in 1..Len(results') : i + 1 \in 1..Len(results) /\ results'[i] = results[i + 1]
      /\ waiting' = (waiting /\ ~IsPiece(results[1].answer))
      /\ UNCHANGED <<sent, active, idx, queue, nextPiece>>
  BY DeliverTypes
<1>2. Front' = Front
  BY <1>1 DEF Front
<1>3. \A i \in 1..Len(results') : IsPiece(results'[i].answer) =>
        /\ waiting /\ ~IsPiece(results[1].answer)
  <2> SUFFICES ASSUME NEW i \in 1..Len(results'), IsPiece(results'[i].answer) PROVE waiting /\ ~IsPiece(results[1].answer)
    OBVIOUS
  <2>1. i + 1 \in 1..Len(results) /\ IsPiece(results[i + 1].answer) /\ i + 1 # 1 /\ 1 \in 1..Len(results)
    BY <1>1
  <2>2. QED
    BY <2>1 DEF OnePiece
<1>4. NoPieceResults => NoPieceResults' /\ ~IsPiece(results[1].answer)
  BY <1>1 DEF NoPieceResults
<1>5. \A i \in 1..Len(sent') : IsPiece(sent'[i]) => OwnPiece(sent[i])' /\ NoPieceResults'
  BY <1>1, <1>2, <1>4 DEF OnePiece, OwnPiece
<1>6. \A i, j \in 1..Len(results') : IsPiece(results'[i].answer) /\ IsPiece(results'[j].answer) => i = j
  <2> SUFFICES ASSUME NEW i \in 1..Len(results'), NEW j \in 1..Len(results'),
                      IsPiece(results'[i].answer), IsPiece(results'[j].answer) PROVE i = j
    OBVIOUS
  <2>1. /\ i + 1 \in 1..Len(results) /\ IsPiece(results[i + 1].answer)
        /\ j + 1 \in 1..Len(results) /\ IsPiece(results[j + 1].answer)
    BY <1>1
  <2>2. i + 1 = j + 1
    BY <2>1 DEF OnePiece
  <2>3. QED
    BY <1>1, <2>2
<1>7. \A i, j \in 1..Len(sent') : IsPiece(sent'[i]) /\ IsPiece(sent'[j]) => i = j
  BY <1>1 DEF OnePiece
<1>8. QED
  BY <1>1, <1>3, <1>5, <1>6, <1>7 DEF OnePiece

LEMMA DeliverKeeps == ASSUME HomeBoxInv, Deliver PROVE HomeBoxInv'
<1>1. /\ UNCHANGED <<gBoxes, file, sent, conn, lost, crossed>>
      /\ UNCHANGED <<attached, hState, reopen, stored, active, idx, queue, nextPiece, writeIndex, pending, retry>>
      /\ \A i \in 1..Len(results') : i + 1 \in 1..Len(results) /\ results'[i] = results[i + 1]
  BY DeliverTypes
<1>2. NoPieces => NoPieces'
  BY <1>1 DEF NoPieces, NoPiecesIn, NoPieceResults
<1>3. FlightInv'
  BY <1>1, <1>2, DeliverExpects, DeliverOnePiece DEF HomeBoxInv, FlightInv
<1>4. ContentInv'
  <2>1. \A k : Written(k)' = Written(k)
    BY <1>1 DEF Written, Front, NoPiecesIn
  <2>2. QED
    BY <1>1, <2>1 DEF HomeBoxInv, ContentInv
<1>5. KeptInv'
  <2>1. Held' = Held /\ NoPiecesIn(sent)' = NoPiecesIn(sent)
    BY <1>1 DEF Held, NoPiecesIn
  <2>2. QED
    BY <1>1, <2>1 DEF HomeBoxInv, KeptInv, Known
<1>6. QED
  BY <1>3, <1>4, <1>5, DeliverTypes DEF HomeBoxInv

-----------------------------------------------------------------------------
(* Saves, and the beginning and the end of a session. *)

LEMMA SameBox == ASSUME NEW a \in Boxes, NEW b \in Boxes, \A k \in 1..Pieces : a[k] = b[k] PROVE a = b
<1>1. a = [k \in 1..Pieces |-> a[k]] /\ b = [k \in 1..Pieces |-> b[k]]
  BY Zenon DEF Boxes
<1>2. [k \in 1..Pieces |-> a[k]] = [k \in 1..Pieces |-> b[k]]
  BY Zenon
<1>3. QED
  BY <1>1, <1>2

\* When no write is left, the game has what the session gives to it.
LEMMA AllWritten ==
  ASSUME HomeBoxInv, ~crossed, hState = "Update", Unfinished = {}
  PROVE  /\ ~waiting /\ NoPiecesIn(sent)
         /\ \A i \in LocalSlots : gBoxes[i] = active[idx[i]]
<1>1. /\ queue \subseteq LocalSlots /\ (queue = {} => ~waiting) /\ nextPiece \in 1..(Pieces + 1) /\ OnePiece
      /\ \A i \in LocalSlots \ queue : gBoxes[i] = active[idx[i]]
      /\ queue # {} => \A k \in 1..(nextPiece - 1) : Written(k)
      /\ gBoxes \in [LocalSlots -> Boxes] /\ active \in [Slots -> Boxes] /\ idx \in Perms
  BY DEF HomeBoxInv, PhaseInv, FlightInv, ContentInv, StateInv, Captured
<1>2. ~waiting
  BY <1>1 DEF Unfinished
<1>3. NoPiecesIn(sent)
  BY <1>1, <1>2 DEF OnePiece, OwnPiece, NoPiecesIn
<1>4. CASE queue = {}
  BY <1>1, <1>2, <1>3, <1>4
<1>5. CASE queue # {}
  <2>1. queue = {Front} /\ nextPiece > Pieces /\ Front \in LocalSlots
    BY <1>1, <1>2, <1>5, FrontFacts DEF Unfinished
  <2>2. nextPiece - 1 = Pieces
    BY <1>1, <2>1, Bounds
  <2>3. \A k \in 1..Pieces : gBoxes[Front][k] = active[idx[Front]][k]
    BY <1>1, <1>3, <1>5, <2>2 DEF Written
  <2>4. gBoxes[Front] \in Boxes /\ active[idx[Front]] \in Boxes
    BY <1>1, <2>1, OrderFacts, Bounds
  <2>5. gBoxes[Front] = active[idx[Front]]
    BY <2>3, <2>4, SameBox
  <2>6. QED
    BY <1>1, <1>2, <1>3, <2>1, <2>5
<1>6. QED
  BY <1>4, <1>5

\* What game and file hold is then all that the session has.
LEMMA AllHeld ==
  ASSUME NEW g, NEW f, NEW a \in [Slots -> Boxes], NEW o \in Perms,
         \A i \in LocalSlots : g[i] = a[o[i]],
         \A j \in 1..Remote : f[j] = a[o[Local + j]]
  PROVE  HeldBy(g, f) = AllOf(a)
<1> DEFINE H == {g[i] : i \in LocalSlots} \cup {f[j] : j \in 1..Remote}
<1>1. \A i \in Slots : o[i] \in Slots /\ \E k \in Slots : o[k] = i
  BY OrderFacts DEF Perms
<1>2. ASSUME NEW i \in Slots PROVE a[o[i]] \in H
  <2>1. CASE i \in LocalSlots
    <3>1. g[i] = a[o[i]]
      BY <2>1
    <3>2. QED
      BY <2>1, <3>1
  <2>2. CASE i \notin LocalSlots
    <3>1. PICK j \in 1..Remote : i = Local + j
      BY <2>2, Bounds
    <3>2. f[j] = a[o[i]]
      BY <3>1
    <3>3. QED
      BY <3>2
  <2>3. QED
    BY <2>1, <2>2
<1>3. H \subseteq {a[i] : i \in Slots}
  <2>1. ASSUME NEW i \in LocalSlots PROVE g[i] \in {a[k] : k \in Slots}
    BY <1>1, <2>1, Bounds
  <2>2. ASSUME NEW j \in 1..Remote PROVE f[j] \in {a[k] : k \in Slots}
    BY <1>1, <2>2, Bounds
  <2>3. QED
    BY <2>1, <2>2
<1>4. {a[i] : i \in Slots} \subseteq H
  <2> HIDE DEF H
  <2> SUFFICES ASSUME NEW i \in Slots PROVE a[i] \in H
    OBVIOUS
  <2>1. PICK k \in Slots : o[k] = i
    BY <1>1
  <2>2. QED
    BY <1>2, <2>1
<1>5. QED
  BY <1>3, <1>4 DEF HeldBy, AllOf

LEMMA RecordsFacts ==
  ASSUME active \in [Slots -> Boxes], idx \in Perms
  PROVE  Records \in [1..Remote -> Boxes] /\ \A j \in 1..Remote : Records[j] = active[idx[Local + j]]
BY OrderFacts, Bounds DEF Records

LEMMA BlankKeeps ==
  ASSUME WireInv', StateInv', attached' \in BOOLEAN, attached' => conn' # "down", BlankBehaviour,
         ~crossed' /\ ~lost' => NoPiecesIn(sent)' /\ Held' = Originals
  PROVE  HomeBoxInv'
<1>1. PhaseInv'
  <2>1. 1 \in 1..(Pieces + 1) /\ 1 \in 1..(Local + Remote + 1) /\ Identity \in Perms
    BY Bounds, OrderFacts
  <2>2. QED
    BY <2>1 DEF BlankBehaviour, PhaseInv, HStates, Captured
<1>2. FlightInv' /\ ContentInv'
  BY DEF BlankBehaviour, FlightInv, ContentInv, Captured
<1>3. KeptInv'
  BY DEF BlankBehaviour, KeptInv, Captured
<1>4. QED
  BY <1>1, <1>2, <1>3 DEF HomeBoxInv

\* OnDetach saves what is complete, or notes that something is lost.
LEMMA OnDetachKeeps ==
  ASSUME HomeBoxInv, OnDetach, UNCHANGED <<gBoxes, crossed>>, NoPiecesIn(sent) => NoPiecesIn(sent)'
  PROVE  /\ file' \in [1..Remote -> Boxes] /\ lost' \in BOOLEAN /\ attached' = FALSE /\ BlankBehaviour
         /\ ~crossed' /\ ~lost' => NoPiecesIn(sent)' /\ Held' = Originals
         /\ file' # file /\ ~crossed => \A i \in LocalSlots : gBoxes[i] = active[idx[i]]
<1>1. attached' = FALSE /\ BlankBehaviour
  BY DEF OnDetach
<1>2. file \in [1..Remote -> Boxes] /\ lost \in BOOLEAN
  BY DEF HomeBoxInv, StateInv
<1>3. CASE Unfinished # {}
  BY <1>1, <1>2, <1>3 DEF OnDetach
<1>4. CASE Unfinished = {}
  <2>1. PICK outcome \in Outcomes :
          /\ HandlePendingFileWrite(Unfinished, TRUE, outcome)
          /\ lost' = (lost \/ outcome = "failed")
    BY <1>4 DEF OnDetach
  <2>2. CASE outcome = "saved"
    <3>1. pending /\ file' = Records /\ hState = "Update" /\ active \in [Slots -> Boxes] /\ idx \in Perms
      BY <2>1, <2>2 DEF HandlePendingFileWrite, HomeBoxInv, PhaseInv
    <3>2. file' \in [1..Remote -> Boxes] /\ \A j \in 1..Remote : file'[j] = active[idx[Local + j]]
      BY <3>1, RecordsFacts
    <3>3. ~crossed => \A i \in LocalSlots : gBoxes[i] = active[idx[i]]
      BY <1>4, <3>1, AllWritten
    <3>4. ASSUME ~crossed, ~lost PROVE NoPiecesIn(sent) /\ Held' = Originals
      <4>1. Held' = Known
        <5>1. PICK g, f : g = gBoxes' /\ f = file'
          OBVIOUS
        <5>2. (\A i \in LocalSlots : g[i] = active[idx[i]]) /\ \A j \in 1..Remote : f[j] = active[idx[Local + j]]
          BY <3>2, <3>3, <3>4, <5>1
        <5>3. HeldBy(g, f) = Known
          BY <3>1, <5>2, AllHeld DEF Known
        <5>4. QED
          BY <5>1, <5>3 DEF Held, HeldBy
      <4>2. QED
        BY <1>4, <3>1, <3>4, <4>1, AllWritten DEF HomeBoxInv, KeptInv
    <3>5. QED
      BY <1>1, <1>2, <2>1, <3>2, <3>3, <3>4
  <2>3. CASE outcome # "saved"
    <3>1. file' = file /\ Held' = Held
      BY <2>1, <2>3 DEF HandlePendingFileWrite, Held
    <3>2. ASSUME ~crossed, ~lost' PROVE NoPiecesIn(sent) /\ Held = Originals
      <4>1. ~pending /\ ~lost
        BY <1>4, <2>1, <2>3, <3>2 DEF HandlePendingFileWrite, Outcomes
      <4>2. QED
        BY <1>4, <3>2, <4>1, AllWritten DEF HomeBoxInv, KeptInv
    <3>3. QED
      BY <1>1, <1>2, <2>1, <3>1, <3>2
  <2>4. QED
    BY <2>2, <2>3
<1>5. QED
  BY <1>3, <1>4

LEMMA AttachKeeps == ASSUME HomeBoxInv, Attach PROVE HomeBoxInv'
<1>1. Longer(sent') /\ UNCHANGED <<results, gBoxes, file, lost, crossed, conn, oPtr, open, order, opens, swaps, conns>>
  BY ObservingLonger DEF Attach, Observe, HomeBoxInv, gameVars
<1>2. WireInv' /\ (NoPiecesIn(sent) <=> NoPiecesIn(sent)')
  BY <1>1, LongerKeeps DEF HomeBoxInv
<1>3. StateInv' /\ attached' \in BOOLEAN /\ BlankBehaviour /\ conn' # "down"
  BY <1>1 DEF Attach, Observe, HomeBoxInv, StateInv
<1>4. ~crossed' /\ ~lost' => NoPiecesIn(sent)' /\ Held' = Originals
  BY <1>1, <1>2 DEF Attach, HomeBoxInv, PhaseInv, KeptInv, Held
<1>5. QED
  BY <1>2, <1>3, <1>4, BlankKeeps

LEMMA DetachKeeps == ASSUME HomeBoxInv, Detach PROVE HomeBoxInv'
<1>1. Longer(sent') /\ OnDetach /\ UNCHANGED <<results, gBoxes, crossed, conn, oPtr, open, order, opens, swaps, conns>>
  BY ObservingLonger DEF Detach, Observe, HomeBoxInv, gameVars
<1>2. WireInv' /\ (NoPiecesIn(sent) <=> NoPiecesIn(sent)')
  BY <1>1, LongerKeeps DEF HomeBoxInv
<1>3. /\ file' \in [1..Remote -> Boxes] /\ lost' \in BOOLEAN /\ attached' = FALSE /\ BlankBehaviour
      /\ ~crossed' /\ ~lost' => NoPiecesIn(sent)' /\ Held' = Originals
  BY <1>1, <1>2, OnDetachKeeps
<1>4. StateInv'
  BY <1>1, <1>3 DEF Detach, Observe, HomeBoxInv, StateInv
<1>5. QED
  BY <1>2, <1>3, <1>4, BlankKeeps

LEMMA WithoutBoxKeeps == ASSUME HomeBoxInv, TickWithoutBox PROVE HomeBoxInv'
<1>1. /\ Longer(sent')
      /\ UNCHANGED <<results, gBoxes, file, lost, crossed, conn, oPtr, open, order, opens, swaps, conns, behaviourVars>>
  BY ObservingLonger DEF TickWithoutBox, Observe, HomeBoxInv, gameVars
<1>2. WireInv' /\ (NoPiecesIn(sent) <=> NoPiecesIn(sent)')
  BY <1>1, LongerKeeps DEF HomeBoxInv
<1>3. StateInv' /\ PhaseInv' /\ hState' = "OpenOfflineFile" /\ hState = "OpenOfflineFile" /\ Held' = Held
  BY <1>1 DEF TickWithoutBox, Observe, HomeBoxInv, StateInv, PhaseInv, behaviourVars, Held
<1>4. FlightInv' /\ ContentInv'
  BY <1>3 DEF FlightInv, ContentInv, Captured
<1>5. KeptInv'
  BY <1>1, <1>2, <1>3 DEF HomeBoxInv, KeptInv, Captured, behaviourVars
<1>6. QED
  BY <1>2, <1>3, <1>4, <1>5 DEF HomeBoxInv

LEMMA DisconnectKeeps == ASSUME HomeBoxInv, Disconnect PROVE HomeBoxInv'
<1>1. WireInv' /\ NoPiecesIn(sent)' = NoPiecesIn(sent) /\ UNCHANGED <<gBoxes, crossed>>
  <2>1. << >> \in Seq(Results) /\ Len(<< >>) = 0
    OBVIOUS
  <2>2. Len(sent) \in Nat /\ Len(results) \in Nat
    BY DEF HomeBoxInv, WireInv
  <2>3. QED
    BY <2>1, <2>2, Bounds DEF Disconnect, HomeBoxInv, WireInv, NoPiecesIn, gameVars
<1>2. CASE attached
  <2>1. /\ file' \in [1..Remote -> Boxes] /\ lost' \in BOOLEAN /\ attached' = FALSE /\ BlankBehaviour
        /\ ~crossed' /\ ~lost' => NoPiecesIn(sent)' /\ Held' = Originals
    BY <1>1, <1>2, OnDetachKeeps DEF Disconnect
  <2>2. StateInv'
    BY <2>1 DEF Disconnect, HomeBoxInv, StateInv, gameVars
  <2>3. QED
    BY <1>1, <2>1, <2>2, BlankKeeps
<1>3. CASE ~attached
  <2>1. hState = "OpenOfflineFile" /\ UNCHANGED <<file, behaviourVars, lost>>
    BY <1>3 DEF Disconnect, HomeBoxInv, PhaseInv
  <2>2. StateInv' /\ PhaseInv' /\ Held' = Held
    BY <1>1, <1>3, <2>1 DEF Disconnect, HomeBoxInv, StateInv, PhaseInv, gameVars, behaviourVars, Held
  <2>3. FlightInv' /\ ContentInv'
    BY <2>1 DEF FlightInv, ContentInv, Captured, behaviourVars
  <2>4. KeptInv'
    BY <1>1, <2>1, <2>2 DEF HomeBoxInv, KeptInv, Captured, behaviourVars
  <2>5. QED
    BY <1>1, <2>2, <2>3, <2>4 DEF HomeBoxInv
<1>4. QED
  BY <1>2, <1>3

LEMMA CrashKeeps == ASSUME HomeBoxInv, Crash PROVE HomeBoxInv'
<1>1. WireInv' /\ NoPiecesIn(sent)' = NoPiecesIn(sent) /\ UNCHANGED <<gBoxes, file, crossed>> /\ Held' = Held
  <2>1. << >> \in Seq(Results) /\ Len(<< >>) = 0
    OBVIOUS
  <2>2. Len(sent) \in Nat /\ Len(results) \in Nat
    BY DEF HomeBoxInv, WireInv
  <2>3. QED
    BY <2>1, <2>2, Bounds DEF Crash, HomeBoxInv, WireInv, NoPiecesIn, gameVars, Held
<1>2. StateInv' /\ attached' = FALSE /\ BlankBehaviour
  BY DEF Crash, HomeBoxInv, StateInv, PhaseInv, gameVars
<1>3. ASSUME ~crossed, ~lost' PROVE NoPiecesIn(sent) /\ Held = Originals
  <2>1. ~lost /\ ~pending
    BY <1>3 DEF Crash, HomeBoxInv, StateInv, PhaseInv
  <2>2. Unfinished = {}
    BY <2>1 DEF HomeBoxInv, PhaseInv, Unfinished
  <2>3. QED
    BY <1>3, <2>1, <2>2, AllWritten DEF HomeBoxInv, KeptInv
<1>4. QED
  BY <1>1, <1>2, <1>3, BlankKeeps

LEMMA ReconnectKeeps == ASSUME HomeBoxInv, Reconnect PROVE HomeBoxInv'
<1>1. /\ hState = "OpenOfflineFile" /\ NoPiecesIn(sent)' /\ WireInv'
      /\ UNCHANGED <<gBoxes, file, behaviourVars, lost, crossed>> /\ Held' = Held
  <2>1. << >> \in Seq(Requests) /\ Len(<< >>) = 0
    OBVIOUS
  <2>2. Len(sent) \in Nat /\ Len(results) \in Nat
    BY DEF HomeBoxInv, WireInv
  <2>3. QED
    BY <2>1, <2>2, Bounds DEF Reconnect, HomeBoxInv, WireInv, PhaseInv, NoPiecesIn, gameVars, behaviourVars, Held
<1>2. StateInv' /\ PhaseInv'
  BY <1>1, Bounds DEF Reconnect, HomeBoxInv, StateInv, PhaseInv, gameVars, observedVars, behaviourVars
<1>3. FlightInv' /\ ContentInv'
  BY <1>1 DEF FlightInv, ContentInv, Captured, behaviourVars
<1>4. KeptInv'
  BY <1>1 DEF HomeBoxInv, KeptInv, Captured, behaviourVars
<1>5. QED
  BY <1>1, <1>2, <1>3, <1>4 DEF HomeBoxInv

-----------------------------------------------------------------------------
(* OnUpdate, state by state. *)

BoxTick ==
  /\ conn = "up" /\ attached /\ crossed' \in BOOLEAN /\ (~crossed' => ~crossed)
  /\ UNCHANGED <<gBoxes, results, open, order, opens, swaps, oPtr, oOrder, conns, attached, lost>>

\* A step that sends plain requests at most, and stays where it is.
LEMMA StayKeeps ==
  ASSUME HomeBoxInv, BoxTick, Longer(sent'), conn' \in {"up", "closing"},
         reopen' \in BOOLEAN, retry' \in BOOLEAN,
         UNCHANGED <<file, oBox, hState, stored, active, idx, queue, nextPiece, waiting, writeIndex, pending>>
  PROVE  HomeBoxInv'
<1>1. /\ WireInv' /\ (NoPiecesIn(sent) <=> NoPiecesIn(sent)') /\ (NoPieceResults <=> NoPieceResults')
  BY LongerKeeps DEF HomeBoxInv, BoxTick
<1>2. StateInv' /\ PhaseInv'
  BY DEF HomeBoxInv, BoxTick, StateInv, PhaseInv
<1>3. /\ BoxExpected => BoxExpected'
      /\ OnePiece => OnePiece'
      /\ NoPieces => NoPieces'
  BY <1>1, LongerExpects, LongerOnePiece DEF HomeBoxInv, BoxTick, NoPieces
<1>4. FlightInv'
  BY <1>3 DEF HomeBoxInv, FlightInv, BoxTick
<1>5. ContentInv'
  <2>1. Front' = Front
    BY DEF Front
  <2>2. \A k : Written(k)' <=> Written(k)
    BY <1>1, <2>1 DEF Written, BoxTick
  <2>3. QED
    BY <2>2 DEF HomeBoxInv, ContentInv, BoxTick
<1>6. KeptInv'
  <2>1. Held' = Held /\ Known' = Known
    BY DEF Held, Known, BoxTick
  <2>2. QED
    BY <1>1, <2>1 DEF HomeBoxInv, KeptInv, BoxTick
<1>7. QED
  BY <1>1, <1>2, <1>4, <1>5, <1>6 DEF HomeBoxInv

LEMMA NoSave ==
  ASSUME HomeBoxInv, ~pending \/ queue # {}, NEW outcome \in Outcomes, HandlePendingFileWrite(queue, FALSE, outcome)
  PROVE  outcome = "none" /\ file' = file
BY DEF HandlePendingFileWrite

\* What OnUpdate does besides the step of m_State while there is nothing to save.
NothingSaved ==
  /\ file' = file /\ pending' = (pending \/ idx' # idx) /\ retry' \in BOOLEAN

LEMMA OpenKeeps ==
  ASSUME HomeBoxInv, BoxTick, NEW q, Longer(q), OpenOfflineFile(q), NothingSaved
  PROVE  HomeBoxInv'
<1>1. /\ Longer(sent') /\ hState = "OpenOfflineFile"
      /\ UNCHANGED <<file, pending, oBox, active, idx, queue, nextPiece, waiting>> /\ retry' \in BOOLEAN
  BY DEF OpenOfflineFile, NothingSaved, HomeBoxInv, PhaseInv
<1>2. CASE UNCHANGED <<hState, stored, writeIndex>>
  <2>1. conn' \in {"up", "closing"} /\ reopen' \in BOOLEAN
    BY <1>2 DEF OpenOfflineFile, BoxTick, HomeBoxInv, PhaseInv
  <2>2. QED
    BY <1>1, <1>2, <2>1, StayKeeps
<1>3. CASE stored' = file /\ hState' = "InitialiseBoxData" /\ writeIndex' = Local + 1 /\ UNCHANGED <<reopen, conn>>
  <2>1. active' = << >> /\ active = << >>
    BY <1>1 DEF HomeBoxInv, PhaseInv
  <2>2. /\ WireInv' /\ (NoPiecesIn(sent) <=> NoPiecesIn(sent)')
    BY <1>1, LongerKeeps DEF HomeBoxInv, BoxTick
  <2>3. StateInv' /\ file \in [1..Remote -> Boxes]
    BY <1>1, <1>3 DEF HomeBoxInv, StateInv, BoxTick
  <2>4. PhaseInv'
    <3>1. << >> \in Seq(Boxes) /\ Len(<< >>) = 0 /\ 0 <= Local /\ Local + 1 \in 1..(Local + Remote + 1)
      BY Bounds
    <3>2. QED
      BY <1>1, <1>3, <2>1, <2>3, <3>1 DEF HomeBoxInv, PhaseInv, BoxTick, HStates, Captured
  <2>5. FlightInv' /\ ContentInv'
    BY <1>3, <2>1 DEF FlightInv, ContentInv, Captured
  <2>6. KeptInv'
    <3>1. Held' = Held
      BY <1>1 DEF Held, BoxTick
    <3>2. QED
      BY <1>1, <1>3, <2>2, <3>1 DEF HomeBoxInv, KeptInv, BoxTick, Captured
  <2>7. QED
    BY <2>2, <2>3, <2>4, <2>5, <2>6 DEF HomeBoxInv
<1>4. QED
  BY <1>2, <1>3 DEF OpenOfflineFile

\* A box is asked for, behind all that an earlier session has sent.
LEMMA AskKeeps ==
  ASSUME HomeBoxInv, BoxTick, NEW q, Longer(q), NothingSaved,
         hState = "InitialiseBoxData", Len(active) < Local, HasRoom(q),
         oBox' = NoBox, sent' = Append(q, BoxRead(Len(active) + 1)), active' = Append(active, Blank),
         hState' = "WaitingForBoxData", ~crossed' => ~BoxReadUnderWay,
         UNCHANGED <<conn, reopen, stored, idx, queue, nextPiece, waiting, writeIndex>>
  PROVE  HomeBoxInv'
<1>1. /\ sent \in Seq(Requests) /\ results \in Seq(Results) /\ Len(sent) \in Nat /\ Len(results) \in Nat
      /\ q \in Seq(Requests) /\ Len(q) \in Nat /\ Len(sent) <= Len(q)
      /\ \A i \in 1..Len(sent) : q[i] = sent[i]
      /\ \A i \in 1..Len(q) : i \in 1..Len(sent) \/ Plain(q[i])
  BY DEF HomeBoxInv, WireInv, Longer
<1>2. /\ active \in Seq(Boxes) /\ Len(active) \in Nat /\ Len(active) + 1 \in LocalSlots
  BY Bounds DEF HomeBoxInv, PhaseInv, LocalSlots
<1>3. /\ active' \in Seq(Boxes \cup {Blank}) /\ Len(active') = Len(active) + 1
      /\ \A i \in 1..Len(active) : active'[i] = active[i] /\ active[i] \in Boxes
  <2>1. active \in Seq(Boxes \cup {Blank}) /\ Blank \in Boxes \cup {Blank}
    BY <1>2
  <2>2. QED
    BY <1>2, <2>1, Appended
<1>4. PICK n : n = Len(q) + 1
  OBVIOUS
<1>5. PICK r : r = BoxRead(Len(active) + 1)
  OBVIOUS
<1>6. r \in Requests /\ IsBox(r) /\ ~IsPiece(r) /\ r.slot = Len(active')
  BY <1>2, <1>3, <1>5, RequestFacts DEF IsBox, IsPiece
<1>7. /\ sent' \in Seq(Requests) /\ Len(sent') = n /\ n \in 1..Len(sent') /\ sent'[n] = r
      /\ \A i \in 1..Len(sent') : i = n \/ (i \in 1..Len(sent) /\ sent'[i] = sent[i]) \/ Plain(sent'[i])
  <2>1. /\ sent' \in Seq(Requests) /\ Len(sent') = Len(q) + 1
        /\ (\A i \in 1..Len(q) : sent'[i] = q[i]) /\ sent'[Len(q) + 1] = r
    BY <1>1, <1>5, <1>6, Appended
  <2>2. QED
    BY <1>1, <1>4, <2>1
<1>8. WireInv'
  BY <1>1, <1>4, <1>7, Bounds DEF HomeBoxInv, WireInv, BoxTick, HasRoom
<1>9. StateInv'
  BY DEF HomeBoxInv, StateInv, BoxTick, NothingSaved
<1>10. PhaseInv'
  <2>1. /\ active' \in Seq(Boxes \cup {Blank}) /\ Len(active') \in LocalSlots
        /\ \A i \in 1..(Len(active') - 1) : active'[i] \in Boxes
    BY <1>2, <1>3
  <2>2. QED
    BY <2>1 DEF HomeBoxInv, PhaseInv, BoxTick, NothingSaved, HStates, Captured
<1>11. NoPiecesIn(sent) => NoPiecesIn(sent)'
  BY <1>6, <1>7 DEF NoPiecesIn, Plain
<1>12. FlightInv'
  <2>1. ASSUME ~crossed' PROVE BoxAsked(n)'
    <3>1. /\ \A i \in 1..Len(sent) : ~IsBox(sent[i])
          /\ \A i \in 1..Len(results) : ~IsBox(results[i].answer)
      BY <1>1, <2>1, SMTT(30) DEF BoxReadUnderWay, IsBox
    <3>2. NoBoxesBut(n, 0)'
      BY <1>7, <3>1 DEF NoBoxesBut, Plain, BoxTick
    <3>3. \A i \in (n + 1)..Len(sent') : ~IsPiece(sent'[i])
      BY <1>7
    <3>4. QED
      BY <1>6, <1>7, <3>2, <3>3 DEF BoxAsked
  <2>2. ~crossed' => BoxExpected'
    BY <1>7, <2>1 DEF BoxExpected
  <2>3. ASSUME ~crossed', Len(active') > 1 PROVE NoPieces'
    <3>1. active # << >>
      BY <1>2, <1>3, <2>3
    <3>2. NoPieces
      BY <2>3, <3>1 DEF HomeBoxInv, FlightInv, BoxTick
    <3>3. QED
      BY <1>11, <3>2 DEF NoPieces, NoPieceResults, BoxTick
  <2>4. QED
    BY <2>2, <2>3 DEF FlightInv, Captured
<1>13. ContentInv'
  <2>1. Len(active') - 1 = Len(active)
    BY <1>2, <1>3
  <2>2. ~crossed' => \A i \in 1..Len(active) : active[i] = gBoxes[i]
    BY DEF HomeBoxInv, ContentInv, BoxTick
  <2>3. ~crossed' => \A i \in 1..(Len(active') - 1) : active'[i] = gBoxes'[i]
    BY <1>3, <2>1, <2>2 DEF BoxTick
  <2>4. QED
    BY <2>3 DEF ContentInv, Captured
<1>14. KeptInv'
  <2>1. Held' = Held
    BY DEF Held, BoxTick, NothingSaved
  <2>2. QED
    BY <1>11, <2>1 DEF HomeBoxInv, KeptInv, PhaseInv, BoxTick, NothingSaved, Captured
<1>15. QED
  BY <1>8, <1>9, <1>10, <1>12, <1>13, <1>14 DEF HomeBoxInv

\* There was no room: the box is asked for again in the next update.
LEMMA RefusedKeeps ==
  ASSUME HomeBoxInv, BoxTick, Longer(sent'), NothingSaved, hState = "InitialiseBoxData", oBox' = NoBox,
         UNCHANGED <<active, hState, conn, reopen, stored, idx, queue, nextPiece, waiting, writeIndex>>
  PROVE  HomeBoxInv'
<1>1. WireInv' /\ (NoPiecesIn(sent) <=> NoPiecesIn(sent)') /\ (NoPieceResults <=> NoPieceResults')
  BY LongerKeeps DEF HomeBoxInv, BoxTick
<1>2. StateInv' /\ PhaseInv' /\ Held' = Held
  BY DEF HomeBoxInv, StateInv, PhaseInv, BoxTick, NothingSaved, Held
<1>3. FlightInv' /\ ContentInv'
  BY <1>1 DEF HomeBoxInv, FlightInv, ContentInv, NoPieces, BoxTick, Captured
<1>4. KeptInv'
  BY <1>1, <1>2 DEF HomeBoxInv, KeptInv, PhaseInv, BoxTick, NothingSaved, Captured
<1>5. QED
  BY <1>1, <1>2, <1>3, <1>4 DEF HomeBoxInv

LEMMA Joined ==
  ASSUME NEW S, NEW s \in Seq(S), NEW t \in Seq(S)
  PROVE  /\ s \o t \in Seq(S) /\ Len(s \o t) = Len(s) + Len(t)
         /\ s \o t \in [1..(Len(s) + Len(t)) -> S]
<1>1. s \o t \in Seq(S)
  OBVIOUS
<1>2. Len(s \o t) = Len(s) + Len(t)
  OBVIOUS
<1>3. \A u \in Seq(S) : u \in [1..Len(u) -> S]
  OBVIOUS
<1>4. QED
  BY <1>1, <1>2, <1>3, Zenon

LEMMA CapturedPhase ==
  ASSUME PhaseInv, conn = "up", attached, hState = "InitialiseBoxData", hState' = "SendGameDataInit",
         pending' = (pending \/ idx' # idx), retry' \in BOOLEAN,
         active' \in [Slots -> Boxes], \A j \in 1..Remote : active'[Local + j] = file[j],
         UNCHANGED <<conn, attached, file, reopen, stored, idx, queue, nextPiece, waiting, writeIndex>>
  PROVE  PhaseInv'
<1>1. /\ attached' = TRUE /\ conn' = "up" /\ "SendGameDataInit" \in HStates
      /\ ~pending' /\ idx' = Identity /\ queue' = {} /\ ~waiting' /\ nextPiece' = 1
  BY DEF PhaseInv, HStates
<1>2. /\ reopen' \in BOOLEAN /\ waiting' \in BOOLEAN /\ idx' \in Perms /\ queue' \subseteq LocalSlots
      /\ nextPiece' \in 1..(Pieces + 1) /\ writeIndex' \in 1..(Local + Remote + 1)
      /\ stored' = << >> \/ stored' \in [1..Remote -> Boxes]
  BY DEF PhaseInv
<1>3. QED
  BY <1>1, <1>2 DEF PhaseInv, Captured

\* The game's boxes have all been read: the stored ones follow them.
LEMMA CaptureKeeps ==
  ASSUME HomeBoxInv, BoxTick, Longer(sent'), NothingSaved, hState = "InitialiseBoxData", ~(Len(active) < Local),
         active' = active \o stored, hState' = "SendGameDataInit",
         UNCHANGED <<oBox, conn, reopen, stored, idx, queue, nextPiece, waiting, writeIndex>>
  PROVE  HomeBoxInv'
<1>1. WireInv' /\ (NoPiecesIn(sent) <=> NoPiecesIn(sent)') /\ (NoPieceResults <=> NoPieceResults')
  BY LongerKeeps DEF HomeBoxInv, BoxTick
<1>2. active \in Seq(Boxes) /\ Len(active) = Local /\ stored = file /\ file \in [1..Remote -> Boxes]
  BY Bounds DEF HomeBoxInv, PhaseInv, StateInv
<1>3. /\ active' \in [Slots -> Boxes]
      /\ (\A i \in LocalSlots : active'[i] = active[i]) /\ \A j \in 1..Remote : active'[Local + j] = file[j]
  <2>1. file \in Seq(Boxes) /\ Len(file) = Remote
    BY <1>2, Bounds
  <2>2. active' \in [1..(Len(active) + Len(file)) -> Boxes]
    BY <1>2, <2>1, Joined
  <2>3. active' \in [Slots -> Boxes]
    BY <1>2, <2>1, <2>2 DEF Slots
  <2>4. \A i \in LocalSlots : active'[i] = active[i]
    BY <1>2, <2>1, Bounds DEF LocalSlots
  <2>5. ASSUME NEW j \in 1..Remote PROVE active'[Local + j] = file[j]
    BY <1>2, <2>1, Bounds
  <2>6. QED
    BY <2>3, <2>4, <2>5
<1>4. StateInv' /\ PhaseInv' /\ Held' = Held
  <2>1. StateInv' /\ Held' = Held
    BY DEF HomeBoxInv, StateInv, BoxTick, NothingSaved, Held
  <2>2. /\ conn = "up" /\ attached /\ UNCHANGED <<attached, file>>
        /\ pending' = (pending \/ idx' # idx) /\ retry' \in BOOLEAN
    BY DEF BoxTick, NothingSaved
  <2>3. PhaseInv'
    BY <1>3, <2>2, CapturedPhase DEF HomeBoxInv
  <2>4. QED
    BY <2>1, <2>3
<1>5. active # << >>
  BY <1>2, Bounds
<1>6. FlightInv'
  BY <1>1, <1>5 DEF HomeBoxInv, FlightInv, NoPieces, BoxTick, Captured
<1>7. ~crossed' => \A i \in LocalSlots : active'[i] = gBoxes[i]
  BY <1>2, <1>3 DEF HomeBoxInv, ContentInv, BoxTick, LocalSlots
<1>8. ContentInv'
  BY <1>7 DEF ContentInv, BoxTick, Captured
<1>9. ~crossed' => Known' = Held
  <2> SUFFICES ASSUME ~crossed' PROVE Known' = Held
    OBVIOUS
  <2>1. PICK g, f, a : g = gBoxes /\ f = file /\ a = active'
    OBVIOUS
  <2>2. /\ a \in [Slots -> Boxes] /\ Identity \in Perms
        /\ (\A i \in LocalSlots : g[i] = a[Identity[i]]) /\ \A j \in 1..Remote : f[j] = a[Identity[Local + j]]
    BY <1>3, <1>7, <2>1, OrderFacts, Bounds DEF Identity
  <2>3. HeldBy(g, f) = AllOf(a)
    BY <2>2, AllHeld
  <2>4. QED
    BY <2>1, <2>3 DEF HeldBy, Held, Known
<1>10. KeptInv'
  BY <1>1, <1>4, <1>9 DEF HomeBoxInv, KeptInv, PhaseInv, BoxTick, NothingSaved, Captured
<1>11. QED
  BY <1>1, <1>4, <1>6, <1>8, <1>10 DEF HomeBoxInv

LEMMA InitialiseKeeps ==
  ASSUME HomeBoxInv, BoxTick, NEW q, Longer(q), InitialiseBoxData(q), NothingSaved,
         crossed' = (crossed \/ (Len(active') > Len(active) /\ hState' = "WaitingForBoxData" /\ BoxReadUnderWay))
  PROVE  HomeBoxInv'
<1>1. CASE Len(active) < Local /\ HasRoom(q)
  <2>1. active \in Seq(Boxes) /\ active' = Append(active, Blank) /\ hState' = "WaitingForBoxData"
    BY <1>1 DEF InitialiseBoxData, HomeBoxInv, PhaseInv
  <2>2. Len(active') > Len(active)
    <3>1. active \in Seq(Boxes \cup {Blank}) /\ Blank \in Boxes \cup {Blank}
      BY <2>1
    <3>2. Len(active') = Len(active) + 1 /\ Len(active) \in Nat
      BY <2>1, <3>1, Appended
    <3>3. QED
      BY <3>2
  <2>3. ~crossed' => ~BoxReadUnderWay
    BY <2>1, <2>2
  <2>4. sent' = Append(q, BoxRead(Len(active) + 1))
    BY <1>1 DEF InitialiseBoxData, Offer
  <2>5. QED
    BY <1>1, <2>1, <2>3, <2>4, AskKeeps DEF InitialiseBoxData
<1>2. CASE Len(active) < Local /\ ~HasRoom(q)
  <2>1. Longer(sent')
    BY <1>2 DEF InitialiseBoxData, Offer
  <2>2. QED
    BY <1>2, <2>1, RefusedKeeps DEF InitialiseBoxData
<1>3. CASE ~(Len(active) < Local)
  BY <1>3, CaptureKeeps DEF InitialiseBoxData
<1>4. QED
  BY <1>1, <1>2, <1>3

LEMMA WaitingKeeps ==
  ASSUME HomeBoxInv, BoxTick, NEW q, Longer(q), WaitingForBoxData(q), NothingSaved
  PROVE  HomeBoxInv'
<1>1. Longer(sent') /\ UNCHANGED <<conn, reopen, stored, idx, queue, nextPiece, waiting, writeIndex, oBox, file, pending>>
  BY DEF WaitingForBoxData, NothingSaved, HomeBoxInv, PhaseInv
<1>2. CASE oBox = NoBox
  BY <1>1, <1>2, StayKeeps DEF WaitingForBoxData, NothingSaved, BoxTick, HomeBoxInv, PhaseInv
<1>3. CASE oBox # NoBox
  <2>1. PICK n : n = Len(active)
    OBVIOUS
  <2>2. /\ n \in LocalSlots /\ active \in [1..n -> Boxes \cup {Blank}] /\ oBox \in Boxes
        /\ \A i \in 1..(n - 1) : active[i] \in Boxes
    BY <1>3, <2>1 DEF WaitingForBoxData, HomeBoxInv, PhaseInv, StateInv
  <2>3. active' = [active EXCEPT ![n] = oBox] /\ hState = "WaitingForBoxData" /\ hState' = "InitialiseBoxData"
    BY <1>3, <2>1 DEF WaitingForBoxData
  <2>4. /\ active' \in [1..n -> Boxes] /\ active'[n] = oBox
        /\ \A i \in 1..(n - 1) : active'[i] = active[i]
    BY <2>2, <2>3, Bounds DEF LocalSlots
  <2>5. active' \in Seq(Boxes) /\ Len(active') = n /\ n <= Local /\ active' # << >> /\ n \in Nat \ {0}
    BY <2>2, <2>4, Bounds DEF LocalSlots
  <2>6. WireInv' /\ (NoPiecesIn(sent) <=> NoPiecesIn(sent)') /\ (NoPieceResults <=> NoPieceResults')
    BY <1>1, LongerKeeps DEF HomeBoxInv, BoxTick
  <2>7. StateInv' /\ Held' = Held
    BY <1>1 DEF HomeBoxInv, StateInv, BoxTick, Held
  <2>8. PhaseInv'
    BY <1>1, <2>3, <2>5 DEF HomeBoxInv, PhaseInv, BoxTick, NothingSaved, HStates, Captured
  <2>9. ~crossed' => BoxCame
    BY <1>3, <2>3 DEF HomeBoxInv, FlightInv, BoxExpected, BoxAnswered, BoxAsked, BoxTick
  <2>10. FlightInv'
    BY <2>3, <2>6, <2>9 DEF FlightInv, BoxCame, NoPieces, Captured
  <2>11. ~crossed' => \A i \in 1..n : active'[i] = gBoxes[i]
    <3> SUFFICES ASSUME ~crossed', NEW i \in 1..n PROVE active'[i] = gBoxes[i]
      OBVIOUS
    <3>1. i \in 1..(n - 1) \/ i = n
      BY <2>5
    <3>2. \A k \in 1..(n - 1) : active[k] = gBoxes[k]
      BY <2>1, <2>3 DEF HomeBoxInv, ContentInv, BoxTick
    <3>3. oBox = gBoxes[n]
      BY <2>1, <2>9 DEF BoxCame
    <3>4. QED
      BY <2>4, <3>1, <3>2, <3>3
  <2>12. ContentInv'
    BY <2>3, <2>5, <2>11 DEF ContentInv, BoxTick, Captured
  <2>13. KeptInv'
    BY <1>1, <2>3, <2>6, <2>7 DEF HomeBoxInv, KeptInv, BoxTick, Captured
  <2>14. QED
    BY <2>6, <2>7, <2>8, <2>10, <2>12, <2>13 DEF HomeBoxInv
<1>4. QED
  BY <1>2, <1>3

LEMMA SendKeeps ==
  ASSUME HomeBoxInv, BoxTick, NEW q, Longer(q), SendGameDataInit(q), NothingSaved
  PROVE  HomeBoxInv'
<1>1. hState = "SendGameDataInit" /\ hState' \in Captured /\ idx' = idx /\ idx = Identity
  BY DEF SendGameDataInit, HomeBoxInv, PhaseInv, Captured
<1>2. UNCHANGED <<conn, reopen, stored, active, queue, nextPiece, waiting, oBox, file, pending>> /\ retry' \in BOOLEAN
  BY <1>1 DEF SendGameDataInit, NothingSaved, HomeBoxInv, PhaseInv
<1>3. writeIndex \in 1..(Local + Remote + 1) /\ writeIndex' \in 1..(Local + Remote + 1)
  <2>1. writeIndex \in 1..(Local + Remote + 1)
    BY DEF HomeBoxInv, PhaseInv
  <2>2. writeIndex' = writeIndex \/ (writeIndex <= Local + Remote /\ writeIndex' = writeIndex + 1)
    BY DEF SendGameDataInit, MetadataLeft
  <2>3. QED
    BY <2>1, <2>2, Bounds
<1>4. Longer(sent')
  <2>1. MetadataLeft(writeIndex) => Plain(MetaWrite(writeIndex))
    BY <1>3, RequestFacts, Bounds DEF MetadataLeft, Plain, MetaWrite, IsPiece, IsBox, Slots
  <2>2. Plain(OrderWrite)
    BY RequestFacts DEF Plain, OrderWrite, IsPiece, IsBox
  <2>3. PICK p : p = IF MetadataLeft(writeIndex) THEN Offer(q, MetaWrite(writeIndex)) ELSE q
    OBVIOUS
  <2>4. Longer(p)
    BY <2>1, <2>3, OfferLonger DEF HomeBoxInv
  <2>5. Longer(Offer(p, OrderWrite))
    BY <2>2, <2>4, OfferLonger DEF HomeBoxInv
  <2>6. sent' = p \/ sent' = Offer(p, OrderWrite)
    BY <2>3 DEF SendGameDataInit
  <2>7. QED
    BY <2>4, <2>5, <2>6
<1>5. WireInv' /\ (NoPiecesIn(sent) <=> NoPiecesIn(sent)') /\ (NoPieceResults <=> NoPieceResults')
  BY <1>4, LongerKeeps DEF HomeBoxInv, BoxTick
<1>6. StateInv' /\ PhaseInv'
  BY <1>1, <1>2, <1>3 DEF HomeBoxInv, StateInv, PhaseInv, BoxTick, Captured, HStates
<1>7. FlightInv' /\ ContentInv'
  BY <1>1, <1>2, <1>5 DEF HomeBoxInv, FlightInv, ContentInv, NoPieces, BoxTick, Captured
<1>8. KeptInv'
  <2>1. Held' = Held /\ Known' = Known
    BY <1>2 DEF Held, Known, BoxTick
  <2>2. QED
    BY <1>1, <1>2, <1>5, <2>1 DEF HomeBoxInv, KeptInv, BoxTick, Captured
<1>9. QED
  BY <1>5, <1>6, <1>7, <1>8 DEF HomeBoxInv

LEMMA InitKeeps ==
  ASSUME HomeBoxInv, BoxTick, NEW q, Longer(q), WaitForInit(q), NothingSaved
  PROVE  HomeBoxInv'
<1>1. /\ Longer(sent') /\ hState = "WaitForInit"
      /\ UNCHANGED <<conn, reopen, stored, active, idx, queue, nextPiece, waiting, writeIndex, oBox, file, pending>>
      /\ retry' \in BOOLEAN
  BY DEF WaitForInit, NothingSaved, HomeBoxInv, PhaseInv
<1>2. CASE hState' = hState
  BY <1>1, <1>2, StayKeeps DEF BoxTick, HomeBoxInv, PhaseInv
<1>3. CASE hState' = "Update"
  <2>1. /\ idx = Identity /\ queue = {} /\ ~pending /\ nextPiece = 1 /\ active \in [Slots -> Boxes]
        /\ \A i \in Slots : idx[i] = i
    BY <1>1, Zenon DEF HomeBoxInv, PhaseInv, Captured, Identity
  <2>2. WireInv' /\ (NoPiecesIn(sent) <=> NoPiecesIn(sent)') /\ (NoPieceResults <=> NoPieceResults')
    BY <1>1, LongerKeeps DEF HomeBoxInv, BoxTick
  <2>3. StateInv'
    BY <1>1 DEF HomeBoxInv, StateInv, BoxTick
  <2>4. PhaseInv'
    BY <1>1, <1>3, <2>1 DEF HomeBoxInv, PhaseInv, BoxTick, Captured, HStates
  <2>5. FlightInv'
    <3>1. ~crossed' => NoPieces'
      BY <1>1, <2>2 DEF HomeBoxInv, FlightInv, NoPieces, BoxTick, Captured
    <3>2. NoPieces' => OnePiece'
      BY DEF NoPieces, NoPiecesIn, NoPieceResults, OnePiece
    <3>3. QED
      BY <1>3, <3>1, <3>2 DEF FlightInv, Captured
  <2>6. ContentInv'
    <3>1. ~crossed' => \A i \in LocalSlots : gBoxes[i] = active[idx[i]]
      BY <1>1, <2>1, Bounds DEF HomeBoxInv, ContentInv, BoxTick, Captured
    <3>2. QED
      BY <1>1, <1>3, <2>1, <3>1 DEF ContentInv, BoxTick, Captured
  <2>7. KeptInv'
    <3>1. Held' = Held /\ Known' = Known
      BY <1>1 DEF Held, Known, BoxTick
    <3>2. \A j \in 1..Remote : file[j] = active[idx[Local + j]]
      BY <1>1, <2>1, Bounds DEF HomeBoxInv, PhaseInv, Captured
    <3>3. QED
      BY <1>1, <1>3, <2>1, <3>1, <3>2 DEF HomeBoxInv, KeptInv, BoxTick, Captured
  <2>8. QED
    BY <2>2, <2>3, <2>4, <2>5, <2>6, <2>7 DEF HomeBoxInv
<1>4. QED
  BY <1>1, <1>2, <1>3 DEF WaitForInit

\* The game has all pieces of the front box that have been sent and confirmed.
LEMMA FrontWritten ==
  ASSUME HomeBoxInv, ~crossed, hState = "Update", queue # {}, ~waiting
  PROVE  /\ NoPiecesIn(sent) /\ NoPieceResults
         /\ \A k \in 1..(nextPiece - 1) : gBoxes[Front][k] = active[idx[Front]][k]
         /\ nextPiece > Pieces => gBoxes[Front] = active[idx[Front]]
<1>1. /\ OnePiece /\ (\A k \in 1..(nextPiece - 1) : Written(k)) /\ queue \subseteq LocalSlots
      /\ nextPiece \in 1..(Pieces + 1) /\ gBoxes \in [LocalSlots -> Boxes]
      /\ active \in [Slots -> Boxes] /\ idx \in Perms
  BY DEF HomeBoxInv, FlightInv, ContentInv, PhaseInv, StateInv
<1>2. NoPiecesIn(sent) /\ NoPieceResults
  BY <1>1 DEF OnePiece, OwnPiece, NoPiecesIn, NoPieceResults
<1>3. \A k \in 1..(nextPiece - 1) : gBoxes[Front][k] = active[idx[Front]][k]
  BY <1>1, <1>2 DEF Written
<1>4. ASSUME nextPiece > Pieces PROVE gBoxes[Front] = active[idx[Front]]
  <2>1. nextPiece - 1 = Pieces
    BY <1>1, <1>4, Bounds
  <2>2. gBoxes[Front] \in Boxes /\ active[idx[Front]] \in Boxes
    BY <1>1, FrontFacts, OrderFacts, Bounds
  <2>3. QED
    BY <1>3, <2>1, <2>2, SameBox
<1>5. QED
  BY <1>2, <1>3, <1>4

\* A box is written: it leaves the queue.
LEMMA WrittenKeeps ==
  ASSUME HomeBoxInv, BoxTick, Longer(sent'), hState = "Update", queue # {}, NothingSaved,
         ~waiting, nextPiece > Pieces, queue' = queue \ {Front}, nextPiece' = 1, waiting' = FALSE,
         UNCHANGED <<conn, hState, reopen, stored, active, idx, writeIndex, oBox>>
  PROVE  HomeBoxInv'
<1>1. WireInv' /\ (NoPiecesIn(sent) <=> NoPiecesIn(sent)') /\ (NoPieceResults <=> NoPieceResults')
  BY LongerKeeps DEF HomeBoxInv, BoxTick
<1>2. pending /\ pending' = pending /\ file' = file /\ queue \subseteq LocalSlots
  BY DEF HomeBoxInv, PhaseInv, NothingSaved
<1>3. StateInv'
  BY <1>2 DEF HomeBoxInv, StateInv, BoxTick
<1>4. PhaseInv'
  <2>1. 1 \in 1..(Pieces + 1)
    BY Bounds
  <2>2. QED
    BY <1>2, <2>1 DEF HomeBoxInv, PhaseInv, BoxTick, NothingSaved, Captured
<1>5. FlightInv'
  <2>1. ~crossed' => NoPiecesIn(sent)' /\ NoPieceResults'
    BY <1>1, FrontWritten DEF BoxTick
  <2>2. ~crossed' => OnePiece'
    BY <2>1 DEF NoPiecesIn, NoPieceResults, OnePiece
  <2>3. QED
    BY <2>2 DEF FlightInv, Captured
<1>6. ContentInv'
  <2>1. ASSUME ~crossed', NEW i \in LocalSlots \ queue' PROVE gBoxes[i] = active[idx[i]]
    <3>1. CASE i = Front
      BY <2>1, <3>1, FrontWritten DEF BoxTick
    <3>2. CASE i # Front
      BY <2>1, <3>2 DEF HomeBoxInv, ContentInv, BoxTick
    <3>3. QED
      BY <3>1, <3>2
  <2>2. QED
    BY <2>1 DEF ContentInv, BoxTick, Captured
<1>7. KeptInv'
  <2>1. Known' = Known
    BY DEF Known
  <2>2. QED
    BY <1>2, <2>1 DEF HomeBoxInv, KeptInv, BoxTick, Captured
<1>8. QED
  BY <1>1, <1>3, <1>4, <1>5, <1>6, <1>7 DEF HomeBoxInv

\* The next piece is sent: the only one on its way.
LEMMA PieceKeeps ==
  ASSUME HomeBoxInv, BoxTick, NEW q, Longer(q), hState = "Update", queue # {}, NothingSaved,
         ~waiting, nextPiece <= Pieces, HasRoom(q), nextPiece' = nextPiece + 1, waiting' = TRUE,
         sent' = Append(q, PieceWrite(Front, nextPiece, active[idx[Front]])),
         UNCHANGED <<conn, hState, reopen, stored, active, idx, queue, writeIndex, oBox>>
  PROVE  HomeBoxInv'
<1>1. /\ sent \in Seq(Requests) /\ results \in Seq(Results) /\ Len(sent) \in Nat /\ Len(results) \in Nat
      /\ q \in Seq(Requests) /\ Len(q) \in Nat /\ Len(sent) <= Len(q)
      /\ \A i \in 1..Len(sent) : q[i] = sent[i]
      /\ \A i \in 1..Len(q) : i \in 1..Len(sent) \/ Plain(q[i])
  BY DEF HomeBoxInv, WireInv, Longer
<1>2. /\ pending /\ pending' = pending /\ file' = file /\ queue \subseteq LocalSlots /\ nextPiece \in 1..Pieces
      /\ active \in [Slots -> Boxes] /\ idx \in Perms /\ nextPiece' - 1 = nextPiece
  BY Bounds DEF HomeBoxInv, PhaseInv, NothingSaved
<1>3. Front \in LocalSlots /\ active[idx[Front]] \in Boxes /\ Front' = Front
  <2>1. Front' = Front
    BY DEF Front
  <2>2. QED
    BY <1>2, <2>1, FrontFacts, OrderFacts, Bounds
<1>4. PICK n : n = Len(q) + 1
  OBVIOUS
<1>5. PICK r : r = PieceWrite(Front, nextPiece, active[idx[Front]])
  OBVIOUS
<1>6. r \in Requests /\ IsPiece(r)
  BY <1>2, <1>3, <1>5, RequestFacts DEF IsPiece, PieceWrite
<1>7. /\ sent' \in Seq(Requests) /\ Len(sent') = n /\ n \in 1..Len(sent') /\ sent'[n] = r
      /\ \A i \in 1..Len(sent') : i = n \/ (i \in 1..Len(sent) /\ sent'[i] = sent[i]) \/ Plain(sent'[i])
  <2>1. /\ sent' \in Seq(Requests) /\ Len(sent') = Len(q) + 1
        /\ (\A i \in 1..Len(q) : sent'[i] = q[i]) /\ sent'[Len(q) + 1] = r
    BY <1>1, <1>5, <1>6, Appended
  <2>2. QED
    BY <1>1, <1>4, <2>1
<1>8. WireInv'
  BY <1>1, <1>4, <1>7, Bounds DEF HomeBoxInv, WireInv, BoxTick, HasRoom
<1>9. StateInv'
  BY <1>2 DEF HomeBoxInv, StateInv, BoxTick
<1>10. PhaseInv'
  <2>1. nextPiece' \in 1..(Pieces + 1) /\ nextPiece' > 1
    BY <1>2, Bounds
  <2>2. QED
    BY <1>2, <2>1 DEF HomeBoxInv, PhaseInv, BoxTick, NothingSaved, Captured
<1>11. FlightInv'
  <2>1. ASSUME ~crossed' PROVE OnePiece'
    <3>1. NoPiecesIn(sent) /\ NoPieceResults /\ NoPieceResults'
      BY <2>1, FrontWritten DEF BoxTick, NoPieceResults
    <3>2. \A i \in 1..Len(sent') : IsPiece(sent'[i]) => i = n
      BY <1>7, <3>1 DEF NoPiecesIn, Plain
    <3>3. OwnPiece(r)'
      BY <1>2, <1>3, <1>5 DEF OwnPiece
    <3>4. QED
      BY <1>7, <3>1, <3>2, <3>3 DEF OnePiece, NoPieceResults
  <2>2. QED
    BY <2>1 DEF FlightInv, Captured
<1>12. ContentInv'
  <2>1. ~NoPiecesIn(sent)'
    BY <1>6, <1>7 DEF NoPiecesIn
  <2>2. ASSUME ~crossed', NEW k \in 1..(nextPiece' - 1) PROVE Written(k)'
    <3>1. CASE k = nextPiece
      BY <1>2, <2>1, <3>1 DEF Written
    <3>2. CASE k # nextPiece
      <4>1. k \in 1..(nextPiece - 1)
        BY <1>2, <2>2, <3>2
      <4>2. gBoxes[Front][k] = active[idx[Front]][k]
        BY <2>2, <4>1, FrontWritten DEF BoxTick
      <4>3. QED
        BY <1>3, <4>2 DEF Written, BoxTick
    <3>3. QED
      BY <3>1, <3>2
  <2>3. ~crossed' => \A i \in LocalSlots \ queue : gBoxes[i] = active[idx[i]]
    BY DEF HomeBoxInv, ContentInv, BoxTick
  <2>4. QED
    BY <2>2, <2>3 DEF ContentInv, BoxTick, Captured
<1>13. KeptInv'
  <2>1. Known' = Known
    BY DEF Known
  <2>2. QED
    BY <1>2, <2>1 DEF HomeBoxInv, KeptInv, BoxTick, Captured
<1>14. QED
  BY <1>8, <1>9, <1>10, <1>11, <1>12, <1>13 DEF HomeBoxInv

LEMMA PumpKeeps ==
  ASSUME HomeBoxInv, BoxTick, NEW q, Longer(q), PumpWriteMonBox(q), NothingSaved
  PROVE  HomeBoxInv'
<1>1. /\ hState = "Update" /\ queue # {} /\ UNCHANGED <<conn, hState, reopen, stored, active, idx, writeIndex, oBox>>
      /\ waiting \in BOOLEAN /\ nextPiece \in 1..(Pieces + 1)
  BY DEF PumpWriteMonBox, HomeBoxInv, PhaseInv
<1>2. CASE ~waiting /\ nextPiece > Pieces
  <2>1. ~(nextPiece <= Pieces)
    BY <1>1, <1>2, Bounds
  <2>2. sent' = q /\ queue' = queue \ {Front} /\ nextPiece' = 1 /\ waiting' = FALSE
    BY <1>1, <1>2, <2>1 DEF PumpWriteMonBox
  <2>3. QED
    BY <1>1, <1>2, <2>2, WrittenKeeps
<1>3. CASE ~waiting /\ nextPiece <= Pieces /\ HasRoom(q)
  <2>1. ~(nextPiece > Pieces)
    BY <1>1, <1>3, Bounds
  <2>2. /\ sent' = Append(q, PieceWrite(Front, nextPiece, active[idx[Front]]))
        /\ queue' = queue /\ nextPiece' = nextPiece + 1 /\ waiting' = TRUE
    BY <1>1, <1>3, <2>1 DEF PumpWriteMonBox
  <2>3. QED
    BY <1>1, <1>3, <2>2, PieceKeeps
<1>4. CASE ~(~waiting /\ nextPiece > Pieces) /\ ~(~waiting /\ nextPiece <= Pieces /\ HasRoom(q))
  <2>1. sent' = q /\ queue' = queue /\ nextPiece' = nextPiece /\ waiting' = waiting
    BY <1>1, <1>4 DEF PumpWriteMonBox
  <2>2. UNCHANGED <<file, pending>> /\ conn' \in {"up", "closing"} /\ reopen' \in BOOLEAN /\ retry' \in BOOLEAN
    BY <1>1 DEF NothingSaved, BoxTick, HomeBoxInv, PhaseInv
  <2>3. QED
    BY <1>1, <2>1, <2>2, StayKeeps
<1>5. QED
  BY <1>2, <1>3, <1>4

\* The player's order is followed, or a session that is no longer valid is
\* ended; in both cases the exchange before may be saved, complete as it is.
LEMMA FollowKeeps ==
  ASSUME HomeBoxInv, BoxTick, oOrder # NoOrder, NEW q, Longer(q), FollowOrder(q),
         NEW outcome \in Outcomes, HandlePendingFileWrite(queue, FALSE, outcome),
         pending' = ((pending /\ outcome # "saved") \/ idx' # idx), retry' \in BOOLEAN
  PROVE  /\ HomeBoxInv'
         /\ file' # file /\ ~crossed => \A i \in LocalSlots : gBoxes[i] = active[idx[i]]
<1>1. /\ hState = "Update" /\ queue = {} /\ sent' = q /\ conn' \in {"up", "closing"}
      /\ UNCHANGED <<hState, reopen, stored, active, nextPiece, waiting, writeIndex, oBox>>
      /\ ~waiting /\ nextPiece = 1 /\ active \in [Slots -> Boxes] /\ idx \in Perms
      /\ pending \in BOOLEAN /\ oOrder \in Perms \cup {Fresh} /\ file \in [1..Remote -> Boxes]
  BY DEF FollowOrder, HomeBoxInv, PhaseInv, StateInv, BoxTick, Captured
<1>2. WireInv' /\ (NoPiecesIn(sent) <=> NoPiecesIn(sent)') /\ (NoPieceResults <=> NoPieceResults')
  BY <1>1, LongerKeeps DEF HomeBoxInv, BoxTick
<1>3. ~crossed => NoPiecesIn(sent) /\ NoPieceResults /\ \A i \in LocalSlots : gBoxes[i] = active[idx[i]]
  <2> SUFFICES ASSUME ~crossed PROVE NoPiecesIn(sent) /\ NoPieceResults /\ \A i \in LocalSlots : gBoxes[i] = active[idx[i]]
    OBVIOUS
  <2>1. OnePiece
    BY <1>1 DEF HomeBoxInv, FlightInv
  <2>2. NoPieceResults
    BY <1>1, <2>1 DEF OnePiece, NoPieceResults
  <2>3. Unfinished = {}
    BY <1>1 DEF Unfinished
  <2>4. QED
    BY <1>1, <2>2, <2>3, AllWritten
<1>4. /\ idx' \in Perms /\ queue' \subseteq LocalSlots /\ (idx' = idx => queue' = {})
      /\ \A i \in LocalSlots \ queue' : idx'[i] = idx[i]
  BY <1>1 DEF FollowOrder
<1>5. /\ file' \in [1..Remote -> Boxes]
      /\ file' = file \/ (outcome = "saved" /\ pending /\ \A j \in 1..Remote : file'[j] = active[idx[Local + j]])
      /\ outcome = "saved" => pending /\ \A j \in 1..Remote : file'[j] = active[idx[Local + j]]
      /\ outcome # "saved" => file' = file
  BY <1>1, RecordsFacts DEF HandlePendingFileWrite, Outcomes
<1>6. StateInv'
  BY <1>1, <1>5 DEF HomeBoxInv, StateInv, BoxTick
<1>7. PhaseInv'
  BY <1>1, <1>4 DEF HomeBoxInv, PhaseInv, BoxTick, Captured
<1>8. FlightInv'
  <2>1. ~crossed' => OnePiece'
    BY <1>2, <1>3 DEF NoPiecesIn, NoPieceResults, OnePiece, BoxTick
  <2>2. QED
    BY <1>1, <2>1 DEF FlightInv, Captured
<1>9. ContentInv'
  <2>1. ASSUME ~crossed', NEW i \in LocalSlots \ queue' PROVE gBoxes'[i] = active'[idx'[i]]
    BY <1>1, <1>3, <1>4, <2>1 DEF BoxTick
  <2>2. QED
    BY <1>1, <2>1 DEF ContentInv, Captured
<1>10. KeptInv'
  <2>1. Known' = Known
    BY <1>1 DEF Known
  <2>2. ASSUME ~crossed', ~lost', ~pending'
        PROVE  Held' = Originals /\ \A j \in 1..Remote : file'[j] = active'[idx'[Local + j]]
    <3>1. idx' = idx /\ (~pending \/ outcome = "saved") /\ ~crossed /\ ~lost
      BY <2>2 DEF BoxTick
    <3>2. CASE outcome = "saved"
      <4>1. PICK g, f, a, o : g = gBoxes /\ f = file' /\ a = active /\ o = idx
        OBVIOUS
      <4>2. /\ a \in [Slots -> Boxes] /\ o \in Perms
            /\ (\A i \in LocalSlots : g[i] = a[o[i]]) /\ \A j \in 1..Remote : f[j] = a[o[Local + j]]
        BY <1>1, <1>3, <1>5, <3>1, <3>2, <4>1
      <4>3. HeldBy(g, f) = AllOf(a)
        BY <4>2, AllHeld
      <4>4. Held' = Known
        BY <4>1, <4>3 DEF Held, HeldBy, Known, BoxTick
      <4>5. Known = Originals
        BY <1>1, <3>1 DEF HomeBoxInv, KeptInv
      <4>6. QED
        BY <1>1, <1>5, <3>1, <3>2, <4>4, <4>5
    <3>3. CASE outcome # "saved"
      <4>1. ~pending /\ file' = file
        BY <1>5, <3>1, <3>3
      <4>2. Held' = Held
        BY <4>1 DEF Held, BoxTick
      <4>3. QED
        BY <1>1, <3>1, <4>1, <4>2 DEF HomeBoxInv, KeptInv
    <3>4. QED
      BY <3>2, <3>3
  <2>3. ~crossed' /\ ~lost' => Known = Originals
    BY <1>1 DEF HomeBoxInv, KeptInv, BoxTick
  <2>4. QED
    BY <1>1, <2>1, <2>2, <2>3 DEF KeptInv, Captured
<1>11. QED
  BY <1>2, <1>3, <1>5, <1>6, <1>7, <1>8, <1>9, <1>10 DEF HomeBoxInv

LEMMA WithBoxKeeps ==
  ASSUME HomeBoxInv, TickWithBox
  PROVE  /\ HomeBoxInv'
         /\ file' # file /\ ~crossed => \A i \in LocalSlots : gBoxes[i] = active[idx[i]]
<1>1. /\ BoxTick /\ OnUpdate(Observing) /\ oOrder # NoOrder
      /\ crossed' = (crossed \/ (Len(active') > Len(active) /\ hState' = "WaitingForBoxData" /\ BoxReadUnderWay))
  BY DEF TickWithBox, BoxTick, IsHomeBoxStateValid, gameVars
<1>2. PICK q : q = Observing
  OBVIOUS
<1>3. Longer(q) /\ OnUpdate(q)
  BY <1>1, <1>2, ObservingLonger DEF HomeBoxInv
<1>4. CASE reopen
  <2>1. /\ sent' = q
        /\ UNCHANGED <<file, conn, oBox, hState, reopen, stored, active, idx, queue, nextPiece, waiting, writeIndex, pending, retry>>
    BY <1>3, <1>4 DEF OnUpdate
  <2>2. QED
    BY <1>1, <1>3, <2>1, StayKeeps DEF BoxTick, HomeBoxInv, PhaseInv
<1>5. CASE ~reopen
  <2>1. /\ \/ OpenOfflineFile(q) \/ InitialiseBoxData(q) \/ WaitingForBoxData(q)
           \/ SendGameDataInit(q) \/ WaitForInit(q)
           \/ PumpWriteMonBox(q) \/ FollowOrder(q)
        /\ \E outcome \in Outcomes :
             /\ HandlePendingFileWrite(queue, FALSE, outcome)
             /\ pending' = ((pending /\ outcome # "saved") \/ idx' # idx)
             /\ retry' = ((retry /\ outcome = "none") \/ outcome = "failed")
    BY <1>3, <1>5 DEF OnUpdate
  <2>2. PICK outcome \in Outcomes :
             /\ HandlePendingFileWrite(queue, FALSE, outcome)
             /\ pending' = ((pending /\ outcome # "saved") \/ idx' # idx)
             /\ retry' = ((retry /\ outcome = "none") \/ outcome = "failed")
    BY <2>1
  <2>3. retry' \in BOOLEAN
    BY <2>2
  <2>4. CASE FollowOrder(q)
    BY <1>1, <1>3, <2>2, <2>3, <2>4, FollowKeeps
  <2>5. CASE ~FollowOrder(q)
    <3>1. hState # "Update" \/ queue # {}
      BY <2>1, <2>5 DEF OpenOfflineFile, InitialiseBoxData, WaitingForBoxData, SendGameDataInit, WaitForInit, PumpWriteMonBox
    <3>2. ~pending \/ queue # {}
      BY <3>1 DEF HomeBoxInv, PhaseInv
    <3>3. outcome = "none" /\ file' = file
      BY <2>2, <3>2, NoSave
    <3>4. NothingSaved
      BY <2>2, <2>3, <3>3 DEF NothingSaved
    <3>5. HomeBoxInv'
      BY <1>1, <1>3, <2>1, <2>5, <3>4, OpenKeeps, InitialiseKeeps, WaitingKeeps, SendKeeps, InitKeeps, PumpKeeps
    <3>6. QED
      BY <3>3, <3>5
  <2>6. QED
    BY <2>4, <2>5
<1>6. QED
  BY <1>4, <1>5

-----------------------------------------------------------------------------
(* The player's order.  Up to the second time the screen is opened, a game   *)
(* has one session that can set the order, and its order write runs while    *)
(* the order is fresh.  What makes it so is what the game is known to be:    *)
(* the pointer's answers go from shut to open to shut, and an order read as  *)
(* fresh before anything was sent is fresh still.                            *)

IsOrder(r) == r.kind = "order"
OrderWrites(q) == {i \in 1..Len(q) : IsOrder(q[i])}

\* The pointer's answers, by whether the screen was open.
SawOpen == {i \in 1..Len(results) : results[i].answer.kind = "ptr" /\ results[i].answer.slot = 1}
SawShut == {i \in 1..Len(results) : results[i].answer.kind = "ptr" /\ results[i].answer.slot # 1}

\* The screen has been closed for good, and from the j-th result on it is seen.
Over(j) == ~open /\ opens = 1 /\ \A i \in SawOpen : i <= j

PtrInv ==
  /\ SawOpen # {} \/ oPtr = "set" => opens = 1
  /\ \A i \in SawOpen, j \in SawShut : i < j => Over(j)
  /\ oPtr = "set" => \A j \in SawShut : Over(j)

WriteInv ==
  /\ OrderWrites(sent) # {} => order = Fresh /\ opens = 1
  /\ \A i, j \in OrderWrites(sent) : i = j
  /\ opens = 0 => order = Fresh /\ ~open

\* This connection has not written the order.
Untouched ==
  /\ OrderWrites(sent) = {}
  /\ oOrder = Fresh => order = Fresh
  /\ \A i \in 1..Len(results) : results[i].order = Fresh => order = Fresh

Setting == {"InitialiseBoxData", "WaitingForBoxData", "SendGameDataInit"}

DownInv == conn = "down" => results = << >> /\ oOrder = NoOrder

\* Without a session, there has been none or there will be none.
IdleInv == conn = "up" /\ ~attached => Untouched \/ (oPtr # "set" /\ Over(0))

BusyInv == conn = "up" /\ attached =>
  /\ opens = 1
  /\ oPtr = "set" => oOrder # NoOrder
  /\ oPtr # "set" => Over(0)
  /\ hState \in Setting \cup {"OpenOfflineFile"} => Untouched
  /\ hState \in Setting => order = Fresh

FirstInv == PtrInv /\ WriteInv /\ DownInv /\ IdleInv /\ BusyInv
OrderInv == opens <= 1 => FirstInv

LEMMA NoOrderFacts == NoOrder # Fresh /\ NoOrder \notin Perms /\ Identity # Fresh
<1>1. 1 \in Slots /\ Local + Remote + 1 \notin Slots /\ Local + Remote + 1 # 0
  BY Bounds DEF Slots
<1>2. NoOrder[1] = Local + Remote + 1 /\ Fresh[1] = 0
  BY <1>1 DEF NoOrder, Fresh
<1>3. \A o \in Perms : o[1] \in Slots
  BY <1>1, OrderFacts
<1>4. QED
  BY <1>1, <1>2, <1>3, OrderFacts

LEMMA WritesAppended ==
  ASSUME NEW q \in Seq(Requests), NEW r \in Requests
  PROVE  /\ IsOrder(r) => OrderWrites(Append(q, r)) = OrderWrites(q) \cup {Len(q) + 1}
         /\ ~IsOrder(r) => OrderWrites(Append(q, r)) = OrderWrites(q)
<1> DEFINE p == Append(q, r)
<1>1. Len(q) \in Nat /\ Len(p) = Len(q) + 1 /\ (\A i \in 1..Len(q) : p[i] = q[i]) /\ p[Len(q) + 1] = r
  BY Appended
<1> HIDE DEF p
<1>2. 1..Len(p) = (1..Len(q)) \cup {Len(q) + 1}
  BY <1>1
<1>3. QED
  BY <1>1, <1>2 DEF OrderWrites, p

\* Requests that are no order writes.
LEMMA WritesOffered ==
  ASSUME NEW q \in Seq(Requests), NEW r \in Requests, ~IsOrder(r)
  PROVE  Offer(q, r) \in Seq(Requests) /\ OrderWrites(Offer(q, r)) = OrderWrites(q)
BY WritesAppended, Appended DEF Offer

LEMMA WritesObserving ==
  ASSUME WireInv
  PROVE  Observing \in Seq(Requests) /\ OrderWrites(Observing) = OrderWrites(sent)
<1>1. PtrRead \in Requests /\ StateRead \in Requests /\ ~IsOrder(PtrRead) /\ ~IsOrder(StateRead)
  BY RequestFacts DEF PtrRead, StateRead, IsOrder
<1>2. sent \in Seq(Requests)
  BY DEF WireInv
<1>3. Offer(sent, PtrRead) \in Seq(Requests) /\ OrderWrites(Offer(sent, PtrRead)) = OrderWrites(sent)
  BY <1>1, <1>2, WritesOffered
<1>4. /\ Offer(Offer(sent, PtrRead), StateRead) \in Seq(Requests)
      /\ OrderWrites(Offer(Offer(sent, PtrRead), StateRead)) = OrderWrites(sent)
  BY <1>1, <1>3, WritesOffered
<1>5. QED
  BY <1>3, <1>4 DEF Observing

LEMMA SameScreen ==
  ASSUME PtrInv, UNCHANGED <<results, open, opens, oPtr>>
  PROVE  PtrInv' /\ SawOpen' = SawOpen /\ \A j : Over(j)' = Over(j)
BY DEF PtrInv, SawOpen, SawShut, Over

-----------------------------------------------------------------------------
(* The player, and the end of a connection. *)

LEMMA FirstOpen == ASSUME HomeBoxInv, OrderInv, OpenScreen, opens' <= 1 PROVE FirstInv'
<1>1. opens = 0 /\ opens' = 1 /\ order' = Fresh /\ open' = TRUE
  BY DEF OpenScreen, HomeBoxInv, StateInv
<1>2. FirstInv /\ order = Fresh
  BY <1>1 DEF OrderInv, FirstInv, WriteInv
<1>3. UNCHANGED <<sent, results, conn, oPtr, oOrder, attached, hState>>
  BY DEF OpenScreen, observedVars, behaviourVars
<1>4. SawOpen = {} /\ oPtr # "set" /\ OrderWrites(sent) = {}
  BY <1>1, <1>2 DEF FirstInv, PtrInv, WriteInv
<1>5. SawOpen' = {} /\ OrderWrites(sent)' = {}
  BY <1>3, <1>4 DEF SawOpen, OrderWrites
<1>6. PtrInv' /\ WriteInv'
  BY <1>1, <1>3, <1>4, <1>5 DEF PtrInv, WriteInv
<1>7. ~(conn = "up" /\ attached)
  BY <1>1, <1>2 DEF FirstInv, BusyInv
<1>8. Untouched'
  BY <1>1, <1>5 DEF Untouched
<1>9. QED
  BY <1>2, <1>3, <1>6, <1>7, <1>8 DEF FirstInv, DownInv, IdleInv, BusyInv

LEMMA FirstClose == ASSUME HomeBoxInv, FirstInv, CloseScreen PROVE FirstInv'
<1>1. UNCHANGED <<order, opens, sent, results, conn, oPtr, oOrder, attached, hState>> /\ open /\ ~open'
  BY DEF CloseScreen, observedVars, behaviourVars
<1>2. SawOpen' = SawOpen /\ SawShut' = SawShut /\ OrderWrites(sent)' = OrderWrites(sent) /\ Untouched' = Untouched
  BY <1>1 DEF SawOpen, SawShut, OrderWrites, Untouched
<1>3. \A j : ~Over(j)
  BY <1>1 DEF Over
<1>4. PtrInv' /\ WriteInv'
  BY <1>1, <1>2, <1>3 DEF FirstInv, PtrInv, WriteInv
<1>5. DownInv' /\ IdleInv' /\ BusyInv'
  BY <1>1, <1>2, <1>3 DEF FirstInv, DownInv, IdleInv, BusyInv
<1>6. QED
  BY <1>4, <1>5 DEF FirstInv

LEMMA FirstSwap == ASSUME HomeBoxInv, FirstInv, NEW i \in Slots, NEW j \in Slots, i < j, Swap(i, j) PROVE FirstInv'
<1>1. UNCHANGED <<open, opens, sent, results, conn, oPtr, oOrder, attached, hState>> /\ order # Fresh
  BY DEF Swap, observedVars, behaviourVars
<1>2. PtrInv' /\ \A k : Over(k)' = Over(k)
  BY <1>1, SameScreen DEF FirstInv
<1>3. OrderWrites(sent) = {} /\ OrderWrites(sent)' = {} /\ opens # 0
  BY <1>1 DEF FirstInv, WriteInv, OrderWrites
<1>4. WriteInv'
  BY <1>1, <1>3 DEF WriteInv
<1>5. Untouched => Untouched'
  BY <1>1, <1>3 DEF Untouched
<1>6. hState \notin Setting \/ ~(conn = "up" /\ attached)
  BY <1>1 DEF FirstInv, BusyInv
<1>7. QED
  BY <1>1, <1>2, <1>4, <1>5, <1>6 DEF FirstInv, DownInv, IdleInv, BusyInv

LEMMA FirstLose == ASSUME HomeBoxInv, FirstInv, LoseConnection PROVE FirstInv'
<1>1. UNCHANGED <<open, order, opens, sent, results, oPtr>> /\ conn' = "closing"
  BY DEF LoseConnection, gameVars, observedVars
<1>2. PtrInv'
  BY <1>1, SameScreen DEF FirstInv
<1>3. WriteInv'
  BY <1>1 DEF FirstInv, WriteInv, OrderWrites
<1>4. QED
  BY <1>1, <1>2, <1>3 DEF FirstInv, DownInv, IdleInv, BusyInv

LEMMA FirstEnd == ASSUME HomeBoxInv, FirstInv, Disconnect \/ Crash PROVE FirstInv'
<1>1. /\ UNCHANGED <<open, order, opens, sent>>
      /\ results' = << >> /\ conn' = "down" /\ oPtr' = "unread" /\ oOrder' = NoOrder
  BY DEF Disconnect, Crash, gameVars
<1>2. SawOpen' = {}
  BY <1>1 DEF SawOpen
<1>3. PtrInv'
  BY <1>1, <1>2 DEF PtrInv
<1>4. WriteInv'
  BY <1>1 DEF FirstInv, WriteInv, OrderWrites
<1>5. QED
  BY <1>1, <1>3, <1>4 DEF FirstInv, DownInv, IdleInv, BusyInv

LEMMA FirstReconnect == ASSUME HomeBoxInv, FirstInv, Reconnect PROVE FirstInv'
<1>1. UNCHANGED <<open, order, opens, results, oPtr, oOrder, attached>> /\ sent' = << >> /\ conn = "down" /\ conn' = "up"
  BY DEF Reconnect, gameVars, observedVars, behaviourVars
<1>2. results = << >> /\ oOrder = NoOrder /\ ~attached
  BY <1>1 DEF FirstInv, DownInv, HomeBoxInv, PhaseInv
<1>3. OrderWrites(sent)' = {}
  BY <1>1 DEF OrderWrites
<1>4. PtrInv'
  BY <1>1, SameScreen DEF FirstInv
<1>5. WriteInv'
  BY <1>1, <1>3 DEF FirstInv, WriteInv
<1>6. Untouched'
  BY <1>1, <1>2, <1>3, NoOrderFacts DEF Untouched
<1>7. QED
  BY <1>1, <1>2, <1>4, <1>5, <1>6 DEF FirstInv, DownInv, IdleInv, BusyInv

-----------------------------------------------------------------------------
(* The game runs a request, and the answer is polled. *)

LEMMA FirstExecute ==
  ASSUME HomeBoxInv, FirstInv, opens <= 1, Execute
  PROVE  FirstInv' /\ (order' = order \/ order = Fresh)
<1> DEFINE r == Head(sent)
           n == Len(results) + 1
           a == [answer |-> Answer(r), order |-> order]
<1>1. /\ sent # << >> /\ sent' = Tail(sent)
      /\ order' = IF IsOrder(r) THEN Identity ELSE order
      /\ results' = IF conn = "up" THEN Append(results, a) ELSE results
      /\ UNCHANGED <<open, opens, conn, oPtr, oOrder, attached, hState>>
  BY ExecuteRuns DEF Runs, IsOrder, observedVars, behaviourVars
<1>2. /\ r \in Requests /\ r = sent[1] /\ Len(sent) \in Nat \ {0} /\ Len(sent') = Len(sent) - 1
      /\ \A i \in 1..Len(sent') : i + 1 \in 1..Len(sent) /\ sent'[i] = sent[i + 1]
  BY <1>1, HeadTail DEF HomeBoxInv, WireInv
<1>3. /\ IsOrder(r) => 1 \in OrderWrites(sent)
      /\ \A i \in OrderWrites(sent') : i \in Nat \ {0} /\ i + 1 \in OrderWrites(sent)
  BY <1>2 DEF OrderWrites
<1>4. /\ OrderWrites(sent) = {} => OrderWrites(sent') = {} /\ ~IsOrder(r)
      /\ IsOrder(r) => OrderWrites(sent') = {} /\ order = Fresh /\ opens = 1
      /\ \A i, j \in OrderWrites(sent') : i = j
  <2>1. OrderWrites(sent) = {} => OrderWrites(sent') = {} /\ ~IsOrder(r)
    BY <1>3
  <2>2. ASSUME IsOrder(r) PROVE OrderWrites(sent') = {} /\ order = Fresh /\ opens = 1
    <3>1. 1 \in OrderWrites(sent)
      BY <1>3, <2>2
    <3>2. ASSUME NEW i \in OrderWrites(sent') PROVE FALSE
      <4>1. i \in Nat \ {0} /\ i + 1 = 1
        BY <1>3, <3>1, <3>2 DEF FirstInv, WriteInv
      <4>2. QED
        BY <4>1
    <3>3. QED
      BY <3>1, <3>2 DEF FirstInv, WriteInv
  <2>3. ASSUME NEW i \in OrderWrites(sent'), NEW j \in OrderWrites(sent') PROVE i = j
    <3>1. i \in Nat /\ j \in Nat /\ i + 1 = j + 1
      BY <1>3, <2>3 DEF FirstInv, WriteInv
    <3>2. QED
      BY <3>1
  <2>4. QED
    BY <2>1, <2>2, <2>3
<1>5. WriteInv'
  <2>1. CASE IsOrder(r)
    BY <1>1, <1>4, <2>1 DEF WriteInv
  <2>2. CASE ~IsOrder(r)
    BY <1>1, <1>4, <2>2 DEF FirstInv, WriteInv
  <2>3. QED
    BY <2>1, <2>2
<1>6. CASE conn # "up"
  <2>1. results' = results /\ conn' # "up"
    BY <1>1, <1>6
  <2>2. PtrInv'
    BY <1>1, <2>1, SameScreen DEF FirstInv
  <2>3. QED
    BY <1>1, <1>4, <1>5, <2>1, <2>2 DEF FirstInv, DownInv, IdleInv, BusyInv
<1>7. CASE conn = "up"
  <2>1. /\ Len(results) \in Nat /\ n \in Nat /\ Len(results') = n
        /\ (\A i \in 1..Len(results) : results'[i] = results[i]) /\ results'[n] = a
        /\ 1..Len(results') = (1..Len(results)) \cup {n}
    <3>1. results \in Seq(Results) /\ a \in Results
      BY <1>2, AnswerFacts DEF HomeBoxInv, WireInv
    <3>2. results' = Append(results, a)
      BY <1>1, <1>7
    <3> HIDE DEF a
    <3>3. QED
      BY <3>1, <3>2, Appended
  <2>2. /\ a.order = order /\ a.answer = Answer(r) /\ Answer(r).kind = r.kind
        /\ r.kind = "ptr" => Answer(r).slot = IF open THEN 1 ELSE 0
    <3>1. Answer(r).kind = r.kind
      BY <1>2, AnswerFacts DEF HomeBoxInv
    <3>2. r.kind = "ptr" => Answer(r).slot = IF open THEN 1 ELSE 0
      BY <1>2 DEF Answer, Requests
    <3> HIDE DEF r
    <3>3. QED
      BY <3>1, <3>2
  <2> HIDE DEF a, r, n
  <2>3. /\ SawOpen' = SawOpen \cup (IF r.kind = "ptr" /\ open THEN {n} ELSE {})
        /\ SawShut' = SawShut \cup (IF r.kind = "ptr" /\ ~open THEN {n} ELSE {})
    BY <2>1, <2>2 DEF SawOpen, SawShut
  <2>4. /\ \A i \in SawOpen : i \in Nat /\ i < n
        /\ \A i \in SawShut : i \in Nat /\ i < n
    BY <2>1 DEF SawOpen, SawShut, n
  <2>5. ASSUME NEW j, Over(j) PROVE Over(j)'
    BY <1>1, <2>3, <2>5 DEF Over
  <2>6. PtrInv'
    <3>1. SawOpen' # {} \/ oPtr' = "set" => opens' = 1
      BY <1>1, <2>3 DEF FirstInv, PtrInv, WriteInv, HomeBoxInv, StateInv
    <3>2. ASSUME NEW i \in SawOpen', NEW j \in SawShut', i < j PROVE Over(j)'
      <4>1. CASE j \in SawShut
        <5>1. i \in SawOpen
          BY <2>1, <2>3, <2>4, <3>2, <4>1
        <5>2. QED
          BY <2>5, <3>2, <4>1, <5>1 DEF FirstInv, PtrInv
      <4>2. CASE j \notin SawShut
        <5>1. j = n /\ ~open /\ SawOpen' = SawOpen
          BY <2>3, <3>2, <4>2
        <5>2. opens = 1 /\ \A k \in SawOpen : k <= j
          BY <2>1, <2>4, <3>2, <5>1 DEF FirstInv, PtrInv
        <5>3. QED
          BY <1>1, <5>1, <5>2 DEF Over
      <4>3. QED
        BY <4>1, <4>2
    <3>3. ASSUME oPtr' = "set", NEW j \in SawShut' PROVE Over(j)'
      <4>1. CASE j \in SawShut
        BY <1>1, <2>5, <3>3, <4>1 DEF FirstInv, PtrInv
      <4>2. CASE j \notin SawShut
        <5>1. j = n /\ ~open /\ SawOpen' = SawOpen
          BY <2>3, <3>3, <4>2
        <5>2. opens = 1 /\ \A k \in SawOpen : k <= j
          BY <1>1, <2>1, <2>4, <3>3, <5>1 DEF FirstInv, PtrInv
        <5>3. QED
          BY <1>1, <5>1, <5>2 DEF Over
      <4>3. QED
        BY <4>1, <4>2
    <3>4. QED
      BY <3>1, <3>2, <3>3 DEF PtrInv
  <2>7. ASSUME Untouched PROVE Untouched' /\ order' = order
    BY <1>1, <1>4, <2>1, <2>2, <2>7 DEF Untouched
  <2>8. IdleInv'
    BY <1>1, <1>7, <2>5, <2>7 DEF FirstInv, IdleInv
  <2>9. BusyInv'
    BY <1>1, <1>7, <2>5, <2>7 DEF FirstInv, BusyInv
  <2>10. QED
    BY <1>1, <1>4, <1>5, <1>7, <2>6, <2>8, <2>9 DEF FirstInv, DownInv
<1>8. QED
  BY <1>6, <1>7

LEMMA FirstDeliver == ASSUME HomeBoxInv, FirstInv, Deliver PROVE FirstInv'
<1> DEFINE h == Head(results)
<1>1. /\ conn = "up" /\ results # << >> /\ results' = Tail(results)
      /\ oPtr' = IF h.answer.kind = "ptr" THEN (IF h.answer.slot = 1 THEN "set" ELSE "null") ELSE oPtr
      /\ oOrder' = IF h.answer.kind = "state" THEN h.order ELSE oOrder
      /\ UNCHANGED <<open, order, opens, sent, conn, attached, hState>>
  BY DEF Deliver, gameVars
<1>2. /\ h \in Results /\ h = results[1] /\ Len(results) \in Nat \ {0} /\ Len(results') = Len(results) - 1
      /\ \A i \in 1..Len(results') : i + 1 \in 1..Len(results) /\ results'[i] = results[i + 1]
  BY <1>1, HeadTail DEF HomeBoxInv, WireInv
<1>3. h.order \in Perms \cup {Fresh}
  BY <1>2 DEF Results
<1> HIDE DEF h
<1>4. /\ \A i \in SawOpen' : i \in Nat \ {0} /\ i + 1 \in SawOpen
      /\ \A i \in SawShut' : i \in Nat \ {0} /\ i + 1 \in SawShut
      /\ \A i \in SawOpen : i \in Nat \ {0}
      /\ h.answer.kind = "ptr" => 1 \in (IF h.answer.slot = 1 THEN SawOpen ELSE SawShut)
  BY <1>2 DEF SawOpen, SawShut
<1>5. ASSUME NEW j \in Nat, Over(j + 1) PROVE Over(j)'
  <2>1. \A i \in SawOpen' : i <= j
    BY <1>4, <1>5 DEF Over
  <2>2. QED
    BY <1>1, <1>5, <2>1 DEF Over
<1>6. ASSUME Over(0) PROVE Over(0)' /\ (oPtr # "set" => oPtr' # "set")
  <2>1. SawOpen = {}
    BY <1>4, <1>6 DEF Over
  <2>2. SawOpen' = {}
    BY <1>4, <2>1
  <2>3. QED
    BY <1>1, <1>4, <1>6, <2>1, <2>2 DEF Over
<1>7. PtrInv'
  <2>1. SawOpen' # {} \/ oPtr' = "set" => opens' = 1
    BY <1>1, <1>4 DEF FirstInv, PtrInv
  <2>2. ASSUME NEW i \in SawOpen', NEW j \in SawShut', i < j PROVE Over(j)'
    <3>1. i + 1 \in SawOpen /\ j + 1 \in SawShut /\ i + 1 < j + 1 /\ j \in Nat
      BY <1>4, <2>2
    <3>2. QED
      BY <1>5, <3>1 DEF FirstInv, PtrInv
  <2>3. ASSUME oPtr' = "set", NEW j \in SawShut' PROVE Over(j)'
    <3>1. j + 1 \in SawShut /\ 1 < j + 1 /\ j \in Nat
      BY <1>4, <2>3
    <3>2. 1 \in SawOpen \/ oPtr = "set"
      BY <1>1, <1>4, <2>3
    <3>3. Over(j + 1)
      BY <3>1, <3>2 DEF FirstInv, PtrInv
    <3>4. QED
      BY <1>5, <3>1, <3>3
  <2>4. QED
    BY <2>1, <2>2, <2>3 DEF PtrInv
<1>8. WriteInv'
  BY <1>1 DEF FirstInv, WriteInv, OrderWrites
<1>9. ASSUME Untouched PROVE Untouched'
  <2>1. OrderWrites(sent)' = {}
    BY <1>1, <1>9 DEF Untouched, OrderWrites
  <2>2. \A i \in 1..Len(results') : results'[i].order = Fresh => order = Fresh
    BY <1>2, <1>9 DEF Untouched
  <2>3. h.order = Fresh => order = Fresh
    <3>1. 1 \in 1..Len(results)
      BY <1>2
    <3>2. QED
      BY <1>2, <1>9, <3>1 DEF Untouched
  <2>4. oOrder' = Fresh => order = Fresh
    BY <1>1, <1>9, <2>3 DEF Untouched
  <2>5. QED
    BY <1>1, <2>1, <2>2, <2>4 DEF Untouched
<1>10. IdleInv'
  BY <1>1, <1>6, <1>9 DEF FirstInv, IdleInv
<1>11. BusyInv'
  <2> SUFFICES ASSUME attached PROVE BusyInv'
    BY <1>1 DEF BusyInv
  <2>1. opens = 1 /\ (oPtr = "set" => oOrder # NoOrder) /\ (oPtr # "set" => Over(0))
    BY <1>1 DEF FirstInv, BusyInv
  <2>2. oPtr' = "set" => oPtr = "set"
    BY <1>6, <2>1
  <2>3. oPtr' = "set" => oOrder' # NoOrder
    BY <1>1, <1>3, <2>1, <2>2, NoOrderFacts
  <2>4. ASSUME oPtr' # "set" PROVE Over(0)'
    <3>1. CASE oPtr = "set"
      <4>1. 1 \in SawShut
        BY <1>1, <1>4, <2>4, <3>1
      <4>2. Over(1)
        BY <3>1, <4>1 DEF FirstInv, PtrInv
      <4>3. 0 \in Nat /\ 0 + 1 = 1
        OBVIOUS
      <4>4. QED
        BY <1>5, <4>2, <4>3
    <3>2. QED
      BY <1>6, <2>1, <3>1
  <2>5. QED
    BY <1>1, <1>9, <2>1, <2>3, <2>4 DEF FirstInv, BusyInv
<1>12. QED
  BY <1>1, <1>7, <1>8, <1>10, <1>11 DEF FirstInv, DownInv

-----------------------------------------------------------------------------
(* The updates. *)

LEMMA FirstWithout == ASSUME HomeBoxInv, FirstInv, Attach \/ Detach \/ TickWithoutBox PROVE FirstInv'
<1>1. /\ UNCHANGED <<open, order, opens, results, oPtr, conn>> /\ conn = "up" /\ sent' = Observing
      /\ oOrder' = IF Clears THEN NoOrder ELSE oOrder
  BY DEF Attach, Detach, TickWithoutBox, Observe, gameVars
<1>2. OrderWrites(sent)' = OrderWrites(sent)
  BY <1>1, WritesObserving DEF HomeBoxInv, OrderWrites
<1>3. PtrInv' /\ \A j : Over(j)' = Over(j)
  BY <1>1, SameScreen DEF FirstInv
<1>4. WriteInv' /\ DownInv'
  BY <1>1, <1>2 DEF FirstInv, WriteInv, DownInv
<1>5. Untouched => Untouched'
  BY <1>1, <1>2, NoOrderFacts DEF Untouched
<1>6. CASE Attach
  <2>1. ~attached /\ attached' /\ oPtr = "set" /\ oOrder # NoOrder /\ hState' = "OpenOfflineFile"
    BY <1>6 DEF Attach, IsHomeBoxStateValid, BlankBehaviour, HomeBoxInv, PhaseInv
  <2>2. Untouched' /\ opens = 1 /\ oOrder' = oOrder
    BY <1>1, <1>5, <2>1 DEF FirstInv, IdleInv, PtrInv, Clears
  <2>3. QED
    BY <1>1, <1>3, <1>4, <2>1, <2>2 DEF FirstInv, IdleInv, BusyInv, Setting
<1>7. CASE Detach
  <2>1. attached /\ ~attached' /\ ~IsHomeBoxStateValid
    BY <1>7 DEF Detach, OnDetach
  <2>2. oPtr # "set" /\ Over(0)
    BY <1>1, <2>1 DEF FirstInv, BusyInv, IsHomeBoxStateValid
  <2>3. QED
    BY <1>1, <1>3, <1>4, <2>1, <2>2 DEF FirstInv, IdleInv, BusyInv
<1>8. CASE TickWithoutBox
  <2>1. ~attached /\ ~attached'
    BY <1>8 DEF TickWithoutBox, behaviourVars
  <2>2. QED
    BY <1>1, <1>3, <1>4, <1>5, <2>1 DEF FirstInv, IdleInv, BusyInv
<1>9. QED
  BY <1>6, <1>7, <1>8

\* All that an update of the behaviour does to the order: it sends the one write,
\* or none.
LEMMA UpdateWrites ==
  ASSUME HomeBoxInv, NEW q \in Seq(Requests), OnUpdate(q)
  PROVE  /\ hState' \in Setting \cup {"OpenOfflineFile"} => hState \in Setting \cup {"OpenOfflineFile"}
         /\ hState' \in Setting => hState \in Setting \/ (hState = "OpenOfflineFile" /\ oOrder = Fresh)
         /\ \/ OrderWrites(sent') = OrderWrites(q)
            \/ /\ hState = "SendGameDataInit" /\ hState' = "WaitForInit"
               /\ \E n \in Nat : OrderWrites(sent') = OrderWrites(q) \cup {n}
<1>1. CASE hState' = hState /\ sent' = q
  BY <1>1
<1>2. CASE OpenOfflineFile(q)
  BY <1>2 DEF OpenOfflineFile, Setting
<1>3. CASE InitialiseBoxData(q)
  <2>1. hState = "InitialiseBoxData" /\ hState' \in Setting
    BY <1>3 DEF InitialiseBoxData, Setting
  <2>2. CASE Len(active) < Local
    <3>1. Len(active) + 1 \in LocalSlots
      <4>1. active \in Seq(Boxes)
        BY <2>1 DEF HomeBoxInv, PhaseInv
      <4>2. Len(active) \in Nat
        BY <4>1
      <4>3. QED
        BY <2>2, <4>2, Bounds DEF LocalSlots
    <3>2. BoxRead(Len(active) + 1) \in Requests /\ ~IsOrder(BoxRead(Len(active) + 1))
      BY <3>1, RequestFacts DEF BoxRead, IsOrder
    <3>3. sent' = Offer(q, BoxRead(Len(active) + 1))
      BY <1>3, <2>2 DEF InitialiseBoxData
    <3>4. QED
      BY <2>1, <3>2, <3>3, WritesOffered DEF Setting
  <2>3. CASE ~(Len(active) < Local)
    <3>1. sent' = q
      BY <1>3, <2>3 DEF InitialiseBoxData
    <3>2. QED
      BY <2>1, <3>1 DEF Setting
  <2>4. QED
    BY <2>2, <2>3
<1>4. CASE WaitingForBoxData(q)
  BY <1>4 DEF WaitingForBoxData, Setting
<1>5. CASE SendGameDataInit(q)
  <2> DEFINE metadata == MetadataLeft(writeIndex)
             q1 == IF metadata THEN Offer(q, MetaWrite(writeIndex)) ELSE q
             next == IF metadata /\ HasRoom(q) THEN writeIndex + 1 ELSE writeIndex
  <2>1. hState = "SendGameDataInit"
    BY <1>5 DEF SendGameDataInit
  <2>2. q1 \in Seq(Requests) /\ OrderWrites(q1) = OrderWrites(q)
    <3>1. metadata => writeIndex \in Slots
      BY Bounds DEF HomeBoxInv, PhaseInv, MetadataLeft, Slots
    <3>2. metadata => MetaWrite(writeIndex) \in Requests /\ ~IsOrder(MetaWrite(writeIndex))
      BY <3>1, RequestFacts DEF MetaWrite, IsOrder
    <3>3. QED
      BY <3>2, WritesOffered
  <2>3. CASE MetadataLeft(next)
    <3>1. sent' = q1 /\ hState' = hState
      BY <1>5, <2>3 DEF SendGameDataInit
    <3>2. QED
      BY <2>1, <2>2, <3>1 DEF Setting
  <2>4. CASE ~MetadataLeft(next)
    <3>1. sent' = Offer(q1, OrderWrite) /\ hState' = IF HasRoom(q1) THEN "WaitForInit" ELSE hState
      BY <1>5, <2>4 DEF SendGameDataInit
    <3>2. OrderWrite \in Requests /\ IsOrder(OrderWrite)
      BY RequestFacts DEF OrderWrite, IsOrder
    <3>3. CASE HasRoom(q1)
      <4>1. sent' = Append(q1, OrderWrite) /\ hState' = "WaitForInit"
        BY <3>1, <3>3 DEF Offer
      <4> HIDE DEF q1
      <4>2. OrderWrites(sent') = OrderWrites(q) \cup {Len(q1) + 1} /\ Len(q1) + 1 \in Nat
        BY <2>2, <3>2, <4>1, WritesAppended, Appended
      <4>3. QED
        BY <2>1, <4>1, <4>2 DEF Setting
    <3>4. CASE ~HasRoom(q1)
      <4>1. sent' = q1 /\ hState' = hState
        BY <3>1, <3>4 DEF Offer
      <4>2. QED
        BY <2>1, <2>2, <4>1 DEF Setting
    <3>5. QED
      BY <3>3, <3>4
  <2>5. QED
    BY <2>3, <2>4
<1>6. CASE WaitForInit(q)
  BY <1>6 DEF WaitForInit, Setting
<1>7. CASE PumpWriteMonBox(q)
  <2>1. hState = "Update" /\ hState' = "Update" /\ queue # {}
    BY <1>7 DEF PumpWriteMonBox
  <2> DEFINE r == PieceWrite(Front, nextPiece, active[idx[Front]])
             sends == ~waiting /\ nextPiece <= Pieces /\ HasRoom(q)
  <2>2. sent' = IF sends THEN Append(q, r) ELSE q
    BY <1>7 DEF PumpWriteMonBox
  <2>3. CASE sends
    <3>1. Front \in LocalSlots /\ Front \in Slots
      BY <2>1, FrontFacts, Bounds DEF HomeBoxInv, PhaseInv
    <3>2. active[idx[Front]] \in Boxes
      <4>1. idx[Front] \in Slots
        BY <3>1, OrderFacts DEF HomeBoxInv, PhaseInv
      <4>2. active \in [Slots -> Boxes]
        BY <2>1 DEF HomeBoxInv, PhaseInv
      <4>3. QED
        BY <4>1, <4>2
    <3>3. nextPiece \in 1..Pieces
      BY <2>3, Bounds DEF HomeBoxInv, PhaseInv
    <3>4. r \in Requests
      BY <3>1, <3>2, <3>3, RequestFacts
    <3>5. ~IsOrder(r)
      BY DEF PieceWrite, IsOrder
    <3> HIDE DEF r
    <3>6. QED
      BY <2>1, <2>2, <2>3, <3>4, <3>5, WritesAppended DEF Setting
  <2>4. CASE ~sends
    BY <2>1, <2>2, <2>4 DEF Setting
  <2>5. QED
    BY <2>3, <2>4
<1>8. CASE FollowOrder(q)
  BY <1>8 DEF FollowOrder, Setting
<1>9. QED
  BY <1>1, <1>2, <1>3, <1>4, <1>5, <1>6, <1>7, <1>8 DEF OnUpdate

LEMMA FirstWith == ASSUME HomeBoxInv, FirstInv, TickWithBox PROVE FirstInv'
<1>1. /\ UNCHANGED <<open, order, opens, results, oPtr, oOrder, attached>> /\ conn = "up" /\ attached
      /\ oPtr = "set" /\ oOrder # NoOrder /\ OnUpdate(Observing)
  BY DEF TickWithBox, IsHomeBoxStateValid, gameVars
<1>2. conn' \in {"up", "closing"}
  BY <1>1 DEF OnUpdate, OpenOfflineFile, InitialiseBoxData, WaitingForBoxData, SendGameDataInit, WaitForInit,
              PumpWriteMonBox, FollowOrder
<1>3. Observing \in Seq(Requests) /\ OrderWrites(Observing) = OrderWrites(sent)
  BY WritesObserving DEF HomeBoxInv
<1>4. /\ hState' \in Setting \cup {"OpenOfflineFile"} => hState \in Setting \cup {"OpenOfflineFile"}
      /\ hState' \in Setting => hState \in Setting \/ (hState = "OpenOfflineFile" /\ oOrder = Fresh)
      /\ \/ OrderWrites(sent') = OrderWrites(sent)
         \/ /\ hState = "SendGameDataInit" /\ hState' = "WaitForInit"
            /\ \E n \in Nat : OrderWrites(sent') = OrderWrites(sent) \cup {n}
  BY <1>1, <1>3, UpdateWrites
<1>5. PtrInv'
  BY <1>1, SameScreen DEF FirstInv
<1>6. /\ opens = 1
      /\ hState \in Setting \cup {"OpenOfflineFile"} => Untouched
      /\ hState \in Setting => order = Fresh
  BY <1>1 DEF FirstInv, BusyInv
<1>7. WriteInv'
  <2>1. CASE OrderWrites(sent') = OrderWrites(sent)
    BY <1>1, <2>1 DEF FirstInv, WriteInv
  <2>2. CASE hState = "SendGameDataInit" /\ \E n \in Nat : OrderWrites(sent') = OrderWrites(sent) \cup {n}
    <3>1. OrderWrites(sent) = {} /\ order = Fresh
      BY <1>6, <2>2 DEF Untouched, Setting
    <3>2. QED
      BY <1>1, <1>6, <2>2, <3>1 DEF WriteInv
  <2>3. QED
    BY <1>4, <2>1, <2>2
<1>8. ASSUME hState' \in Setting \cup {"OpenOfflineFile"} PROVE Untouched'
  <2>1. Untouched /\ OrderWrites(sent') = OrderWrites(sent)
    BY <1>4, <1>6, <1>8 DEF Setting
  <2>2. QED
    BY <1>1, <2>1 DEF Untouched
<1>9. hState' \in Setting => order' = Fresh
  <2> SUFFICES ASSUME hState' \in Setting PROVE order = Fresh
    BY <1>1
  <2>1. CASE hState \in Setting
    BY <1>6, <2>1
  <2>2. CASE hState = "OpenOfflineFile" /\ oOrder = Fresh
    BY <1>6, <2>2 DEF Untouched
  <2>3. QED
    BY <1>4, <2>1, <2>2
<1>10. QED
  BY <1>1, <1>2, <1>5, <1>6, <1>7, <1>8, <1>9 DEF FirstInv, DownInv, IdleInv, BusyInv

LEMMA OrderInvStep ==
  ASSUME HomeBoxInv, OrderInv, [Next]_vars
  PROVE  /\ OrderInv'
         /\ opens' <= 1 /\ order' = Identity /\ order \notin {Fresh, Identity} => swaps' = swaps + 1
<1>1. opens \in Nat /\ Identity # Fresh
  BY NoOrderFacts DEF HomeBoxInv, StateInv
<1>2. CASE UNCHANGED vars
  <2>1. UNCHANGED <<open, order, opens, sent, results, conn, oPtr, oOrder, attached, hState>>
    BY <1>2 DEF vars, gameVars, observedVars, behaviourVars
  <2>2. OrderInv' = OrderInv
    BY <2>1 DEF OrderInv, FirstInv, PtrInv, WriteInv, DownInv, IdleInv, BusyInv, Untouched, Over, SawOpen, SawShut, OrderWrites
  <2>3. QED
    BY <2>1, <2>2
<1>3. CASE OpenScreen
  BY <1>1, <1>3, FirstOpen DEF OrderInv, OpenScreen
<1>4. CASE \E i, j \in Slots : i < j /\ Swap(i, j)
  BY <1>4, FirstSwap DEF OrderInv, Swap
<1>5. CASE Execute
  <2>1. opens' = opens
    BY <1>5 DEF Execute
  <2>2. QED
    BY <1>5, <2>1, FirstExecute DEF OrderInv
<1>6. CASE CloseScreen \/ Deliver \/ Tick \/ LoseConnection \/ Disconnect \/ Crash \/ Reconnect
  <2>1. UNCHANGED <<order, opens>>
    BY <1>6 DEF CloseScreen, Deliver, Tick, Attach, Detach, TickWithoutBox, TickWithBox, Observe,
                LoseConnection, Disconnect, Crash, Reconnect, gameVars
  <2>2. opens <= 1 => FirstInv'
    BY <1>6, FirstClose, FirstDeliver, FirstWithout, FirstWith, FirstLose, FirstEnd, FirstReconnect DEF OrderInv, Tick
  <2>3. QED
    BY <2>1, <2>2 DEF OrderInv
<1>7. QED
  BY <1>2, <1>3, <1>4, <1>5, <1>6 DEF Next

LEMMA OrderInvInit == Init => OrderInv
<1> SUFFICES ASSUME Init PROVE FirstInv
  BY DEF OrderInv
<1>1. sent = << >> /\ results = << >> /\ OrderWrites(sent) = {} /\ SawOpen = {}
  BY DEF Init, OrderWrites, SawOpen
<1>2. QED
  BY <1>1, NoOrderFacts DEF Init, FirstInv, PtrInv, WriteInv, DownInv, IdleInv, BusyInv, Untouched

-----------------------------------------------------------------------------
(* The theorems. *)

LEMMA NextKeeps == ASSUME HomeBoxInv, [Next]_vars PROVE HomeBoxInv'
<1>1. CASE Next
  <2>1. CASE Tick
    BY <2>1, AttachKeeps, DetachKeeps, WithoutBoxKeeps, WithBoxKeeps DEF Tick
  <2>2. QED
    BY <1>1, <2>1, PlayerKeeps, ExecuteKeeps, DeliverKeeps, DisconnectKeeps, CrashKeeps, ReconnectKeeps DEF Next
<1>2. CASE UNCHANGED vars
  <2>1. StateInv' /\ conn' = conn
    BY <1>2 DEF vars, gameVars, observedVars, HomeBoxInv, StateInv
  <2>2. QED
    BY <1>2, <2>1, SameStep DEF vars, gameVars, observedVars
<1>3. QED
  BY <1>1, <1>2

LEMMA InitHolds == Init => HomeBoxInv
<1> SUFFICES ASSUME Init PROVE HomeBoxInv
  OBVIOUS
<1>1. sent = << >> /\ results = << >> /\ Len(sent) = 0 /\ Len(results) = 0 /\ WireInv
  BY Bounds DEF Init, WireInv
<1>2. gBoxes \in [LocalSlots -> Boxes] /\ file \in [1..Remote -> Boxes]
  BY BoxFacts, Bounds DEF Init
<1>3. opens \in 0..MaxOpens /\ swaps \in 0..MaxSwaps /\ conns \in 0..MaxConnections
  BY Bounds DEF Init
<1>4. StateInv
  BY <1>2, <1>3 DEF Init, StateInv
<1>5. PhaseInv
  <2>1. 1 \in 1..(Pieces + 1) /\ 1 \in 1..(Local + Remote + 1)
    BY Bounds
  <2>2. QED
    BY <2>1, OrderFacts DEF Init, PhaseInv, HStates, Captured
<1>6. FlightInv /\ ContentInv
  BY DEF Init, FlightInv, ContentInv, Captured
<1>7. KeptInv
  <2>1. NoPiecesIn(sent)
    BY <1>1 DEF NoPiecesIn
  <2>2. Held = Originals
    <3>1. /\ \A i \in LocalSlots : gBoxes[i] = Original(i)
          /\ \A j \in 1..Remote : file[j] = Original(Local + j)
      BY DEF Init
    <3>2. Held \subseteq Originals
      BY <3>1, Bounds DEF Held, Originals
    <3>3. ASSUME NEW i \in Slots PROVE Original(i) \in Held
      <4>1. CASE i \in LocalSlots
        <5>1. gBoxes[i] = Original(i)
          BY <3>1, <4>1
        <5>2. QED
          BY <4>1, <5>1 DEF Held
      <4>2. CASE i \notin LocalSlots
        <5>1. PICK j \in 1..Remote : i = Local + j
          BY <4>2, Bounds
        <5>2. file[j] = Original(i)
          BY <3>1, <5>1
        <5>3. QED
          BY <5>2 DEF Held
      <4>3. QED
        BY <4>1, <4>2
    <3>4. QED
      BY <3>2, <3>3 DEF Originals
  <2>3. QED
    BY <2>1, <2>2 DEF Init, KeptInv, Captured
<1>8. QED
  BY <1>1, <1>4, <1>5, <1>6, <1>7 DEF HomeBoxInv

\* The inductive invariant: what is on its way at every moment of a session, and
\* what game, file and session hold.
THEOREM HomeBoxInvHolds == Spec => []HomeBoxInv
BY InitHolds, NextKeeps, PTL DEF Spec

\* HomeBox.TypeOK: every variable of the Extended Storage model keeps its type,
\* and Submit never lets more be outstanding than MaximumOutstandingMemoryRequests.
THEOREM TypeHolds == Spec => []TypeOK
<1>1. HomeBoxInv => TypeOK
  <2> SUFFICES ASSUME HomeBoxInv PROVE TypeOK
    OBVIOUS
  <2>1. stored \in Seq(Boxes) /\ Len(stored) \in {0, Remote}
    <3>1. CASE stored = << >>
      BY <3>1
    <3>2. CASE stored \in [1..Remote -> Boxes]
      BY <3>2, Bounds
    <3>3. QED
      BY <3>1, <3>2 DEF HomeBoxInv, PhaseInv
  <2>2. active \in Seq(Boxes \cup {Blank}) /\ Len(active) <= Local + Remote
    <3>1. CASE hState = "OpenOfflineFile"
      <4>1. active = << >>
        BY <3>1 DEF HomeBoxInv, PhaseInv
      <4>2. QED
        BY <4>1, Bounds
    <3>2. CASE hState = "InitialiseBoxData"
      <4>1. active \in Seq(Boxes) /\ Len(active) <= Local
        BY <3>2 DEF HomeBoxInv, PhaseInv
      <4>2. QED
        BY <4>1, Bounds
    <3>3. CASE hState = "WaitingForBoxData"
      <4>1. active \in Seq(Boxes \cup {Blank}) /\ Len(active) \in LocalSlots
        BY <3>3 DEF HomeBoxInv, PhaseInv
      <4>2. QED
        BY <4>1, Bounds DEF LocalSlots
    <3>4. CASE hState \in Captured \cup {"Update"}
      <4>1. active \in [1..(Local + Remote) -> Boxes] /\ Local + Remote \in Nat
        BY <3>4, Bounds DEF HomeBoxInv, PhaseInv, Slots
      <4>2. active \in Seq(Boxes) /\ Len(active) = Local + Remote
        BY <4>1
      <4>3. QED
        BY <4>1, <4>2
    <3>5. QED
      BY <3>1, <3>2, <3>3, <3>4 DEF HomeBoxInv, PhaseInv, HStates, Captured
  <2>3. QED
    BY <2>1, <2>2, OrderFacts DEF HomeBoxInv, WireInv, StateInv, PhaseInv, TypeOK
<1>2. QED
  BY <1>1, HomeBoxInvHolds, PTL

\* HomeBox.CapturedRight: InitialiseBoxData and WaitingForBoxData end up with the
\* boxes that the game has, whatever an earlier screen had on its way, as long
\* as that was no box read.
THEOREM CapturesRight == Spec => []CapturedRight
<1>1. HomeBoxInv => CapturedRight
  BY DEF HomeBoxInv, ContentInv, CapturedRight, Captured
<1>2. QED
  BY <1>1, HomeBoxInvHolds, PTL

\* HomeBox.NothingLost: PumpWriteMonBox and HandlePendingFileWrite keep every box
\* exactly once between the game and boxes.dat, through reopened screens,
\* disconnects, crashes and failed saves that cut no transfer off.
THEOREM NothingIsLost == Spec => []NothingLost
<1>1. HomeBoxInv => NothingLost
  BY DEF HomeBoxInv, KeptInv, NothingLost, Originals
<1>2. QED
  BY <1>1, HomeBoxInvHolds, PTL

\* HomeBox.SavedAfterGame: boxes.dat is written, by OnUpdate or OnDetach, only
\* when the game has all the boxes that the saved order gives to it.
THEOREM SavesAfterGame == Spec => SavedAfterGame
<1> DEFINE Safe == file' # file /\ ~crossed => \A i \in LocalSlots : gBoxes[i] = active[idx[i]]
<1>1. ASSUME HomeBoxInv, [Next]_vars PROVE [Safe]_vars
  <2>1. CASE Detach
    <3>1. Longer(sent') /\ OnDetach /\ UNCHANGED <<results, gBoxes, crossed>>
      BY <1>1, <2>1, ObservingLonger DEF Detach, Observe, HomeBoxInv, gameVars
    <3>2. NoPiecesIn(sent) => NoPiecesIn(sent)'
      BY <1>1, <3>1, LongerKeeps DEF HomeBoxInv
    <3>3. QED
      BY <1>1, <3>1, <3>2, OnDetachKeeps
  <2>2. CASE Disconnect
    <3>1. UNCHANGED <<gBoxes, crossed>> /\ (NoPiecesIn(sent) => NoPiecesIn(sent)') /\ (attached => OnDetach) /\ (~attached => file' = file)
      BY <2>2 DEF Disconnect, gameVars, NoPiecesIn
    <3>2. QED
      BY <1>1, <3>1, OnDetachKeeps DEF HomeBoxInv, PhaseInv
  <2>3. CASE TickWithBox
    BY <1>1, <2>3, WithBoxKeeps
  <2>4. CASE file' = file
    BY <2>4
  <2>5. QED
    BY <1>1, <2>1, <2>2, <2>3, <2>4
       DEF Next, Tick, OpenScreen, CloseScreen, Swap, Execute, Deliver, Attach, TickWithoutBox, LoseConnection, Crash, Reconnect, vars
<1>2. QED
  BY <1>1, HomeBoxInvHolds, PTL DEF Spec, SavedAfterGame

\* OnUpdate writes the order of a screen only while the ROM's order is fresh,
\* until the screen is opened a second time: with any number of connections,
\* crashes, swaps and boxes, nothing but the player's swaps makes an order that
\* the player has changed the initial one again.
THEOREM FirstOrderIsKept ==
  Spec => [][opens' <= 1 /\ order' = Identity /\ order \notin {Fresh, Identity} => swaps' = swaps + 1]_vars
<1> DEFINE Kept == opens' <= 1 /\ order' = Identity /\ order \notin {Fresh, Identity} => swaps' = swaps + 1
<1>1. Init => OrderInv
  BY OrderInvInit
<1>2. HomeBoxInv /\ OrderInv /\ [Next]_vars => OrderInv' /\ [Kept]_vars
  BY OrderInvStep
<1>3. QED
  BY <1>1, <1>2, HomeBoxInvHolds, PTL DEF Spec

\* HomeBox.OrderKept, where the screen is opened once.
THEOREM OrderIsKept == ASSUME MaxOpens <= 1 PROVE Spec => OrderKept
<1> DEFINE Kept == opens' <= 1 /\ order' = Identity /\ order \notin {Fresh, Identity} => swaps' = swaps + 1
           Once == order' = Identity /\ order \notin {Fresh, Identity} => swaps' = swaps + 1
<1>1. HomeBoxInv' /\ [Kept]_vars => [Once]_vars
  BY Bounds DEF HomeBoxInv, StateInv
<1>2. QED
  BY <1>1, HomeBoxInvHolds, FirstOrderIsKept, PTL DEF OrderKept
=============================================================================
