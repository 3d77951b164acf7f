------------------------ MODULE GameConnectionProofs ------------------------
(***************************************************************************)
(* What the checks of module GameMemory guarantee to the code that relies  *)
(* on them, for every header a ROM may have and every size of the address  *)
(* space, the payload and the tables; and the safety properties of module  *)
(* GameConnection, for every set of ROMs, every memory map and every limit *)
(* of outstanding requests.                                                *)
(*                                                                         *)
(* The operators of GameConnection take a connection to a connection, so   *)
(* the parts of the invariant are predicates on a connection and there is  *)
(* a lemma for every operator.  What a behaviour's life depends on changes *)
(* in few places: all requests leave it alone or end the connection (Ends).*)
(***************************************************************************)
EXTENDS GameConnection, TLAPS

(* The checks of addresses and layouts. *)

\* The fields of a header are unsigned.
IsHeader(h) ==
  /\ h.netMultiplayerSize \in Nat /\ h.netPlayerCount \in Nat
  /\ h.netRequestStateOffset \in Nat /\ h.netCurrentStateOffset \in Nat
  /\ h.netHandshakeOffset \in Nat /\ h.netHandshakeSize \in Nat
  /\ h.netHandshakeStateOffset \in Nat /\ h.netHandshakePlayerIdOffset \in Nat
  /\ h.netGameStateOffset \in Nat /\ h.netGameStateSize \in Nat
  /\ h.netPlayerProfileOffset \in Nat /\ h.netPlayerProfileSize \in Nat
  /\ h.netPlayerStateOffset \in Nat /\ h.netPlayerStateSize \in Nat
  /\ h.homeBoxSize \in Nat /\ h.homeTotalBoxCount \in Nat /\ h.homeLocalBoxCount \in Nat
  /\ h.homeMinimalBoxOffset \in Nat /\ h.homeMinimalBoxSize \in Nat
  /\ h.homeDestMonOffset \in Nat /\ h.homeDestMonSize \in Nat
  /\ h.homeRemoteIndexOrderOffset \in Nat /\ h.homeTrainerIdOffset \in Nat

\* SpanFits is written so that nothing is added: it means what the sum would say.
LEMMA SpanIsInside ==
  ASSUME NEW offset \in Nat, NEW size \in Nat, NEW limit \in Nat, SpanFits(offset, size, limit)
  PROVE  offset + size <= limit
BY DEF SpanFits

\* An entry of a table with `count` entries ends before the table does.
LEMMA EntryInTable ==
  ASSUME NEW size \in Nat, NEW count \in Nat, NEW i \in Nat, i < count
  PROVE  size * i + size <= size * count /\ size * i \in Nat /\ size * count \in Nat
<1>1. PICK d \in Nat : count = i + 1 + d
  <2>1. count - i - 1 \in Nat /\ count = i + 1 + (count - i - 1)
    OBVIOUS
  <2> QED
    BY <2>1
<1>2. size * (i + 1 + d) = size * i + size + size * d
  OBVIOUS
<1>3. size * d \in Nat /\ size * i \in Nat /\ size * count \in Nat
  OBVIOUS
<1> QED
  BY <1>1, <1>2, <1>3

\* GameMemoryTransport.cpp: a request that IsRangeAllowed lets pass touches no
\* byte outside the ranges, also if it ends at the end of the address space.
THEOREM AcceptedBytesAllowed ==
  ASSUME NEW address \in Nat, NEW size \in Nat, NEW ranges,
         \A r \in ranges : r[1] \in Nat /\ r[2] \in Nat,
         IsRangeAllowed(address, size, ranges),
         NEW k \in Nat, k < size
  PROVE  (address + k) % AddressLimit \in Bytes(ranges)
<1>1. address + k \in Nat /\ address + k < AddressLimit /\ AddressLimit \in Nat \ {0}
  BY GameMemoryAssumption DEF IsRangeAllowed
<1>2. (address + k) % AddressLimit = address + k
  BY <1>1
<1>3. PICK r \in ranges : address >= r[1] /\ address + size <= r[2]
  BY DEF IsRangeAllowed
<1>4. address + k \in r[1]..(r[2] - 1)
  <2>1. r[1] \in Nat /\ r[2] \in Nat
    OBVIOUS
  <2> QED
    BY <1>3, <2>1
<1> QED
  BY <1>2, <1>3, <1>4, Zenon DEF Bytes

\* MultiplayerBehaviour.cpp: with a layout that was validated, every field that
\* OnUpdate, the handshakes and the gameplay packets read or write is inside the
\* observed state, for every player ID that IsValidClientPlayerId accepts and
\* for every one that the loop over the players reaches.
THEOREM MultiplayerFieldsInside ==
  ASSUME NEW h, IsHeader(h), ValidateMultiplayerLayout(h)
  PROVE  /\ h.netRequestStateOffset < h.netMultiplayerSize
         /\ h.netCurrentStateOffset < h.netMultiplayerSize
         /\ h.netHandshakeOffset + h.netHandshakeStateOffset < h.netMultiplayerSize
         /\ h.netHandshakeOffset + h.netHandshakePlayerIdOffset < h.netMultiplayerSize
         /\ h.netGameStateOffset + h.netGameStateSize <= h.netMultiplayerSize
         /\ h.netPlayerProfileOffset + h.netPlayerProfileSize * h.netPlayerCount <= h.netMultiplayerSize
         /\ \A id \in Nat : id < h.netPlayerCount =>
              PlayerStateAt(h, id) + h.netPlayerStateSize <= h.netMultiplayerSize
<1>1. h.netRequestStateOffset + 1 <= h.netMultiplayerSize
  BY SpanIsInside DEF ValidateMultiplayerLayout, IsHeader
<1>2. h.netCurrentStateOffset + 1 <= h.netMultiplayerSize
  BY SpanIsInside DEF ValidateMultiplayerLayout, IsHeader
<1>3. h.netHandshakeOffset + h.netHandshakeSize <= h.netMultiplayerSize
  BY SpanIsInside DEF ValidateMultiplayerLayout, IsHeader
<1>4. h.netGameStateOffset + h.netGameStateSize <= h.netMultiplayerSize
  BY SpanIsInside DEF ValidateMultiplayerLayout, IsHeader
<1>5. h.netPlayerProfileOffset + h.netPlayerProfileSize * h.netPlayerCount <= h.netMultiplayerSize
  <2>1. h.netPlayerProfileSize * h.netPlayerCount \in Nat
    BY DEF IsHeader
  <2> QED
    BY <2>1, SpanIsInside DEF ValidateMultiplayerLayout, IsHeader
<1>6. ASSUME NEW id \in Nat, id < h.netPlayerCount
      PROVE  PlayerStateAt(h, id) + h.netPlayerStateSize <= h.netMultiplayerSize
  <2>1. /\ h.netPlayerStateSize * id + h.netPlayerStateSize <= h.netPlayerStateSize * h.netPlayerCount
        /\ h.netPlayerStateSize * id \in Nat
        /\ h.netPlayerStateSize * h.netPlayerCount \in Nat
    BY <1>6, EntryInTable DEF IsHeader
  <2>2. h.netPlayerStateOffset + h.netPlayerStateSize * h.netPlayerCount <= h.netMultiplayerSize
    BY <2>1, SpanIsInside DEF ValidateMultiplayerLayout, IsHeader
  <2> QED
    BY <2>1, <2>2 DEF PlayerStateAt, IsHeader
<1> QED
  BY <1>1, <1>2, <1>3, <1>4, <1>5, <1>6 DEF ValidateMultiplayerLayout, IsHeader

\* HomeBoxBehaviour.cpp: with a layout that was validated, the metadata of every
\* box, the order array, the trainer ID and the pointer to the boxes are inside
\* the observed state, and the number of a box is never the mark that an order
\* was not yet written, if the mark (255 in the ROM) is the largest box count.
THEOREM HomeBoxFieldsInside ==
  ASSUME NEW h, IsHeader(h), ValidateHomeBoxLayout(h)
  PROVE  /\ LastOrderAt(h) \in Nat /\ LastOrderAt(h) < h.homeBoxSize
         /\ h.homeDestMonOffset + WordSize <= h.homeBoxSize
         /\ h.homeTrainerIdOffset + WordSize <= h.homeBoxSize
         /\ \A box \in Nat : box < h.homeTotalBoxCount =>
              MinimalBoxAt(h, box) + h.homeMinimalBoxSize <= h.homeBoxSize /\ box # MaxBoxes
<1>1. h.homeRemoteIndexOrderOffset + h.homeTotalBoxCount <= h.homeBoxSize
  BY SpanIsInside DEF ValidateHomeBoxLayout, IsHeader
<1>2. h.homeDestMonOffset + WordSize <= h.homeBoxSize /\ h.homeTrainerIdOffset + WordSize <= h.homeBoxSize
  BY SpanIsInside, GameMemoryAssumption DEF ValidateHomeBoxLayout, IsHeader
<1>3. LastOrderAt(h) \in Nat /\ LastOrderAt(h) < h.homeBoxSize
  BY <1>1 DEF LastOrderAt, ValidateHomeBoxLayout, IsHeader
<1>4. ASSUME NEW box \in Nat, box < h.homeTotalBoxCount
      PROVE  MinimalBoxAt(h, box) + h.homeMinimalBoxSize <= h.homeBoxSize /\ box # MaxBoxes
  <2>1. /\ h.homeMinimalBoxSize * box + h.homeMinimalBoxSize <= h.homeMinimalBoxSize * h.homeTotalBoxCount
        /\ h.homeMinimalBoxSize * box \in Nat
        /\ h.homeMinimalBoxSize * h.homeTotalBoxCount \in Nat
    BY <1>4, EntryInTable DEF IsHeader
  <2>2. h.homeMinimalBoxOffset + h.homeMinimalBoxSize * h.homeTotalBoxCount <= h.homeBoxSize
    BY <2>1, SpanIsInside DEF ValidateHomeBoxLayout, IsHeader
  <2>3. MinimalBoxAt(h, box) + h.homeMinimalBoxSize <= h.homeBoxSize
    BY <2>1, <2>2 DEF MinimalBoxAt, IsHeader
  <2>4. box # MaxBoxes
    BY <1>4, GameMemoryAssumption DEF ValidateHomeBoxLayout, IsHeader
  <2> QED
    BY <2>3, <2>4
<1> QED
  BY <1>2, <1>3, <1>4

-----------------------------------------------------------------------------
(* The invariant of a connection. *)

Requests == [kind : RequestKinds, address : Addresses, size : 0..PayloadLimit]

Games ==
  [state : {"Awaiting", "Connected", "Disconnected"}, sent : Seq(Requests), gf : BOOLEAN, rh : BOOLEAN,
   mpPtr : {Unread, Null, rom.mpState}, hbPtr : {Unread, Null, rom.hbState},
   mpBlob : Flags \cup {NoBlob}, hbBlob : BOOLEAN,
   behaviours : Seq(Instances), toRemove : Seq(Instances), mpWeak : {0, 1, 2}, hbWeak : {0, 1, 2},
   role : Flags, address : BOOLEAN, attempted : BOOLEAN, fate : [Instances -> Fates], unready : BOOLEAN]

\* What may be asked for of this ROM, and where.
Permitted(kind) ==
  /\ kind # "gf" => rom.handshake
  /\ kind \notin Reads => rom.api /\ rom.edition
Confirms(kind, address, size) ==
  kind = "confirm" => address = rom.assistantState + rom.assistantConfirmOffset /\ size <= WordSize

\* Requests: nothing is under way on a connection that is over, and what is
\* under way is permitted.  A header is valid only if it is the app's.
RequestInv(g) ==
  /\ g \in Games /\ Len(g.sent) <= MaxOutstanding
  /\ \A i \in 1..Len(g.sent) :
       /\ Permitted(g.sent[i].kind) /\ Confirms(g.sent[i].kind, g.sent[i].address, g.sent[i].size)
       /\ ValidRequest(g.sent[i])
  /\ g.state = "Disconnected" => g.sent = << >>
  /\ g.state # "Disconnected" /\ g.gf => rom.handshake
  /\ AddressesUsable => ~g.unready

Distinct(s) == \A i, j \in DOMAIN s : i # j => s[i][1] # s[j][1]

\* Behaviours: the attached ones are of different kinds and have not been told
\* that they are detached; one that has run is attached or has been told, and
\* none is left to be told when the connection is over.
LifeInv(g) ==
  /\ Distinct(g.behaviours)
  /\ \A b \in Instances : g.fate[b] \notin {"twice", "late"}
  /\ \A b \in Attached(g) : g.fate[b] \in {"attached", "ran"}
  /\ \A b \in Instances : g.fate[b] = "ran" => b \in Attached(g) /\ g.state # "Disconnected"
  /\ \A b \in Attached(g) : b[1] \in {"mp", "hb"} => rom.handshake /\ rom.api /\ rom.edition

\* CommonBehaviour knows the attached behaviours, but for those it removes.
Knows(g, kind, weak) == \A b \in Attached(g) : b[1] = kind => b = <<kind, weak>>
Follows(g, kind, weak) == \A b \in Attached(g) : b[1] = kind => b = <<kind, weak>> \/ b \in ToSet(g.toRemove)
WeakInv(g) == Follows(g, "mp", g.mpWeak) /\ Follows(g, "hb", g.hbWeak)
KnowsBoth(g) == Knows(g, "mp", g.mpWeak) /\ Knows(g, "hb", g.hbWeak)

\* The copied list during an update.
UpdateInv ==
  /\ todo \in Seq(Instances) /\ Distinct(todo) /\ updating \in BOOLEAN
  /\ updating /\ game.state # "Disconnected" => ToSet(todo) \subseteq Attached(game)
  /\ updating => game.state # "Awaiting"
  /\ ~updating => todo = << >> /\ game.toRemove = << >>
  /\ game.state = "Awaiting" => game.behaviours = << >>
  /\ ~updating \/ (\E b \in ToSet(todo) : b[1] = "common") => KnowsBoth(game)

RomInv == rom \in Roms /\ offered \in Offers

GameInv == RomInv /\ RequestInv(game) /\ LifeInv(game) /\ WeakInv(game) /\ UpdateInv

-----------------------------------------------------------------------------
(* Lists of behaviours. *)

LEMMA SeqSet ==
  ASSUME NEW S, NEW s \in Seq(S)
  PROVE  /\ ToSet(s) \subseteq S /\ ToSet(s) = {s[i] : i \in 1..Len(s)} /\ DOMAIN s = 1..Len(s) /\ Len(s) \in Nat
         /\ \A e : e \in ToSet(s) <=> \E i \in 1..Len(s) : s[i] = e
BY DEF ToSet

LEMMA EmptyList == /\ ToSet(<< >>) = {} /\ Distinct(<< >>) /\ \A S : << >> \in Seq(S)
BY DEF ToSet, Distinct

LEMMA AppendList ==
  ASSUME NEW S, NEW s \in Seq(S), NEW e \in S
  PROVE  /\ Append(s, e) \in Seq(S) /\ ToSet(Append(s, e)) = ToSet(s) \cup {e} /\ Last(Append(s, e)) = e
         /\ Distinct(s) /\ (\A b \in ToSet(s) : b[1] # e[1]) => Distinct(Append(s, e))
<1> DEFINE t == Append(s, e)
<1>1. /\ t \in Seq(S) /\ Len(t) = Len(s) + 1 /\ Len(s) \in Nat /\ DOMAIN s = 1..Len(s) /\ DOMAIN t = 1..Len(t)
      /\ (\A i \in 1..Len(s) : t[i] = s[i]) /\ t[Len(s) + 1] = e
  OBVIOUS
<1> HIDE DEF t
<1>2. \A i \in 1..Len(t) : i \in 1..Len(s) \/ i = Len(s) + 1
  BY <1>1
<1>3. ToSet(t) = ToSet(s) \cup {e}
  <2>1. ToSet(t) \subseteq ToSet(s) \cup {e}
    BY <1>1, <1>2 DEF ToSet
  <2>2. \A i \in 1..Len(s) : i \in 1..Len(t)
    BY <1>1
  <2>3. Len(s) + 1 \in 1..Len(t)
    BY <1>1
  <2>4. \A i \in DOMAIN s : s[i] \in ToSet(t)
    BY <1>1, <2>2 DEF ToSet
  <2>5. e \in ToSet(t)
    BY <1>1, <2>3 DEF ToSet
  <2>6. QED
    BY <2>1, <2>4, <2>5 DEF ToSet
<1>4. Last(t) = e
  BY <1>1 DEF Last
<1>5. Distinct(s) /\ (\A b \in ToSet(s) : b[1] # e[1]) => Distinct(t)
  <2> SUFFICES ASSUME Distinct(s), \A b \in ToSet(s) : b[1] # e[1], NEW i \in 1..Len(t), NEW j \in 1..Len(t), i # j
               PROVE  t[i][1] # t[j][1]
    BY <1>1 DEF Distinct
  <2>1. \A k \in 1..Len(s) : s[k] \in ToSet(s)
    BY <1>1 DEF ToSet
  <2>2. \A k \in 1..Len(s) : s[k][1] # e[1]
    BY <2>1
  <2>3. \A k, l \in 1..Len(s) : k # l => s[k][1] # s[l][1]
    BY <1>1 DEF Distinct
  <2>4. QED
    BY <1>1, <1>2, <2>2, <2>3
<1>6. QED
  BY <1>1, <1>3, <1>4, <1>5 DEF t

LEMMA TailList ==
  ASSUME NEW S, NEW s \in Seq(S), s # << >>
  PROVE  /\ Tail(s) \in Seq(S) /\ Head(s) \in S /\ Head(s) \in ToSet(s) /\ ToSet(Tail(s)) \subseteq ToSet(s)
         /\ \A b \in ToSet(s) : b = Head(s) \/ b \in ToSet(Tail(s))
         /\ Distinct(s) => Distinct(Tail(s)) /\ \A b \in ToSet(Tail(s)) : b[1] # Head(s)[1]
<1> DEFINE t == Tail(s)
<1>1. /\ t \in Seq(S) /\ Len(t) = Len(s) - 1 /\ Len(s) \in Nat \ {0} /\ DOMAIN s = 1..Len(s) /\ DOMAIN t = 1..Len(t)
      /\ (\A i \in 1..Len(t) : i + 1 \in 1..Len(s) /\ t[i] = s[i + 1]) /\ Head(s) = s[1] /\ 1 \in 1..Len(s)
  OBVIOUS
<1> HIDE DEF t
<1>2. \A b : b \in ToSet(t) <=> \E i \in 1..Len(t) : b = t[i]
  BY <1>1 DEF ToSet
<1>3. \A b : b \in ToSet(s) <=> \E i \in 1..Len(s) : b = s[i]
  BY <1>1 DEF ToSet
<1>4. Head(s) \in ToSet(s) /\ Head(s) \in S
  BY <1>1, <1>3
<1>5. ToSet(t) \subseteq ToSet(s)
  BY <1>1, <1>2, <1>3
<1>6. ASSUME NEW b \in ToSet(s) PROVE b = Head(s) \/ b \in ToSet(t)
  <2>1. PICK i \in 1..Len(s) : b = s[i]
    BY <1>3
  <2>2. CASE i = 1
    BY <1>1, <2>1, <2>2
  <2>3. CASE i # 1
    <3>1. i - 1 \in 1..Len(t) /\ t[i - 1] = s[(i - 1) + 1] /\ (i - 1) + 1 = i
      BY <1>1, <2>3
    <3>2. QED
      BY <1>2, <2>1, <3>1
  <2>4. QED
    BY <2>2, <2>3
<1>7. ASSUME Distinct(s) PROVE Distinct(t) /\ \A b \in ToSet(t) : b[1] # Head(s)[1]
  <2>1. \A i, j \in 1..Len(s) : i # j => s[i][1] # s[j][1]
    BY <1>1, <1>7 DEF Distinct
  <2>2. ASSUME NEW i \in 1..Len(t), NEW j \in 1..Len(t), i # j PROVE t[i][1] # t[j][1]
    <3>1. i + 1 \in 1..Len(s) /\ j + 1 \in 1..Len(s) /\ i + 1 # j + 1 /\ t[i] = s[i + 1] /\ t[j] = s[j + 1]
      BY <1>1, <2>2
    <3>2. QED
      BY <2>1, <3>1
  <2>3. ASSUME NEW i \in 1..Len(t) PROVE t[i][1] # Head(s)[1]
    <3>1. i + 1 \in 1..Len(s) /\ i + 1 # 1 /\ t[i] = s[i + 1]
      BY <1>1, <2>3
    <3>2. QED
      BY <1>1, <2>1, <3>1
  <2>4. QED
    BY <1>1, <1>2, <2>2, <2>3, SMTT(30) DEF Distinct
<1>8. QED
  BY <1>1, <1>4, <1>5, <1>6, <1>7 DEF t

LEMMA JoinedLength == ASSUME NEW S, NEW s \in Seq(S), NEW t \in Seq(S) PROVE Len(s \o t) = Len(s) + Len(t)
OBVIOUS

\* A list without its k-th element.
LEMMA Shortened ==
  ASSUME NEW S, NEW s \in Seq(S), NEW k \in 1..Len(s)
  PROVE  /\ RemoveAt(s, k) \in Seq(S) /\ Len(RemoveAt(s, k)) = Len(s) - 1 /\ Len(s) \in Nat
         /\ \A i \in 1..(Len(s) - 1) : RemoveAt(s, k)[i] = IF i < k THEN s[i] ELSE s[i + 1]
<1> DEFINE a == SubSeq(s, 1, k - 1)
           z == SubSeq(s, k + 1, Len(s))
<1>1. a \in Seq(S) /\ Len(a) = k - 1 /\ \A i \in 1..(k - 1) : a[i] = s[i]
  OBVIOUS
<1>2. z \in Seq(S) /\ Len(z) = Len(s) - k /\ \A i \in 1..(Len(s) - k) : z[i] = s[k + i]
  OBVIOUS
<1> HIDE DEF a, z
<1>3. RemoveAt(s, k) = a \o z
  BY DEF RemoveAt, a, z
<1>4. a \o z \in Seq(S)
  BY <1>1, <1>2
<1>5. Len(a \o z) = Len(s) - 1 /\ Len(s) \in Nat
  <2>1. Len(a \o z) = Len(a) + Len(z)
    BY <1>1, <1>2, JoinedLength
  <2>2. QED
    BY <1>1, <1>2, <2>1
<1>6. ASSUME NEW i \in 1..(Len(s) - 1) PROVE (a \o z)[i] = IF i < k THEN s[i] ELSE s[i + 1]
  <2>1. CASE i < k
    BY <1>1, <1>2, <2>1
  <2>2. CASE ~(i < k)
    <3>1. i - (k - 1) \in 1..(Len(s) - k) /\ k + (i - (k - 1)) = i + 1
      BY <1>5, <2>2
    <3>2. (a \o z)[i] = z[i - (k - 1)]
      BY <1>1, <1>2, <1>5, <2>2, SMTT(30)
    <3>3. QED
      BY <1>2, <2>2, <3>1, <3>2
  <2>3. QED
    BY <2>1, <2>2
<1>7. QED
  BY <1>3, <1>4, <1>5, <1>6

LEMMA RemoveList ==
  ASSUME NEW S, NEW s \in Seq(S), Distinct(s), NEW e \in ToSet(s)
  PROVE  /\ RemoveFirst(s, e) \in Seq(S) /\ ToSet(RemoveFirst(s, e)) = ToSet(s) \ {e}
         /\ Distinct(RemoveFirst(s, e))
<1>1. PICK k \in 1..Len(s) : s[k] = e
  BY SeqSet
<1>2. \A i, j \in 1..Len(s) : i # j => s[i][1] # s[j][1]
  BY SeqSet DEF Distinct
<1>3. {i \in 1..Len(s) : s[i] = e} = {k}
  BY <1>1, <1>2
<1>4. RemoveFirst(s, e) = RemoveAt(s, k)
  <2>1. k <= k
    OBVIOUS
  <2>2. Min({k}) = k
    BY <2>1 DEF Min
  <2>3. SelectInSeq(s, LAMBDA v : v = e) = k
    BY <1>3, <2>2 DEF SelectInSeq
  <2>4. QED
    BY <1>1, <2>3 DEF RemoveFirst
<1>5. PICK t : t = RemoveAt(s, k)
  OBVIOUS
<1>6. /\ t \in Seq(S) /\ Len(t) = Len(s) - 1 /\ Len(s) \in Nat
      /\ \A i \in 1..(Len(s) - 1) : t[i] = IF i < k THEN s[i] ELSE s[i + 1]
  BY <1>5, Shortened
<1>7. \A i \in 1..Len(t) : \E j \in 1..Len(s) : j # k /\ t[i] = s[j] /\ (j = i \/ j = i + 1) /\ (i < k <=> j = i)
  <2> SUFFICES ASSUME NEW i \in 1..Len(t)
               PROVE  \E j \in 1..Len(s) : j # k /\ t[i] = s[j] /\ (j = i \/ j = i + 1) /\ (i < k <=> j = i)
    OBVIOUS
  <2>1. i \in 1..Len(s) /\ i + 1 \in 1..Len(s) /\ t[i] = IF i < k THEN s[i] ELSE s[i + 1]
    BY <1>6
  <2>2. CASE i < k
    BY <2>1, <2>2
  <2>3. CASE ~(i < k)
    <3>1. i + 1 # k /\ i + 1 # i
      BY <2>3
    <3>2. QED
      BY <2>1, <2>3, <3>1
  <2>4. QED
    BY <2>2, <2>3
<1>8. \A j \in 1..Len(s) : j # k => \E i \in 1..Len(t) : t[i] = s[j]
  <2> SUFFICES ASSUME NEW j \in 1..Len(s), j # k PROVE \E i \in 1..Len(t) : t[i] = s[j]
    OBVIOUS
  <2>1. CASE j < k
    BY <1>6, <2>1
  <2>2. CASE ~(j < k)
    <3>1. j - 1 \in 1..Len(t) /\ ~(j - 1 < k) /\ (j - 1) + 1 = j
      BY <1>6, <2>2
    <3>2. t[j - 1] = s[j]
      BY <1>6, <3>1
    <3>3. QED
      BY <3>1, <3>2
  <2>3. QED
    BY <2>1, <2>2
<1>9. ToSet(t) = ToSet(s) \ {e}
  <2>1. \A b : b \in ToSet(t) <=> \E i \in 1..Len(t) : t[i] = b
    BY <1>6, SeqSet
  <2>2. \A b : b \in ToSet(s) <=> \E i \in 1..Len(s) : s[i] = b
    BY SeqSet
  <2>3. \A j \in 1..Len(s) : j # k => s[j] # e
    BY <1>1, <1>2
  <2>4. \A b : b \in ToSet(t) => b \in ToSet(s) \ {e}
    BY <1>7, <2>1, <2>2, <2>3
  <2>5. \A b : b \in ToSet(s) \ {e} => b \in ToSet(t)
    BY <1>1, <1>8, <2>1, <2>2
  <2>6. QED
    BY <2>4, <2>5
<1>10. Distinct(t)
  <2> SUFFICES ASSUME NEW i \in 1..Len(t), NEW j \in 1..Len(t), i # j PROVE t[i][1] # t[j][1]
    BY <1>6, SeqSet, SMTT(30) DEF Distinct
  <2>1. PICK p \in 1..Len(s) : t[i] = s[p] /\ (p = i \/ p = i + 1) /\ (i < k <=> p = i)
    BY <1>7
  <2>2. PICK q \in 1..Len(s) : t[j] = s[q] /\ (q = j \/ q = j + 1) /\ (j < k <=> q = j)
    BY <1>7
  <2>3. p # q
    BY <1>6, <2>1, <2>2
  <2>4. QED
    BY <1>2, <2>1, <2>2, <2>3
<1>11. QED
  BY <1>4, <1>5, <1>6, <1>9, <1>10

-----------------------------------------------------------------------------
(* Disconnecting and asking. *)

LEMMA RomFacts ==
  ASSUME RomInv
  PROVE  /\ rom \in Roms /\ offered \in Offers
         /\ rom.roles \subseteq Flags /\ rom.handshake \in BOOLEAN /\ rom.api \in BOOLEAN /\ rom.edition \in BOOLEAN
         /\ rom.rogueAssistantHeader \in Addresses /\ rom.assistantState \in Addresses
         /\ rom.multiplayerPtr \in Addresses /\ rom.homeBoxPtr \in Addresses
         /\ rom.mpState \in Addresses /\ rom.hbState \in Addresses
         /\ rom.assistantConfirmOffset \in Nat /\ rom.assistantConfirmSize \in Nat
         /\ rom.netMultiplayerSize \in Nat /\ rom.homeBoxSize \in Nat
         /\ AddressLimit \in Nat \ {0} /\ PayloadLimit \in Nat \ {0} /\ WordSize \in Nat \ {0} /\ MaxOutstanding \in Nat
         /\ HeaderAddress \in Addresses /\ HeaderSize \in Nat
         /\ Writable \subseteq Readable /\ \A r \in Readable : r[1] \in Nat /\ r[2] \in Nat
BY GameConnectionAssumption, GameMemoryAssumption DEF RomInv, IsRom

LEMMA AttachedType ==
  ASSUME NEW g \in Games
  PROVE  /\ g.behaviours \in Seq(Instances) /\ g.toRemove \in Seq(Instances) /\ g.sent \in Seq(Requests)
         /\ g.fate \in [Instances -> Fates] /\ g.state \in {"Awaiting", "Connected", "Disconnected"}
         /\ Attached(g) \subseteq Instances
         /\ g.behaviours = << >> => Attached(g) = {}
<1>1. g.behaviours \in Seq(Instances) /\ g.toRemove \in Seq(Instances) /\ g.sent \in Seq(Requests)
      /\ g.fate \in [Instances -> Fates] /\ g.state \in {"Awaiting", "Connected", "Disconnected"}
  BY DEF Games
<1>2. Attached(g) \subseteq Instances
  BY <1>1, SeqSet DEF Attached
<1>3. QED
  BY <1>1, <1>2, EmptyList DEF Attached

\* What nothing but the answers and the behaviours' own work changes.
Rest(g, h) ==
  /\ h.gf = g.gf /\ h.rh = g.rh /\ h.mpPtr = g.mpPtr /\ h.hbPtr = g.hbPtr /\ h.mpBlob = g.mpBlob /\ h.hbBlob = g.hbBlob
  /\ h.role = g.role /\ h.address = g.address /\ h.attempted = g.attempted

LifeSame(g, h) ==
  /\ h.state = g.state /\ h.behaviours = g.behaviours /\ h.toRemove = g.toRemove
  /\ h.mpWeak = g.mpWeak /\ h.hbWeak = g.hbWeak /\ h.fate = g.fate

\* The connection goes on as it was, or is over.
Ends(g, h) == LifeSame(g, h) \/ LifeSame(Disconnect(g), h)

EndedFate(g) ==
  [b \in Instances |-> Told(g.fate[b], IF Twice(g.behaviours, b) THEN 2 ELSE IF b \in Attached(g) THEN 1 ELSE 0)]

LEMMA DisconnectIs ==
  ASSUME NEW g \in Games, NEW h, h = Disconnect(g)
  PROVE  /\ h \in Games /\ h.state = "Disconnected" /\ Rest(g, h) /\ h.unready = g.unready
         /\ h.mpWeak = g.mpWeak /\ h.hbWeak = g.hbWeak
         /\ g.state = "Disconnected" => h = g
         /\ g.state # "Disconnected" =>
              h.behaviours = << >> /\ h.toRemove = << >> /\ h.sent = << >> /\ h.fate = EndedFate(g)
<1>1. CASE g.state = "Disconnected"
  BY <1>1 DEF Disconnect, Rest
<1>2. CASE g.state # "Disconnected"
  <2>1. << >> \in Seq(Instances) /\ << >> \in Seq(Requests)
    BY EmptyList
  <2>2. EndedFate(g) \in [Instances -> Fates]
    BY AttachedType DEF EndedFate, Told, Fates
  <2>3. h = [g EXCEPT !.state = "Disconnected", !.behaviours = << >>, !.toRemove = << >>, !.sent = << >>, !.fate = EndedFate(g)]
    BY <1>2 DEF Disconnect, EndedFate
  <2>4. h \in Games
    BY <2>1, <2>2, <2>3, ZenonT(60) DEF Games
  <2>5. /\ h.state = "Disconnected" /\ h.behaviours = << >> /\ h.toRemove = << >> /\ h.sent = << >>
        /\ h.fate = EndedFate(g)
    BY <2>3 DEF Games
  <2>6. h.unready = g.unready /\ h.mpWeak = g.mpWeak /\ h.hbWeak = g.hbWeak
    BY <2>3 DEF Games
  <2>7. Rest(g, h)
    BY <2>3 DEF Games, Rest
  <2>8. QED
    BY <1>2, <2>4, <2>5, <2>6, <2>7
<1>3. QED
  BY <1>1, <1>2

LEMMA EndsTransitive ==
  ASSUME NEW g \in Games, NEW h \in Games, NEW k \in Games, Ends(g, h), Ends(h, k)
  PROVE  Ends(g, k)
<1>1. ASSUME LifeSame(g, h) PROVE LifeSame(Disconnect(g), Disconnect(h))
  <2>1. PICK dg : dg = Disconnect(g)
    OBVIOUS
  <2>2. PICK dh : dh = Disconnect(h)
    OBVIOUS
  <2>3. EndedFate(g) = EndedFate(h)
    BY <1>1 DEF EndedFate, LifeSame, Attached
  <2>4. LifeSame(dg, dh)
    BY <1>1, <2>1, <2>2, <2>3, DisconnectIs DEF LifeSame
  <2>5. QED
    BY <2>1, <2>2, <2>4
<1>2. ASSUME LifeSame(Disconnect(g), h) PROVE Disconnect(h) = h
  <2>1. PICK dg : dg = Disconnect(g)
    OBVIOUS
  <2>2. dg.state = "Disconnected"
    BY <2>1, DisconnectIs
  <2>3. h.state = "Disconnected"
    BY <1>2, <2>1, <2>2 DEF LifeSame
  <2>4. QED
    BY <2>3 DEF Disconnect
<1>3. QED
  BY <1>1, <1>2 DEF Ends, LifeSame

LEMMA LifeEnds ==
  ASSUME NEW g \in Games, LifeInv(g), NEW h \in Games, Ends(g, h)
  PROVE  /\ LifeInv(h) /\ (WeakInv(g) => WeakInv(h)) /\ (KnowsBoth(g) => KnowsBoth(h))
         /\ h.state # "Disconnected" => LifeSame(g, h)
         /\ g.state = "Disconnected" => h.state = "Disconnected"
         /\ h.state # g.state => h.state = "Disconnected" /\ h.behaviours = << >>
<1>1. CASE LifeSame(g, h)
  BY <1>1 DEF LifeSame, LifeInv, WeakInv, KnowsBoth, Knows, Follows, Attached
<1>2. CASE LifeSame(Disconnect(g), h) /\ g.state = "Disconnected"
  <2>1. Disconnect(g) = g
    BY <1>2 DEF Disconnect
  <2>2. QED
    BY <1>1, <1>2, <2>1
<1>3. CASE LifeSame(Disconnect(g), h) /\ g.state # "Disconnected"
  <2>1. h.behaviours = << >> /\ h.fate = EndedFate(g) /\ h.state = "Disconnected"
    <3>1. PICK dg : dg = Disconnect(g)
      OBVIOUS
    <3>2. dg.behaviours = << >> /\ dg.fate = EndedFate(g) /\ dg.state = "Disconnected"
      BY <1>3, <3>1, DisconnectIs
    <3>3. QED
      BY <1>3, <3>1, <3>2 DEF LifeSame
  <2>2. Attached(h) = {} /\ Distinct(h.behaviours)
    BY <2>1, EmptyList DEF Attached
  <2>3. \A b \in Instances : ~Twice(g.behaviours, b)
    BY DEF LifeInv, Distinct, Twice
  <2>4. \A b \in Instances : h.fate[b] = IF b \in Attached(g) THEN Told(g.fate[b], 1) ELSE g.fate[b]
    BY <2>1, <2>3 DEF EndedFate, Told
  <2>5. \A b \in Instances : h.fate[b] \notin {"twice", "late", "ran"}
    BY <2>4 DEF LifeInv, Told
  <2>6. QED
    BY <2>1, <2>2, <2>5 DEF LifeInv, WeakInv, KnowsBoth, Knows, Follows
<1>4. QED
  BY <1>1, <1>2, <1>3 DEF Ends

LEMMA DisconnectKeeps ==
  ASSUME NEW g, RequestInv(g), NEW h, h = Disconnect(g)
  PROVE  RequestInv(h) /\ Ends(g, h) /\ Rest(g, h) /\ h.state = "Disconnected"
<1>1. g \in Games
  BY DEF RequestInv
<1>2. /\ h \in Games /\ h.state = "Disconnected" /\ Rest(g, h) /\ h.unready = g.unready
      /\ g.state = "Disconnected" => h = g
      /\ g.state # "Disconnected" => h.sent = << >>
  BY <1>1, DisconnectIs
<1>3. Ends(g, h)
  BY DEF Ends, LifeSame
<1>4. RequestInv(h)
  <2>1. Len(<< >>) = 0 /\ MaxOutstanding \in Nat
    BY GameConnectionAssumption
  <2>2. QED
    BY <1>2, <2>1 DEF RequestInv
<1>5. QED
  BY <1>2, <1>3, <1>4

LEMMA RequestKeeps ==
  ASSUME RomInv, NEW g, RequestInv(g), NEW kind \in RequestKinds, NEW address \in Addresses, NEW size \in Nat,
         g.state # "Disconnected" => Permitted(kind) /\ Confirms(kind, address, size),
         AddressesUsable => g.state = "Connected",
         NEW h, h = Request(g, kind, address, size)
  PROVE  /\ RequestInv(h) /\ Ends(g, h) /\ Rest(g, h)
         /\ SizeAllowed(size) /\ IsRangeAllowed(address, size, IF kind \in Reads THEN Readable ELSE Writable) => h.state = g.state
<1> DEFINE r == [kind |-> kind, address |-> address, size |-> size]
<1>1. address % AddressLimit = address
  BY RomFacts DEF Addresses
<1>2. PICK asked : asked = [g EXCEPT !.unready = @ \/ ~IsReady(g)]
  OBVIOUS
<1>3. /\ asked \in Games /\ asked.sent = g.sent /\ asked.state = g.state /\ LifeSame(g, asked) /\ Rest(g, asked)
      /\ asked.unready = (g.unready \/ g.state # "Connected")
  BY <1>2, ZenonT(60) DEF RequestInv, Games, LifeSame, Rest, IsReady
<1>4. RequestInv(asked) /\ Ends(g, asked)
  BY <1>3 DEF RequestInv, Ends, Rest
<1>5. h = IF ~CanSubmit(g) THEN asked ELSE IF ValidRequest(r) THEN [asked EXCEPT !.sent = Append(@, r)] ELSE Disconnect(asked)
  BY <1>1, <1>2 DEF Request
<1>6. SizeAllowed(size) /\ IsRangeAllowed(address, size, IF kind \in Reads THEN Readable ELSE Writable) => ValidRequest(r)
  BY DEF ValidRequest, SizeAllowed
<1>7. CASE ~CanSubmit(g)
  BY <1>3, <1>4, <1>5, <1>7
<1>8. CASE CanSubmit(g) /\ ValidRequest(r)
  <2>1. r \in Requests
    BY <1>8, RomFacts DEF ValidRequest, Requests
  <2>2. PICK q : q = Append(g.sent, r)
    OBVIOUS
  <2>3. h = [asked EXCEPT !.sent = q]
    BY <1>3, <1>5, <1>8, <2>2
  <2>4. /\ q \in Seq(Requests) /\ Len(q) = Len(g.sent) + 1 /\ Len(g.sent) \in Nat
        /\ \A i \in 1..Len(q) : (i \in 1..Len(g.sent) /\ q[i] = g.sent[i]) \/ q[i] = r
    BY <2>1, <2>2 DEF RequestInv, Games
  <2>5. h \in Games /\ h.sent = q /\ h.state = g.state /\ LifeSame(g, h) /\ Rest(g, h) /\ h.unready = asked.unready
    <3>1. asked \in Games
      BY <1>4 DEF RequestInv
    <3>2. h \in Games /\ h.sent = q
      BY <2>3, <2>4, <3>1 DEF Games
    <3>3. h.state = asked.state /\ LifeSame(asked, h) /\ h.unready = asked.unready
      BY <2>3, <3>1 DEF Games, LifeSame
    <3>4. Rest(asked, h)
      BY <2>3, <3>1 DEF Games, Rest
    <3>5. QED
      BY <1>3, <3>2, <3>3, <3>4 DEF LifeSame, Rest
  <2>6. g.state # "Disconnected" /\ Len(q) <= MaxOutstanding
    BY <1>8, <2>4, RomFacts, SMTT(30) DEF CanSubmit
  <2>7. ASSUME NEW i \in 1..Len(q)
        PROVE  Permitted(q[i].kind) /\ Confirms(q[i].kind, q[i].address, q[i].size) /\ ValidRequest(q[i])
    <3>1. CASE i \in 1..Len(g.sent) /\ q[i] = g.sent[i]
      BY <3>1 DEF RequestInv
    <3>2. CASE q[i] = r
      <4>1. r.kind = kind /\ r.address = address /\ r.size = size
        OBVIOUS
      <4>2. QED
        BY <1>8, <2>6, <3>2, <4>1
    <3>3. QED
      BY <2>4, <3>1, <3>2
  <2>8. RequestInv(h)
    BY <1>4, <2>5, <2>6, <2>7 DEF RequestInv, Rest
  <2>9. QED
    BY <2>5, <2>8 DEF Ends
<1>9. CASE CanSubmit(g) /\ ~ValidRequest(r)
  <2>1. h = Disconnect(asked)
    BY <1>5, <1>9
  <2>2. RequestInv(h) /\ Ends(asked, h) /\ Rest(asked, h)
    BY <1>4, <2>1, DisconnectKeeps
  <2>3. Ends(g, h)
    BY <1>4, <2>2, EndsTransitive DEF RequestInv
  <2>4. QED
    BY <1>3, <1>6, <1>9, <2>2, <2>3 DEF Rest
<1>10. QED
  BY <1>7, <1>8, <1>9

-----------------------------------------------------------------------------
(* Observing. *)

LEMMA UsableFacts ==
  ASSUME RomInv, AddressesUsable
  PROVE  /\ SizeAllowed(1) /\ IsRangeAllowed(rom.multiplayerPtr, 1, Readable) /\ IsRangeAllowed(rom.homeBoxPtr, 1, Readable)
         /\ rom.mpState # Null => IsRangeAllowed(rom.mpState, rom.netMultiplayerSize, Readable)
<1>1. SizeAllowed(1)
  BY RomFacts DEF SizeAllowed
<1>2. IsRangeAllowed(rom.multiplayerPtr, 1, Readable) /\ IsRangeAllowed(rom.homeBoxPtr, 1, Readable)
  BY DEF AddressesUsable
<1>3. rom.mpState # Null => IsRangeAllowed(rom.mpState, rom.netMultiplayerSize, Readable)
  BY RomFacts DEF AddressesUsable, IsRangeAllowed
<1>4. QED
  BY <1>1, <1>2, <1>3

LEMMA KindFacts ==
  /\ RequestKinds \subseteq {"gf", "rh", "mpPtr", "mpState", "hbPtr", "hbState", "confirm", "mpWrite", "hbWrite"}
  /\ {"gf", "rh", "mpPtr", "mpState", "hbPtr", "hbState"} = Reads /\ Reads \subseteq RequestKinds
  /\ {"confirm", "mpWrite", "hbWrite"} \subseteq RequestKinds
  /\ \A k \in Reads : \A a, n : Confirms(k, a, n) /\ (rom.handshake => Permitted(k))
BY DEF RequestKinds, Reads, Confirms, Permitted

LEMMA ObserveHomeBoxKeeps ==
  ASSUME RomInv, NEW g, RequestInv(g), g.gf, AddressesUsable => g.state = "Connected",
         NEW h, h = ObserveHomeBox(g)
  PROVE  RequestInv(h) /\ Ends(g, h)
<1>1. PICK asked : asked = Request(g, "hbPtr", rom.homeBoxPtr, 1)
  OBVIOUS
<1>2. g \in Games /\ (g.state # "Disconnected" => rom.handshake)
  BY DEF RequestInv
<1>3. /\ RequestInv(asked) /\ Ends(g, asked) /\ Rest(g, asked) /\ (AddressesUsable => asked.state = "Connected")
  <2>1. "hbPtr" \in RequestKinds /\ "hbPtr" \in Reads /\ rom.homeBoxPtr \in Addresses /\ 1 \in Nat
    BY RomFacts, KindFacts
  <2>2. g.state # "Disconnected" => Permitted("hbPtr") /\ Confirms("hbPtr", rom.homeBoxPtr, 1)
    BY <1>2, <2>1, KindFacts
  <2>3. QED
    BY <1>1, <2>1, <2>2, RequestKeeps, UsableFacts
<1>4. asked \in Games
  BY <1>3 DEF RequestInv
<1>5. CASE g.hbPtr \in {Unread, Null}
  <2>1. h = [asked EXCEPT !.hbBlob = FALSE]
    BY <1>1, <1>5 DEF ObserveHomeBox
  <2>2. h \in Games /\ LifeSame(asked, h) /\ h.sent = asked.sent /\ h.gf = asked.gf /\ h.unready = asked.unready
    <3>1. h \in Games
      BY <1>4, <2>1, ZenonT(60) DEF Games
    <3>2. LifeSame(asked, h)
      BY <1>4, <2>1 DEF Games, LifeSame
    <3>3. h.sent = asked.sent /\ h.gf = asked.gf /\ h.unready = asked.unready
      BY <1>4, <2>1 DEF Games
    <3>4. QED
      BY <3>1, <3>2, <3>3
  <2>3. RequestInv(h)
    BY <1>3, <2>2 DEF RequestInv, LifeSame
  <2>4. QED
    BY <1>2, <1>3, <1>4, <2>2, <2>3, EndsTransitive DEF Ends
<1>6. CASE g.hbPtr \notin {Unread, Null} /\ SizeAllowed(rom.homeBoxSize)
  <2>1. h = Request(asked, "hbState", g.hbPtr, rom.homeBoxSize)
    BY <1>1, <1>6 DEF ObserveHomeBox
  <2>2. "hbState" \in RequestKinds /\ "hbState" \in Reads /\ g.hbPtr \in Addresses /\ rom.homeBoxSize \in Nat
    BY <1>2, <1>6, RomFacts, KindFacts DEF Games
  <2>3. asked.state # "Disconnected" => Permitted("hbState") /\ Confirms("hbState", g.hbPtr, rom.homeBoxSize)
    BY <1>3, <2>2, KindFacts DEF RequestInv, Rest
  <2>4. RequestInv(h) /\ Ends(asked, h)
    BY <1>3, <2>1, <2>2, <2>3, RequestKeeps
  <2>5. h \in Games
    BY <2>4 DEF RequestInv
  <2>6. QED
    BY <1>2, <1>3, <1>4, <2>4, <2>5, EndsTransitive
<1>7. CASE g.hbPtr \notin {Unread, Null} /\ ~SizeAllowed(rom.homeBoxSize)
  <2>1. h = Disconnect(asked)
    BY <1>1, <1>7 DEF ObserveHomeBox
  <2>2. RequestInv(h) /\ Ends(asked, h) /\ h \in Games
    BY <1>3, <2>1, DisconnectKeeps DEF RequestInv
  <2>3. QED
    BY <1>2, <1>3, <1>4, <2>2, EndsTransitive
<1>8. QED
  BY <1>5, <1>6, <1>7

LEMMA ObserveStatesKeeps ==
  ASSUME RomInv, NEW g, RequestInv(g), g.gf, g.state = "Connected", NEW h, h = ObserveStates(g)
  PROVE  RequestInv(h) /\ Ends(g, h)
<1>1. PICK asked : asked = Request(g, "mpPtr", rom.multiplayerPtr, 1)
  OBVIOUS
<1>2. g \in Games /\ (g.state # "Disconnected" => rom.handshake)
  BY DEF RequestInv
<1>3. /\ RequestInv(asked) /\ Ends(g, asked) /\ Rest(g, asked) /\ (AddressesUsable => asked.state = "Connected")
  <2>1. "mpPtr" \in RequestKinds /\ "mpPtr" \in Reads /\ rom.multiplayerPtr \in Addresses /\ 1 \in Nat
    BY RomFacts, KindFacts
  <2>2. g.state # "Disconnected" => Permitted("mpPtr") /\ Confirms("mpPtr", rom.multiplayerPtr, 1)
    BY <1>2, <2>1, KindFacts
  <2>3. QED
    BY <1>1, <2>1, <2>2, RequestKeeps, UsableFacts
<1>4. asked \in Games
  BY <1>3 DEF RequestInv
<1>5. ASSUME NEW k, RequestInv(k), Ends(asked, k), k.gf, AddressesUsable => k.state = "Connected", h = ObserveHomeBox(k)
      PROVE  RequestInv(h) /\ Ends(g, h)
  <2>1. RequestInv(h) /\ Ends(k, h)
    BY <1>5, ObserveHomeBoxKeeps
  <2>2. h \in Games /\ k \in Games
    BY <1>5, <2>1 DEF RequestInv
  <2>3. Ends(asked, h)
    BY <1>4, <1>5, <2>1, <2>2, EndsTransitive
  <2>4. QED
    BY <1>2, <1>3, <1>4, <2>1, <2>2, <2>3, EndsTransitive
<1>6. CASE g.mpPtr \in {Unread, Null}
  <2>1. PICK k : k = [asked EXCEPT !.mpBlob = NoBlob]
    OBVIOUS
  <2>2. k \in Games /\ LifeSame(asked, k) /\ k.sent = asked.sent /\ k.gf = asked.gf /\ k.unready = asked.unready
    BY <1>4, <2>1 DEF Games, LifeSame
  <2>3. RequestInv(k) /\ Ends(asked, k)
    BY <1>3, <2>2 DEF RequestInv, LifeSame, Ends
  <2>4. h = ObserveHomeBox(k)
    BY <1>1, <1>6, <2>1 DEF ObserveStates
  <2>5. QED
    BY <1>3, <1>5, <2>2, <2>3, <2>4 DEF LifeSame, Rest
<1>7. CASE g.mpPtr \notin {Unread, Null} /\ SizeAllowed(rom.netMultiplayerSize)
  <2>1. PICK k : k = Request(asked, "mpState", g.mpPtr, rom.netMultiplayerSize)
    OBVIOUS
  <2>2. "mpState" \in RequestKinds /\ "mpState" \in Reads /\ g.mpPtr \in Addresses /\ rom.netMultiplayerSize \in Nat
    BY <1>2, <1>7, RomFacts, KindFacts DEF Games
  <2>3. asked.state # "Disconnected" => Permitted("mpState") /\ Confirms("mpState", g.mpPtr, rom.netMultiplayerSize)
    BY <1>3, <2>2, KindFacts DEF RequestInv, Rest
  <2>4. AddressesUsable => IsRangeAllowed(g.mpPtr, rom.netMultiplayerSize, Readable)
    BY <1>2, <1>7, UsableFacts DEF Games
  <2>5. RequestInv(k) /\ Ends(asked, k) /\ Rest(asked, k) /\ (AddressesUsable => k.state = "Connected")
    BY <1>3, <1>7, <2>1, <2>2, <2>3, <2>4, RequestKeeps
  <2>6. h = ObserveHomeBox(k)
    BY <1>1, <1>7, <2>1 DEF ObserveStates
  <2>7. QED
    BY <1>3, <1>5, <2>5, <2>6 DEF Rest
<1>8. CASE g.mpPtr \notin {Unread, Null} /\ ~SizeAllowed(rom.netMultiplayerSize)
  <2>1. h = Disconnect(asked)
    BY <1>1, <1>8 DEF ObserveStates
  <2>2. RequestInv(h) /\ Ends(asked, h) /\ h \in Games
    BY <1>3, <2>1, DisconnectKeeps DEF RequestInv
  <2>3. QED
    BY <1>2, <1>3, <1>4, <2>2, EndsTransitive
<1>9. QED
  BY <1>6, <1>7, <1>8

LEMMA ObserveKeeps ==
  ASSUME RomInv, NEW g, RequestInv(g), g.state = "Connected", NEW h, h = Observe(g)
  PROVE  RequestInv(h) /\ Ends(g, h)
<1>1. CASE ~g.gf
  <2>1. h = Request(g, "gf", HeaderAddress, HeaderSize)
    BY <1>1 DEF Observe
  <2>2. "gf" \in RequestKinds /\ HeaderAddress \in Addresses /\ HeaderSize \in Nat
    BY RomFacts DEF RequestKinds
  <2>3. Permitted("gf") /\ Confirms("gf", HeaderAddress, HeaderSize)
    BY DEF Permitted, Confirms, Reads
  <2>4. QED
    BY <2>1, <2>2, <2>3, RequestKeeps
<1>2. CASE g.gf /\ ~g.rh
  <2>1. h = Request(g, "rh", rom.rogueAssistantHeader, HeaderSize)
    BY <1>2 DEF Observe
  <2>2. "rh" \in RequestKinds /\ "rh" \in Reads /\ rom.rogueAssistantHeader \in Addresses /\ HeaderSize \in Nat
    BY RomFacts DEF RequestKinds, Reads
  <2>3. Permitted("rh") /\ Confirms("rh", rom.rogueAssistantHeader, HeaderSize)
    BY <1>2, <2>2, KindFacts DEF RequestInv
  <2>4. QED
    BY <2>1, <2>2, <2>3, RequestKeeps
<1>3. CASE g.gf /\ g.rh
  BY <1>3, ObserveStatesKeeps DEF Observe
<1>4. QED
  BY <1>1, <1>2, <1>3

-----------------------------------------------------------------------------
(* Attaching and removing. *)

\* What the rules for requests look at.
AskSame(g, h) == h.state = g.state /\ h.sent = g.sent /\ h.gf = g.gf /\ h.unready = g.unready

LEMMA AskKeeps ==
  ASSUME NEW g, RequestInv(g), NEW h \in Games, AskSame(g, h)
  PROVE  RequestInv(h)
BY DEF RequestInv, AskSame

\* The number that AddBehaviour gives.
LEMMA AddBehaviourKeeps ==
  ASSUME NEW g \in Games, LifeInv(g), NEW kind \in {"common", "mp", "hb"}, \A b \in Attached(g) : b[1] # kind,
         kind # "common" => rom.handshake /\ rom.api /\ rom.edition,
         NEW h, h = AddBehaviour(g, kind)
  PROVE  /\ h \in Games /\ LifeInv(h) /\ AskSame(g, h) /\ Rest(g, h)
         /\ h.toRemove = g.toRemove /\ h.mpWeak = g.mpWeak /\ h.hbWeak = g.hbWeak
         /\ \E n \in {1, 2} : Attached(h) = Attached(g) \cup {<<kind, n>>} /\ Last(h.behaviours) = <<kind, n>>
<1>1. PICK n \in {1, 2} : n = IF <<kind, 1>> \in Live(g) THEN 2 ELSE 1
  OBVIOUS
<1>2. PICK b : b = <<kind, n>>
  OBVIOUS
<1>3. b \in Instances /\ b[1] = kind /\ b \notin Attached(g)
  BY <1>2 DEF Instances
<1>4. PICK list : list = Append(g.behaviours, b)
  OBVIOUS
<1>5. PICK fates : fates = [g.fate EXCEPT ![b] = "attached"]
  OBVIOUS
<1>6. h = [g EXCEPT !.behaviours = list, !.fate = fates]
  BY <1>1, <1>2, <1>4, <1>5 DEF AddBehaviour
<1>7. /\ g.behaviours \in Seq(Instances) /\ g.fate \in [Instances -> Fates] /\ Attached(g) \subseteq Instances
  BY AttachedType
<1>8. /\ list \in Seq(Instances) /\ ToSet(list) = Attached(g) \cup {b} /\ Last(list) = b /\ Distinct(list)
  BY <1>3, <1>4, <1>7, AppendList DEF Attached, LifeInv
<1>9. /\ fates \in [Instances -> Fates] /\ fates[b] = "attached"
      /\ \A c \in Instances : c # b => fates[c] = g.fate[c]
  BY <1>3, <1>5, <1>7 DEF Fates
<1>10. /\ h \in Games /\ h.behaviours = list /\ h.fate = fates /\ AskSame(g, h) /\ Rest(g, h)
       /\ h.toRemove = g.toRemove /\ h.mpWeak = g.mpWeak /\ h.hbWeak = g.hbWeak
  <2>1. h \in Games
    BY <1>6, <1>8, <1>9, ZenonT(60) DEF Games
  <2>2. h.behaviours = list /\ h.fate = fates
    BY <1>6 DEF Games
  <2>3. AskSame(g, h) /\ h.toRemove = g.toRemove /\ h.mpWeak = g.mpWeak /\ h.hbWeak = g.hbWeak
    BY <1>6 DEF Games, AskSame
  <2>4. Rest(g, h)
    BY <1>6 DEF Games, Rest
  <2>5. QED
    BY <2>1, <2>2, <2>3, <2>4
<1>11. Attached(h) = Attached(g) \cup {b}
  BY <1>8, <1>10 DEF Attached
<1>12. LifeInv(h)
  <2>1. Distinct(h.behaviours)
    BY <1>8, <1>10
  <2>2. \A c \in Instances : h.fate[c] \notin {"twice", "late"}
    BY <1>9, <1>10 DEF LifeInv
  <2>3. \A c \in Attached(h) : h.fate[c] \in {"attached", "ran"}
    BY <1>7, <1>9, <1>10, <1>11 DEF LifeInv
  <2>4. \A c \in Instances : h.fate[c] = "ran" => c \in Attached(h) /\ h.state # "Disconnected"
    BY <1>9, <1>10, <1>11 DEF LifeInv, AskSame
  <2>5. \A c \in Attached(h) : c[1] \in {"mp", "hb"} => rom.handshake /\ rom.api /\ rom.edition
    BY <1>3, <1>11 DEF LifeInv
  <2>6. QED
    BY <2>1, <2>2, <2>3, <2>4, <2>5 DEF LifeInv
<1>13. QED
  BY <1>2, <1>8, <1>10, <1>11, <1>12

LEMMA RemoveBehaviourKeeps ==
  ASSUME NEW g \in Games, NEW b \in Instances, NEW h, h = RemoveBehaviour(g, b)
  PROVE  /\ h \in Games /\ AskSame(g, h) /\ Rest(g, h)
         /\ h.behaviours = g.behaviours /\ h.fate = g.fate /\ h.mpWeak = g.mpWeak /\ h.hbWeak = g.hbWeak
         /\ ToSet(h.toRemove) = ToSet(g.toRemove) \cup {b}
<1>1. PICK list : list = Append(g.toRemove, b)
  OBVIOUS
<1>2. h = [g EXCEPT !.toRemove = list]
  BY <1>1 DEF RemoveBehaviour
<1>3. list \in Seq(Instances) /\ ToSet(list) = ToSet(g.toRemove) \cup {b}
  BY <1>1, AppendList, AttachedType
<1>4. QED
  BY <1>2, <1>3, ZenonT(60) DEF Games, AskSame, Rest

\* What a change of the weak pointers leaves as it was.
LEMMA WeakChanged ==
  ASSUME NEW g \in Games, NEW n \in {0, 1, 2},
         NEW h, h = [g EXCEPT !.mpWeak = n] \/ h = [g EXCEPT !.hbWeak = n]
  PROVE  /\ h \in Games /\ AskSame(g, h)
         /\ h.behaviours = g.behaviours /\ h.toRemove = g.toRemove /\ h.fate = g.fate
         /\ h = [g EXCEPT !.mpWeak = n] => h.mpWeak = n /\ h.hbWeak = g.hbWeak
         /\ h = [g EXCEPT !.hbWeak = n] => h.hbWeak = n /\ h.mpWeak = g.mpWeak
<1>1. h \in Games
  <2>1. [g EXCEPT !.mpWeak = n] \in Games
    BY Zenon DEF Games
  <2>2. [g EXCEPT !.hbWeak = n] \in Games
    BY Zenon DEF Games
  <2>3. QED
    BY <2>1, <2>2
<1>2. AskSame(g, h)
  BY DEF Games, AskSame
<1>3. h.behaviours = g.behaviours /\ h.toRemove = g.toRemove /\ h.fate = g.fate
  BY DEF Games
<1>4. h = [g EXCEPT !.mpWeak = n] => h.mpWeak = n /\ h.hbWeak = g.hbWeak
  BY DEF Games
<1>5. h = [g EXCEPT !.hbWeak = n] => h.hbWeak = n /\ h.mpWeak = g.mpWeak
  BY DEF Games
<1>6. QED
  BY <1>1, <1>2, <1>3, <1>4, <1>5

\* ... and a change of what CommonBehaviour knows of the multiplayer behaviour.
WithRole(g, role, address, attempted) == [g EXCEPT !.role = role, !.address = address, !.attempted = attempted]

LEMMA RoleChanged ==
  ASSUME NEW g \in Games, NEW role \in Flags, NEW address \in BOOLEAN, NEW attempted \in BOOLEAN,
         NEW h, h = WithRole(g, role, address, attempted)
  PROVE  /\ h \in Games /\ AskSame(g, h)
         /\ h.behaviours = g.behaviours /\ h.toRemove = g.toRemove /\ h.fate = g.fate
         /\ h.mpWeak = g.mpWeak /\ h.hbWeak = g.hbWeak
<1>1. h \in Games
  BY ZenonT(60) DEF Games, WithRole
<1>2. AskSame(g, h)
  BY DEF Games, AskSame, WithRole
<1>3. /\ h.behaviours = g.behaviours /\ h.toRemove = g.toRemove /\ h.fate = g.fate
      /\ h.mpWeak = g.mpWeak /\ h.hbWeak = g.hbWeak
  BY DEF Games, WithRole
<1>4. QED
  BY <1>1, <1>2, <1>3

LEMMA RemovingKeeps ==
  ASSUME NEW g \in Games, LifeInv(g), NEW h \in Games,
         h.state = g.state, h.behaviours = g.behaviours, h.fate = g.fate
  PROVE  LifeInv(h) /\ Attached(h) = Attached(g)
BY DEF LifeInv, Attached

LEMMA LiveFacts ==
  ASSUME NEW g \in Games, todo \in Seq(Instances)
  PROVE  Attached(g) \subseteq Live(g) /\ Live(g) \subseteq Instances
<1>1. ToSet(g.behaviours) \subseteq Instances /\ ToSet(g.toRemove) \subseteq Instances /\ ToSet(todo) \subseteq Instances
  BY AttachedType, SeqSet
<1>2. QED
  BY <1>1 DEF Live, Attached

-----------------------------------------------------------------------------
(* CommonBehaviour::OnUpdate *)

LEMMA FollowMultiplayerKeeps ==
  ASSUME RomInv, todo \in Seq(Instances), NEW g, RequestInv(g), LifeInv(g), Knows(g, "mp", g.mpWeak),
         rom.handshake /\ rom.api /\ rom.edition, NEW h, h = FollowMultiplayer(g)
  PROVE  /\ RequestInv(h) /\ LifeInv(h) /\ h.state = g.state /\ Attached(g) \subseteq Attached(h)
         /\ Follows(h, "mp", h.mpWeak) /\ (Knows(g, "hb", g.hbWeak) => Knows(h, "hb", h.hbWeak))
<1>1. g \in Games
  BY DEF RequestInv
<1>2. PICK mp : mp = <<"mp", g.mpWeak>>
  OBVIOUS
<1>3. Attached(g) \subseteq Live(g) /\ Live(g) \subseteq Instances
  BY <1>1, LiveFacts
<1>4. CASE h = g
  BY <1>4 DEF Knows, Follows
<1>5. CASE IsMultiplayerStateValid(g) /\ mp \notin Live(g) /\ h = AttachMultiplayer(g)
  <2>1. \A b \in Attached(g) : b[1] # "mp"
    BY <1>2, <1>3, <1>5 DEF Knows
  <2>2. PICK added : added = AddBehaviour(g, "mp")
    OBVIOUS
  <2>3. /\ added \in Games /\ LifeInv(added) /\ AskSame(g, added)
        /\ added.toRemove = g.toRemove /\ added.mpWeak = g.mpWeak /\ added.hbWeak = g.hbWeak
        /\ \E n \in {1, 2} : Attached(added) = Attached(g) \cup {<<"mp", n>>} /\ Last(added.behaviours) = <<"mp", n>>
    BY <1>1, <2>1, <2>2, AddBehaviourKeeps
  <2>4. PICK n \in {1, 2} : Attached(added) = Attached(g) \cup {<<"mp", n>>} /\ Last(added.behaviours)[2] = n
    BY <2>3
  <2>5. PICK role \in Flags : role = IF ValidateMultiplayerLayout(rom) THEN g.mpBlob ELSE 0
    BY <1>1, <1>5 DEF Games, IsMultiplayerStateValid, Flags
  <2>6. h = [added EXCEPT !.mpWeak = n, !.role = role, !.address = FALSE, !.attempted = FALSE]
    BY <1>5, <2>2, <2>4, <2>5 DEF AttachMultiplayer
  <2>7. /\ h \in Games /\ AskSame(added, h) /\ h.behaviours = added.behaviours /\ h.fate = added.fate
        /\ h.mpWeak = n /\ h.hbWeak = g.hbWeak /\ h.state = g.state
    <3>1. PICK weak : weak = [added EXCEPT !.mpWeak = n]
      OBVIOUS
    <3>2. /\ weak \in Games /\ AskSame(added, weak) /\ weak.behaviours = added.behaviours
          /\ weak.fate = added.fate /\ weak.mpWeak = n /\ weak.hbWeak = added.hbWeak
      BY <2>3, <3>1, WeakChanged
    <3>3. h = WithRole(weak, role, FALSE, FALSE)
      BY <2>6, <3>1 DEF WithRole
    <3>4. /\ h \in Games /\ AskSame(weak, h) /\ h.behaviours = weak.behaviours /\ h.fate = weak.fate
          /\ h.mpWeak = weak.mpWeak /\ h.hbWeak = weak.hbWeak
      BY <3>2, <3>3, RoleChanged
    <3>5. QED
      BY <2>3, <3>2, <3>4 DEF AskSame
  <2>8. LifeInv(h) /\ Attached(h) = Attached(g) \cup {<<"mp", n>>}
    BY <2>3, <2>4, <2>7, RemovingKeeps DEF AskSame
  <2>9. RequestInv(h)
    BY <2>3, <2>7, AskKeeps DEF AskSame
  <2>10. Follows(h, "mp", h.mpWeak)
    BY <2>1, <2>7, <2>8 DEF Follows
  <2>11. Knows(g, "hb", g.hbWeak) => Knows(h, "hb", h.hbWeak)
    BY <2>7, <2>8 DEF Knows
  <2>12. QED
    BY <2>7, <2>8, <2>9, <2>10, <2>11
<1>6. CASE mp \in Live(g) /\ h = [RemoveBehaviour(g, mp) EXCEPT !.mpWeak = 0]
  <2>1. PICK less : less = RemoveBehaviour(g, mp)
    OBVIOUS
  <2>2. mp \in Instances
    BY <1>3, <1>6
  <2>3. /\ less \in Games /\ AskSame(g, less) /\ less.behaviours = g.behaviours /\ less.fate = g.fate
        /\ less.hbWeak = g.hbWeak /\ ToSet(less.toRemove) = ToSet(g.toRemove) \cup {mp}
    BY <1>1, <2>1, <2>2, RemoveBehaviourKeeps
  <2>4. h = [less EXCEPT !.mpWeak = 0]
    BY <1>6, <2>1
  <2>5. /\ h \in Games /\ AskSame(g, h) /\ h.behaviours = g.behaviours /\ h.fate = g.fate /\ h.mpWeak = 0
        /\ h.hbWeak = g.hbWeak /\ h.toRemove = less.toRemove /\ h.state = g.state
    BY <2>3, <2>4, WeakChanged DEF AskSame
  <2>6. RequestInv(h) /\ LifeInv(h) /\ Attached(h) = Attached(g)
    BY <1>1, <2>5, AskKeeps, RemovingKeeps
  <2>7. Follows(h, "mp", h.mpWeak)
    BY <1>2, <2>3, <2>5, <2>6 DEF Follows, Knows
  <2>8. Knows(g, "hb", g.hbWeak) => Knows(h, "hb", h.hbWeak)
    BY <2>5, <2>6 DEF Knows
  <2>9. QED
    BY <2>5, <2>6, <2>7, <2>8
<1>7. QED
  BY <1>2, <1>4, <1>5, <1>6 DEF FollowMultiplayer

LEMMA FollowHomeBoxKeeps ==
  ASSUME RomInv, todo \in Seq(Instances), NEW g, RequestInv(g), LifeInv(g), Knows(g, "hb", g.hbWeak),
         Follows(g, "mp", g.mpWeak), rom.handshake /\ rom.api /\ rom.edition, NEW h, h = FollowHomeBox(g)
  PROVE  /\ RequestInv(h) /\ LifeInv(h) /\ h.state = g.state /\ Attached(g) \subseteq Attached(h)
         /\ Follows(h, "hb", h.hbWeak) /\ Follows(h, "mp", h.mpWeak)
<1>1. g \in Games
  BY DEF RequestInv
<1>2. PICK hb : hb = <<"hb", g.hbWeak>>
  OBVIOUS
<1>3. Attached(g) \subseteq Live(g) /\ Live(g) \subseteq Instances
  BY <1>1, LiveFacts
<1>4. CASE h = g
  BY <1>4 DEF Knows, Follows
<1>5. PICK added : added = AddBehaviour(g, "hb")
  OBVIOUS
<1>6. CASE hb \notin Live(g) /\ h = [added EXCEPT !.hbWeak = Last(added.behaviours)[2]]
  <2>1. \A b \in Attached(g) : b[1] # "hb"
    BY <1>2, <1>3, <1>6 DEF Knows
  <2>2. /\ added \in Games /\ LifeInv(added) /\ AskSame(g, added)
        /\ added.toRemove = g.toRemove /\ added.mpWeak = g.mpWeak /\ added.hbWeak = g.hbWeak
        /\ \E n \in {1, 2} : Attached(added) = Attached(g) \cup {<<"hb", n>>} /\ Last(added.behaviours) = <<"hb", n>>
    BY <1>1, <1>5, <2>1, AddBehaviourKeeps
  <2>3. PICK n \in {1, 2} : Attached(added) = Attached(g) \cup {<<"hb", n>>} /\ Last(added.behaviours)[2] = n
    BY <2>2
  <2>4. h = [added EXCEPT !.hbWeak = n]
    BY <1>6, <2>3
  <2>5. /\ h \in Games /\ AskSame(added, h) /\ h.behaviours = added.behaviours /\ h.fate = added.fate
        /\ h.hbWeak = n /\ h.mpWeak = g.mpWeak /\ h.state = g.state /\ h.toRemove = g.toRemove
    BY <2>2, <2>4, WeakChanged DEF AskSame
  <2>6. LifeInv(h) /\ Attached(h) = Attached(g) \cup {<<"hb", n>>}
    BY <2>2, <2>3, <2>5, RemovingKeeps DEF AskSame
  <2>7. RequestInv(h)
    BY <2>2, <2>5, AskKeeps DEF AskSame
  <2>8. Follows(h, "hb", h.hbWeak)
    BY <2>1, <2>5, <2>6 DEF Follows
  <2>9. Follows(h, "mp", h.mpWeak)
    BY <2>5, <2>6 DEF Follows
  <2>10. QED
    BY <2>5, <2>6, <2>7, <2>8, <2>9
<1>7. CASE hb \in Live(g) /\ h = [RemoveBehaviour(g, hb) EXCEPT !.hbWeak = 0]
  <2>1. PICK less : less = RemoveBehaviour(g, hb)
    OBVIOUS
  <2>2. hb \in Instances
    BY <1>3, <1>7
  <2>3. /\ less \in Games /\ AskSame(g, less) /\ less.behaviours = g.behaviours /\ less.fate = g.fate
        /\ less.mpWeak = g.mpWeak /\ ToSet(less.toRemove) = ToSet(g.toRemove) \cup {hb}
    <3>1. less \in Games /\ AskSame(g, less) /\ less.behaviours = g.behaviours /\ less.fate = g.fate
      BY <1>1, <2>1, <2>2, RemoveBehaviourKeeps
    <3>2. less.mpWeak = g.mpWeak /\ ToSet(less.toRemove) = ToSet(g.toRemove) \cup {hb}
      BY <1>1, <2>1, <2>2, RemoveBehaviourKeeps, ZenonT(60)
    <3>3. QED
      BY <3>1, <3>2
  <2>4. h = [less EXCEPT !.hbWeak = 0]
    BY <1>7, <2>1
  <2>5. /\ h \in Games /\ AskSame(g, h) /\ h.behaviours = g.behaviours /\ h.fate = g.fate /\ h.hbWeak = 0
        /\ h.mpWeak = g.mpWeak /\ h.toRemove = less.toRemove /\ h.state = g.state
    BY <2>3, <2>4, WeakChanged DEF AskSame
  <2>6. RequestInv(h) /\ LifeInv(h) /\ Attached(h) = Attached(g)
    BY <1>1, <2>5, AskKeeps, RemovingKeeps
  <2>7. Follows(h, "hb", h.hbWeak)
    BY <1>2, <2>3, <2>5, <2>6 DEF Follows, Knows
  <2>8. Follows(h, "mp", h.mpWeak)
    BY <2>3, <2>5, <2>6 DEF Follows
  <2>9. QED
    BY <2>5, <2>6, <2>7, <2>8
<1>8. QED
  BY <1>2, <1>4, <1>5, <1>6, <1>7 DEF FollowHomeBox

\* What an update of a behaviour may have done.
Outcome(g, h) ==
  /\ RequestInv(h) /\ LifeInv(h)
  /\ h.state \in {g.state, "Disconnected"}
  /\ h.state # "Disconnected" => Attached(g) \subseteq Attached(h)
Kept(g, h) == Outcome(g, h) /\ (WeakInv(g) => WeakInv(h)) /\ (KnowsBoth(g) => KnowsBoth(h))

LEMMA EndsKept ==
  ASSUME NEW g, RequestInv(g), LifeInv(g), NEW h, RequestInv(h), Ends(g, h)
  PROVE  Kept(g, h)
<1>1. g \in Games /\ h \in Games
  BY DEF RequestInv
<1>2. /\ LifeInv(h) /\ (WeakInv(g) => WeakInv(h)) /\ (KnowsBoth(g) => KnowsBoth(h))
      /\ (h.state # "Disconnected" => LifeSame(g, h)) /\ (h.state # g.state => h.state = "Disconnected")
  BY <1>1, LifeEnds
<1>3. h.state # "Disconnected" => Attached(h) = Attached(g)
  BY <1>2 DEF LifeSame, Attached
<1>4. QED
  BY <1>2, <1>3 DEF Kept, Outcome

LEMMA KeptTransitive ==
  ASSUME NEW g, NEW h, NEW k, Kept(g, h), Kept(h, k)
  PROVE  Kept(g, k)
BY DEF Kept, Outcome

LEMMA RemoveKept ==
  ASSUME NEW g, RequestInv(g), LifeInv(g), NEW b \in Instances, NEW h, h = RemoveBehaviour(g, b)
  PROVE  Kept(g, h)
<1>1. g \in Games
  BY DEF RequestInv
<1>2. /\ h \in Games /\ AskSame(g, h) /\ h.behaviours = g.behaviours /\ h.fate = g.fate
      /\ h.mpWeak = g.mpWeak /\ h.hbWeak = g.hbWeak /\ ToSet(h.toRemove) = ToSet(g.toRemove) \cup {b}
  BY <1>1, RemoveBehaviourKeeps
<1>3. RequestInv(h) /\ LifeInv(h) /\ Attached(h) = Attached(g) /\ h.state = g.state
  BY <1>1, <1>2, AskKeeps, RemovingKeeps DEF AskSame
<1>4. QED
  BY <1>2, <1>3 DEF Kept, Outcome, WeakInv, KnowsBoth, Follows, Knows

LEMMA CommonUpdatesKeep ==
  ASSUME RomInv, todo \in Seq(Instances), NEW g, RequestInv(g), LifeInv(g), KnowsBoth(g), g.state = "Connected",
         NEW h \in CommonUpdates(g)
  PROVE  Outcome(g, h) /\ WeakInv(h)
<1> DEFINE address == rom.assistantState + rom.assistantConfirmOffset
           size == rom.assistantConfirmSize
<1>1. WeakInv(g)
  BY DEF KnowsBoth, Knows, WeakInv, Follows
<1>2. ASSUME NEW k, RequestInv(k), LifeInv(k), WeakInv(k), h = Disconnect(k) PROVE Outcome(g, h) /\ WeakInv(h)
  <2>1. RequestInv(h) /\ Ends(k, h) /\ h.state = "Disconnected"
    BY <1>2, DisconnectKeeps
  <2>2. Kept(k, h)
    BY <1>2, <2>1, EndsKept
  <2>3. QED
    BY <1>2, <2>1, <2>2 DEF Kept, Outcome
<1>3. CASE h = g
  BY <1>1, <1>3 DEF Outcome
<1>4. CASE h = Disconnect(g)
  BY <1>1, <1>2, <1>4
<1>5. CASE g.gf /\ rom.api /\ rom.edition /\ ConfirmAllowed
  <2>1. PICK confirmed : confirmed = Request(g, "confirm", address, size)
    OBVIOUS
  <2>2. address \in Addresses /\ size \in Nat /\ size <= WordSize
    <3>1. /\ rom.assistantState \in Nat /\ rom.assistantConfirmOffset \in Nat /\ rom.assistantConfirmSize \in Nat
          /\ AddressLimit \in Nat
      BY RomFacts DEF Addresses
    <3>2. rom.assistantState <= AddressLimit - 1 - rom.assistantConfirmOffset /\ rom.assistantConfirmSize <= WordSize
      BY <1>5 DEF ConfirmAllowed
    <3>3. QED
      BY <3>1, <3>2 DEF Addresses
  <2>3. rom.handshake
    BY <1>5 DEF RequestInv
  <2>4. Permitted("confirm") /\ Confirms("confirm", address, size) /\ "confirm" \in RequestKinds
    BY <1>5, <2>2, <2>3 DEF Permitted, Confirms, RequestKinds
  <2> HIDE DEF address, size
  <2>5. RequestInv(confirmed) /\ Ends(g, confirmed)
    BY <2>1, <2>2, <2>4, RequestKeeps
  <2>6. Kept(g, confirmed)
    BY <2>5, EndsKept
  <2>7. LifeInv(confirmed) /\ WeakInv(confirmed) /\ KnowsBoth(confirmed)
    BY <1>1, <2>6 DEF Kept, Outcome
  <2>8. CASE h = Disconnect(confirmed)
    BY <1>2, <2>5, <2>7, <2>8
  <2>9. CASE h = FollowHomeBox(FollowMultiplayer(confirmed))
    <3>1. PICK k : k = FollowMultiplayer(confirmed)
      OBVIOUS
    <3>2. /\ RequestInv(k) /\ LifeInv(k) /\ k.state = confirmed.state /\ Attached(confirmed) \subseteq Attached(k)
          /\ Follows(k, "mp", k.mpWeak) /\ Knows(k, "hb", k.hbWeak)
      BY <1>5, <2>3, <2>5, <2>7, <3>1, FollowMultiplayerKeeps DEF KnowsBoth
    <3>3. h = FollowHomeBox(k)
      BY <2>9, <3>1
    <3>4. /\ RequestInv(h) /\ LifeInv(h) /\ h.state = k.state /\ Attached(k) \subseteq Attached(h)
          /\ Follows(h, "hb", h.hbWeak) /\ Follows(h, "mp", h.mpWeak)
      BY <1>5, <2>3, <3>2, <3>3, FollowHomeBoxKeeps
    <3>5. QED
      BY <2>6, <3>2, <3>4 DEF Kept, Outcome, WeakInv
  <2>10. QED
    BY <1>3, <1>4, <2>1, <2>8, <2>9 DEF CommonUpdates, address, size
<1>6. QED
  BY <1>3, <1>4, <1>5 DEF CommonUpdates

-----------------------------------------------------------------------------
(* The other behaviours' OnUpdate *)

LEMMA WriteKept ==
  ASSUME RomInv, NEW g, RequestInv(g), LifeInv(g), g.state = "Connected", rom.handshake /\ rom.api /\ rom.edition,
         NEW kind \in {"mpWrite", "hbWrite"}, NEW address \in Addresses, NEW h, h = Request(g, kind, address, 1)
  PROVE  Kept(g, h)
<1>1. kind \in RequestKinds /\ Permitted(kind) /\ Confirms(kind, address, 1) /\ 1 \in Nat
  BY DEF RequestKinds, Permitted, Confirms
<1>2. RequestInv(h) /\ Ends(g, h)
  BY <1>1, RequestKeeps
<1>3. QED
  BY <1>2, EndsKept

LEMMA MultiplayerUpdatesKeep ==
  ASSUME RomInv, NEW g, RequestInv(g), LifeInv(g), g.state = "Connected",
         NEW b \in Attached(g), b[1] = "mp", NEW h \in MultiplayerUpdates(g, b)
  PROVE  Kept(g, h)
<1>1. g \in Games /\ b \in Instances
  BY AttachedType DEF RequestInv
<1>2. rom.handshake /\ rom.api /\ rom.edition
  BY DEF LifeInv
<1>3. Kept(g, g)
  BY DEF Kept, Outcome
<1>4. ASSUME NEW k, Kept(g, k) PROVE RequestInv(k) /\ LifeInv(k) /\ Kept(g, RemoveBehaviour(k, b))
  <2>1. RequestInv(k) /\ LifeInv(k)
    BY <1>4 DEF Kept, Outcome
  <2>2. PICK less : less = RemoveBehaviour(k, b)
    OBVIOUS
  <2>3. Kept(k, less)
    BY <1>1, <2>1, <2>2, RemoveKept
  <2>4. Kept(g, less)
    BY <1>4, <2>3, KeptTransitive
  <2>5. QED
    BY <2>1, <2>2, <2>4
<1>5. PICK tried : tried = [g EXCEPT !.attempted = TRUE]
  OBVIOUS
<1>6. Kept(g, tried)
  <2>1. /\ tried \in Games /\ AskSame(g, tried) /\ LifeSame(g, tried)
    BY <1>1, <1>5 DEF Games, AskSame, LifeSame
  <2>2. RequestInv(tried) /\ Ends(g, tried)
    BY <2>1, AskKeeps DEF Ends
  <2>3. QED
    BY <2>2, EndsKept
<1>7. CASE IsMultiplayerStateValid(g) /\ h \in Multiplays(g, b)
  <2>1. g.mpPtr \in Addresses
    BY <1>1, <1>7, RomFacts DEF IsMultiplayerStateValid, Games
  <2>2. PICK wrote : wrote = Request(g, "mpWrite", g.mpPtr, 1)
    OBVIOUS
  <2>3. Kept(g, wrote)
    BY <1>2, <2>1, <2>2, WriteKept
  <2>4. Kept(g, RemoveBehaviour(RemoveBehaviour(wrote, b), b))
    BY <1>4, <2>3
  <2>5. Kept(g, RemoveBehaviour(g, b))
    BY <1>3, <1>4
  <2>6. h \in {g, wrote, RemoveBehaviour(g, b), RemoveBehaviour(RemoveBehaviour(wrote, b), b)}
    BY <1>7, <2>2 DEF Multiplays
  <2>7. QED
    BY <1>3, <2>3, <2>4, <2>5, <2>6
<1>8. CASE h \in {g, RemoveBehaviour(g, b), tried, RemoveBehaviour(tried, b)}
  <2>1. Kept(g, RemoveBehaviour(g, b)) /\ Kept(g, RemoveBehaviour(tried, b))
    BY <1>3, <1>4, <1>6
  <2>2. QED
    BY <1>3, <1>6, <1>8, <2>1
<1>9. QED
  BY <1>5, <1>7, <1>8 DEF MultiplayerUpdates

LEMMA HomeBoxUpdatesKeep ==
  ASSUME RomInv, NEW g, RequestInv(g), LifeInv(g), g.state = "Connected",
         NEW b \in Attached(g), b[1] = "hb", NEW h \in HomeBoxUpdates(g)
  PROVE  Kept(g, h)
<1>1. g \in Games
  BY DEF RequestInv
<1>2. rom.handshake /\ rom.api /\ rom.edition
  BY DEF LifeInv
<1>3. CASE h = g
  BY <1>3 DEF Kept, Outcome
<1>4. CASE h = Disconnect(g)
  BY <1>4, DisconnectKeeps, EndsKept
<1>5. CASE IsHomeBoxStateValid(g) /\ h = Request(g, "hbWrite", g.hbPtr, 1)
  <2>1. g.hbPtr \in Addresses
    BY <1>1, <1>5, RomFacts DEF IsHomeBoxStateValid, Games
  <2>2. QED
    BY <1>2, <1>5, <2>1, WriteKept
<1>6. QED
  BY <1>3, <1>4, <1>5 DEF HomeBoxUpdates

\* An attached behaviour runs; CommonBehaviour must know the others.
LEMMA OnUpdateKeeps ==
  ASSUME RomInv, todo \in Seq(Instances), NEW g, RequestInv(g), LifeInv(g), WeakInv(g), g.state = "Connected",
         NEW b \in Attached(g), b[1] = "common" => KnowsBoth(g), NEW h \in OnUpdate(g, b)
  PROVE  Outcome(g, h) /\ WeakInv(h) /\ (b[1] # "common" /\ KnowsBoth(g) => KnowsBoth(h))
<1>1. g \in Games /\ b \in Instances /\ g.fate \in [Instances -> Fates]
  BY AttachedType DEF RequestInv
<1>2. PICK fates : fates = [g.fate EXCEPT ![b] = "ran"]
  OBVIOUS
<1>3. PICK ran : ran = [g EXCEPT !.fate = fates]
  OBVIOUS
<1>4. ran = [g EXCEPT !.fate[b] = IF @ = "detached" THEN "late" ELSE "ran"]
  <2>1. g.fate[b] # "detached"
    BY DEF LifeInv
  <2>2. QED
    BY <1>2, <1>3, <2>1
<1>5. /\ fates \in [Instances -> Fates] /\ fates[b] = "ran" /\ \A c \in Instances : c # b => fates[c] = g.fate[c]
  BY <1>1, <1>2 DEF Fates
<1>6. /\ ran \in Games /\ AskSame(g, ran) /\ ran.behaviours = g.behaviours /\ ran.toRemove = g.toRemove
      /\ ran.mpWeak = g.mpWeak /\ ran.hbWeak = g.hbWeak /\ ran.fate = fates /\ ran.state = "Connected"
  BY <1>1, <1>3, <1>5 DEF Games, AskSame
<1>7. RequestInv(ran)
  BY <1>6, AskKeeps
<1>8. Attached(ran) = Attached(g) /\ Attached(g) \subseteq Instances
  BY <1>1, <1>6, AttachedType DEF Attached
<1>9. LifeInv(ran)
  <2>1. \A c \in Instances : ran.fate[c] \notin {"twice", "late"}
    BY <1>5, <1>6 DEF LifeInv
  <2>2. \A c \in Attached(ran) : ran.fate[c] \in {"attached", "ran"}
    BY <1>5, <1>6, <1>8 DEF LifeInv
  <2>3. \A c \in Instances : ran.fate[c] = "ran" => c \in Attached(ran) /\ ran.state # "Disconnected"
    BY <1>5, <1>6, <1>8 DEF LifeInv
  <2>4. QED
    BY <1>6, <1>8, <2>1, <2>2, <2>3 DEF LifeInv
<1>10. WeakInv(ran) /\ (KnowsBoth(g) <=> KnowsBoth(ran))
  BY <1>6, <1>8 DEF WeakInv, KnowsBoth, Follows, Knows
<1>11. ASSUME Outcome(ran, h) PROVE Outcome(g, h)
  BY <1>6, <1>8, <1>11 DEF Outcome
<1>12. CASE b[1] = "common"
  <2>1. h \in CommonUpdates(ran)
    BY <1>4, <1>12 DEF OnUpdate
  <2>2. Outcome(ran, h) /\ WeakInv(h)
    BY <1>6, <1>7, <1>9, <1>10, <1>12, <2>1, CommonUpdatesKeep
  <2>3. QED
    BY <1>11, <1>12, <2>2
<1>13. CASE b[1] = "mp"
  <2>1. h \in MultiplayerUpdates(ran, b)
    BY <1>4, <1>13 DEF OnUpdate
  <2>2. Kept(ran, h)
    BY <1>6, <1>7, <1>8, <1>9, <1>13, <2>1, MultiplayerUpdatesKeep
  <2>3. QED
    BY <1>10, <1>11, <2>2 DEF Kept
<1>14. CASE b[1] = "hb"
  <2>1. h \in HomeBoxUpdates(ran)
    BY <1>4, <1>14 DEF OnUpdate
  <2>2. Kept(ran, h)
    BY <1>6, <1>7, <1>8, <1>9, <1>14, <2>1, HomeBoxUpdatesKeep
  <2>3. QED
    BY <1>10, <1>11, <2>2 DEF Kept
<1>15. QED
  BY <1>1, <1>12, <1>13, <1>14 DEF Instances

-----------------------------------------------------------------------------
(* The steps. *)

\* A connection that is dropped has nothing left to go wrong.
LEMMA DroppedKeeps ==
  ASSUME RomInv, NEW g \in Games, LifeInv(g), g.state = "Disconnected", AddressesUsable => ~g.unready,
         NEW h, h = Dropped(g)
  PROVE  /\ RequestInv(h) /\ LifeInv(h) /\ WeakInv(h) /\ KnowsBoth(h)
         /\ h.state = "Disconnected" /\ h.toRemove = << >>
<1>1. /\ << >> \in Seq(Requests) /\ << >> \in Seq(Instances) /\ ToSet(<< >>) = {} /\ Distinct(<< >>) /\ Len(<< >>) = 0
  BY EmptyList
<1>2. /\ h.state = "Disconnected" /\ h.sent = << >> /\ h.behaviours = << >> /\ h.toRemove = << >>
      /\ h.fate = g.fate /\ h.unready = g.unready
  BY DEF Dropped, NewGame
<1>3. h \in Games
  <2>1. g.fate \in [Instances -> Fates] /\ g.unready \in BOOLEAN
    BY DEF Games
  <2>2. PICK none : none = [b \in Instances |-> "none"]
    OBVIOUS
  <2>3. none \in [Instances -> Fates]
    BY <2>2 DEF Fates
  <2>4. h = [state |-> "Disconnected", sent |-> << >>, gf |-> FALSE, rh |-> FALSE, mpPtr |-> Unread, hbPtr |-> Unread,
             mpBlob |-> NoBlob, hbBlob |-> FALSE, behaviours |-> << >>, toRemove |-> << >>, mpWeak |-> 0, hbWeak |-> 0,
             role |-> 0, address |-> FALSE, attempted |-> FALSE, fate |-> g.fate, unready |-> g.unready]
    BY DEF Dropped, NewGame
  <2>5. QED
    BY <1>1, <2>1, <2>4 DEF Games, Flags
<1>4. Attached(h) = {}
  BY <1>1, <1>2 DEF Attached
<1>5. RequestInv(h)
  BY <1>1, <1>2, <1>3, RomFacts DEF RequestInv
<1>6. LifeInv(h)
  BY <1>1, <1>2, <1>4 DEF LifeInv
<1>7. QED
  BY <1>2, <1>4, <1>5, <1>6 DEF WeakInv, KnowsBoth, Follows, Knows

\* The connection after a step, h, under the next state's names.
LEMMA Carry ==
  ASSUME NEW h, rom' = rom, game' = h, RequestInv(h), LifeInv(h), WeakInv(h)
  PROVE  RequestInv(game)' /\ LifeInv(game)' /\ WeakInv(game)'
<1>1. RequestInv(game)'
  BY DEF RequestInv, Games, Permitted, Confirms, AddressesUsable
<1>2. LifeInv(game)'
  BY DEF LifeInv, Attached
<1>3. WeakInv(game)'
  BY DEF WeakInv, Follows, Attached
<1>4. QED
  BY <1>1, <1>2, <1>3

LEMMA RomKept == ASSUME RomInv, UNCHANGED <<rom, offered>> PROVE RomInv'
BY DEF RomInv, Offers

LEMMA UpdateBeginKeeps == GameInv /\ UpdateBegin => GameInv'
<1> SUFFICES ASSUME GameInv, UpdateBegin PROVE GameInv'
  OBVIOUS
<1>1. PICK g : g = game
  OBVIOUS
<1>2. /\ RomInv /\ RequestInv(g) /\ LifeInv(g) /\ g.state # "Disconnected" /\ g.toRemove = << >> /\ KnowsBoth(g)
      /\ g.state = "Awaiting" => g.behaviours = << >>
  BY <1>1 DEF GameInv, UpdateInv, UpdateBegin
<1>3. g \in Games
  BY <1>2 DEF RequestInv
<1>4. PICK accepted : accepted = IF g.state = "Awaiting" THEN AddBehaviour([g EXCEPT !.state = "Connected"], "common") ELSE g
  OBVIOUS
<1>5. accepted.state = "Connected" /\ RequestInv(accepted) /\ LifeInv(accepted) /\ KnowsBoth(accepted)
  <2>1. CASE g.state = "Awaiting"
    <3>1. PICK k : k = [g EXCEPT !.state = "Connected"]
      OBVIOUS
    <3>2. /\ k \in Games /\ k.state = "Connected" /\ k.behaviours = << >> /\ k.fate = g.fate /\ k.sent = g.sent
          /\ k.gf = g.gf /\ k.unready = g.unready
      BY <1>2, <1>3, <2>1, <3>1 DEF Games
    <3>3. Attached(k) = {} /\ Attached(g) = {} /\ Distinct(k.behaviours)
      BY <1>2, <1>3, <2>1, <3>2, AttachedType, EmptyList
    <3>4. RequestInv(k)
      BY <1>2, <2>1, <3>2 DEF RequestInv
    <3>5. LifeInv(k)
      BY <1>2, <3>2, <3>3 DEF LifeInv
    <3>6. accepted = AddBehaviour(k, "common")
      BY <1>4, <2>1, <3>1
    <3>7. /\ accepted \in Games /\ LifeInv(accepted) /\ AskSame(k, accepted)
          /\ \E n \in {1, 2} : Attached(accepted) = Attached(k) \cup {<<"common", n>>}
      BY <3>2, <3>3, <3>5, <3>6, AddBehaviourKeeps
    <3>8. RequestInv(accepted) /\ accepted.state = "Connected"
      BY <3>2, <3>4, <3>7, AskKeeps DEF AskSame
    <3>9. KnowsBoth(accepted)
      BY <3>3, <3>7 DEF KnowsBoth, Knows
    <3>10. QED
      BY <3>7, <3>8, <3>9
  <2>2. CASE g.state # "Awaiting"
    BY <1>2, <1>3, <1>4, <2>2 DEF Games
  <2>3. QED
    BY <2>1, <2>2
<1>6. PICK h : h = IF CanSubmit(accepted) THEN Observe(accepted) ELSE accepted
  OBVIOUS
<1>7. RequestInv(h) /\ Ends(accepted, h)
  <2>1. CASE CanSubmit(accepted)
    BY <1>2, <1>5, <1>6, <2>1, ObserveKeeps
  <2>2. CASE ~CanSubmit(accepted)
    BY <1>5, <1>6, <2>2 DEF Ends, LifeSame
  <2>3. QED
    BY <2>1, <2>2
<1>8. Kept(accepted, h)
  BY <1>5, <1>7, EndsKept
<1>9. /\ LifeInv(h) /\ KnowsBoth(h) /\ WeakInv(h) /\ h.state \in {"Connected", "Disconnected"} /\ h \in Games
  <2>1. LifeInv(h) /\ KnowsBoth(h) /\ h.state \in {"Connected", "Disconnected"}
    BY <1>5, <1>8 DEF Kept, Outcome
  <2>2. WeakInv(h)
    BY <2>1 DEF KnowsBoth, Knows, WeakInv, Follows
  <2>3. QED
    BY <1>7, <2>1, <2>2 DEF RequestInv
<1>10. game' = h /\ todo' = h.behaviours /\ updating' = TRUE /\ UNCHANGED <<rom, offered>>
  BY <1>1, <1>4, <1>6 DEF UpdateBegin
<1>11. RequestInv(game)' /\ LifeInv(game)' /\ WeakInv(game)'
  BY <1>7, <1>9, <1>10, Carry
<1>12. UpdateInv'
  <2>1. todo' \in Seq(Instances) /\ Distinct(todo')
    BY <1>9, <1>10, AttachedType DEF LifeInv
  <2>2. Attached(h) = ToSet(todo')
    BY <1>10 DEF Attached
  <2>3. KnowsBoth(game')
    BY <1>9, <1>10
  <2>4. QED
    BY <1>9, <1>10, <2>1, <2>2, <2>3 DEF UpdateInv, Attached, KnowsBoth, Knows
<1>13. QED
  BY <1>2, <1>10, <1>11, <1>12, RomKept DEF GameInv

LEMMA UpdateBehaviourKeeps == GameInv /\ UpdateBehaviour => GameInv'
<1> SUFFICES ASSUME GameInv, UpdateBehaviour PROVE GameInv'
  OBVIOUS
<1>1. PICK g : g = game
  OBVIOUS
<1>2. PICK list : list = todo
  OBVIOUS
<1>3. /\ RomInv /\ RequestInv(g) /\ LifeInv(g) /\ WeakInv(g) /\ list \in Seq(Instances) /\ Distinct(list)
      /\ g.state # "Disconnected" => ToSet(list) \subseteq Attached(g)
      /\ g.state # "Awaiting"
      /\ (\E b \in ToSet(list) : b[1] = "common") => KnowsBoth(g)
  BY <1>1, <1>2 DEF GameInv, UpdateInv, UpdateBehaviour
<1>4. PICK b : b = Head(list)
  OBVIOUS
<1>5. PICK rest : rest = Tail(list)
  OBVIOUS
<1>6. /\ rest \in Seq(Instances) /\ b \in ToSet(list) /\ ToSet(rest) \subseteq ToSet(list) /\ Distinct(rest)
      /\ \A c \in ToSet(rest) : c[1] # b[1]
  BY <1>2, <1>3, <1>4, <1>5, TailList DEF UpdateBehaviour
<1>7. g \in Games /\ g.state \in {"Connected", "Disconnected"}
  BY <1>3, AttachedType DEF RequestInv
<1>8. PICK h : h = game'
  OBVIOUS
<1>9. /\ Outcome(g, h) /\ WeakInv(h)
      /\ (\E c \in ToSet(rest) : c[1] = "common") => KnowsBoth(h)
  <2>1. CASE MayRun(g, b)
    <3>1. g.state = "Connected" /\ b \in Attached(g)
      BY <1>3, <1>6, <1>7, <2>1 DEF MayRun
    <3>2. h \in OnUpdate(g, b)
      BY <1>1, <1>2, <1>4, <1>8, <2>1 DEF UpdateBehaviour
    <3>3. b[1] = "common" => KnowsBoth(g)
      BY <1>3, <1>6
    <3>4. Outcome(g, h) /\ WeakInv(h) /\ (b[1] # "common" /\ KnowsBoth(g) => KnowsBoth(h))
      BY <1>2, <1>3, <3>1, <3>2, <3>3, OnUpdateKeeps
    <3>5. QED
      BY <1>3, <1>6, <3>4
  <2>2. CASE ~MayRun(g, b)
    <3>1. h = g
      BY <1>1, <1>2, <1>4, <1>8, <2>2 DEF UpdateBehaviour
    <3>2. QED
      BY <1>3, <1>6, <3>1 DEF Outcome
  <2>3. QED
    BY <2>1, <2>2
<1>10. game' = h /\ todo' = rest /\ updating' = updating /\ updating /\ UNCHANGED <<rom, offered>>
  BY <1>2, <1>5, <1>8 DEF UpdateBehaviour
<1>11. RequestInv(game)' /\ LifeInv(game)' /\ WeakInv(game)'
  BY <1>9, <1>10, Carry DEF Outcome
<1>12. UpdateInv'
  <2>1. h.state \in {"Connected", "Disconnected"} /\ (h.state # "Disconnected" => ToSet(rest) \subseteq Attached(h))
    BY <1>3, <1>6, <1>7, <1>9 DEF Outcome
  <2>2. updating \in BOOLEAN
    BY DEF GameInv, UpdateInv
  <2>3. QED
    BY <1>6, <1>9, <1>10, <2>1, <2>2 DEF UpdateInv, Attached, KnowsBoth, Knows
<1>13. QED
  BY <1>3, <1>10, <1>11, <1>12, RomKept DEF GameInv

LEMMA UpdateRemoveKeeps == GameInv /\ UpdateRemove => GameInv'
<1> SUFFICES ASSUME GameInv, UpdateRemove PROVE GameInv'
  OBVIOUS
<1>1. PICK g : g = game
  OBVIOUS
<1>2. /\ RomInv /\ RequestInv(g) /\ LifeInv(g) /\ WeakInv(g) /\ g.toRemove # << >> /\ g.state # "Awaiting"
  BY <1>1 DEF GameInv, UpdateInv, UpdateRemove
<1>3. /\ g \in Games /\ g.behaviours \in Seq(Instances) /\ g.toRemove \in Seq(Instances)
      /\ g.fate \in [Instances -> Fates] /\ Attached(g) \subseteq Instances
  BY <1>2, AttachedType DEF RequestInv
<1>4. PICK c : c = Head(g.toRemove)
  OBVIOUS
<1>5. PICK rest : rest = Tail(g.toRemove)
  OBVIOUS
<1>6. rest \in Seq(Instances) /\ c \in Instances /\ \A b \in ToSet(g.toRemove) : b = c \/ b \in ToSet(rest)
  BY <1>2, <1>3, <1>4, <1>5, TailList
<1>7. PICK k : k = RemoveBehaviourInternal(g, c)
  OBVIOUS
<1>8. PICK h : h = [k EXCEPT !.toRemove = rest]
  OBVIOUS
<1>9. /\ k \in Games /\ AskSame(g, k) /\ LifeInv(k) /\ Attached(k) = Attached(g) \ {c} /\ k.toRemove = g.toRemove
      /\ k.mpWeak = g.mpWeak /\ k.hbWeak = g.hbWeak
  <2>1. CASE c \in Attached(g)
    <3>1. PICK list : list = RemoveFirst(g.behaviours, c)
      OBVIOUS
    <3>2. PICK fates : fates = [g.fate EXCEPT ![c] = "detached"]
      OBVIOUS
    <3>3. list \in Seq(Instances) /\ ToSet(list) = Attached(g) \ {c} /\ Distinct(list)
      BY <1>2, <1>3, <2>1, <3>1, RemoveList DEF Attached, LifeInv
    <3>4. Told(g.fate[c], 1) = "detached"
      BY <1>2, <2>1 DEF LifeInv, Told
    <3>5. k = [g EXCEPT !.behaviours = list, !.fate = fates]
      BY <1>7, <2>1, <3>1, <3>2, <3>4 DEF RemoveBehaviourInternal
    <3>6. /\ fates \in [Instances -> Fates] /\ fates[c] = "detached" /\ \A b \in Instances : b # c => fates[b] = g.fate[b]
      BY <1>3, <1>6, <3>2 DEF Fates
    <3>7. /\ k \in Games /\ AskSame(g, k) /\ k.behaviours = list /\ k.fate = fates /\ k.toRemove = g.toRemove
          /\ k.mpWeak = g.mpWeak /\ k.hbWeak = g.hbWeak
      BY <1>3, <3>3, <3>5, <3>6 DEF Games, AskSame
    <3>8. Attached(k) = Attached(g) \ {c}
      BY <3>3, <3>7 DEF Attached
    <3>9. LifeInv(k)
      <4>1. \A b \in Instances : k.fate[b] \notin {"twice", "late"}
        BY <1>2, <3>6, <3>7 DEF LifeInv
      <4>2. \A b \in Attached(k) : k.fate[b] \in {"attached", "ran"}
        BY <1>2, <1>3, <3>6, <3>7, <3>8 DEF LifeInv
      <4>3. \A b \in Instances : k.fate[b] = "ran" => b \in Attached(k) /\ k.state # "Disconnected"
        BY <1>2, <3>6, <3>7, <3>8 DEF LifeInv, AskSame
      <4>4. QED
        BY <1>2, <3>3, <3>7, <3>8, <4>1, <4>2, <4>3 DEF LifeInv
    <3>10. QED
      BY <3>7, <3>8, <3>9
  <2>2. CASE c \notin Attached(g)
    BY <1>2, <1>3, <1>7, <2>2 DEF RemoveBehaviourInternal, AskSame
  <2>3. QED
    BY <2>1, <2>2
<1>10. /\ h \in Games /\ AskSame(k, h) /\ h.behaviours = k.behaviours /\ h.fate = k.fate /\ h.state = g.state
       /\ h.mpWeak = g.mpWeak /\ h.hbWeak = g.hbWeak /\ h.toRemove = rest
  BY <1>6, <1>8, <1>9 DEF Games, AskSame
<1>11. LifeInv(h) /\ Attached(h) = Attached(g) \ {c}
  BY <1>9, <1>10, RemovingKeeps DEF AskSame
<1>12. RequestInv(h)
  BY <1>2, <1>9, <1>10, AskKeeps DEF AskSame
<1>13. WeakInv(h)
  BY <1>2, <1>6, <1>10, <1>11 DEF WeakInv, Follows
<1>14. game' = h /\ todo' = << >> /\ updating /\ updating' = updating /\ UNCHANGED <<rom, offered>>
  BY <1>1, <1>4, <1>5, <1>7, <1>8, <1>9 DEF UpdateRemove
<1>15. RequestInv(game)' /\ LifeInv(game)' /\ WeakInv(game)'
  BY <1>11, <1>12, <1>13, <1>14, Carry
<1>16. UpdateInv'
  <2>1. updating \in BOOLEAN
    BY DEF GameInv, UpdateInv
  <2>2. ToSet(<< >>) = {} /\ Distinct(<< >>) /\ << >> \in Seq(Instances)
    BY EmptyList
  <2>3. QED
    BY <1>2, <1>10, <1>14, <2>1, <2>2 DEF UpdateInv
<1>17. QED
  BY <1>2, <1>14, <1>15, <1>16, RomKept DEF GameInv

\* Between two updates.
LEMMA IdleKeeps ==
  ASSUME RomInv', rom' = rom, todo' = << >>, updating' = FALSE, NEW h, game' = h,
         RequestInv(h), LifeInv(h), KnowsBoth(h), h.toRemove = << >>, h.state = "Awaiting" => h.behaviours = << >>
  PROVE  GameInv'
<1>1. WeakInv(h)
  BY DEF KnowsBoth, Knows, WeakInv, Follows
<1>2. RequestInv(game)' /\ LifeInv(game)' /\ WeakInv(game)'
  BY <1>1, Carry
<1>3. UpdateInv'
  <2>1. ToSet(<< >>) = {} /\ Distinct(<< >>) /\ << >> \in Seq(Instances)
    BY EmptyList
  <2>2. QED
    BY <2>1 DEF UpdateInv, KnowsBoth, Knows, Attached
<1>4. QED
  BY <1>2, <1>3 DEF GameInv

LEMMA IdleFacts ==
  ASSUME GameInv, ~updating, NEW g, g = game
  PROVE  /\ RomInv /\ RequestInv(g) /\ LifeInv(g) /\ KnowsBoth(g) /\ g \in Games
         /\ g.toRemove = << >> /\ todo = << >> /\ updating = FALSE
         /\ g.state = "Awaiting" => g.behaviours = << >>
BY DEF GameInv, UpdateInv, RequestInv

LEMMA SettledKeeps ==
  ASSUME RomInv, NEW g, RequestInv(g), LifeInv(g), KnowsBoth(g), g.toRemove = << >> \/ g.state = "Disconnected",
         NEW h, h = Settled(g)
  PROVE  /\ RequestInv(h) /\ LifeInv(h) /\ KnowsBoth(h) /\ h.toRemove = << >>
         /\ h.state = g.state /\ (g.state # "Disconnected" => h = g)
<1>1. g \in Games /\ (AddressesUsable => ~g.unready)
  BY DEF RequestInv
<1>2. CASE g.state = "Disconnected"
  BY <1>1, <1>2, DroppedKeeps DEF Settled
<1>3. CASE g.state # "Disconnected"
  BY <1>3 DEF Settled
<1>4. QED
  BY <1>2, <1>3

LEMMA UpdateEndKeeps == GameInv /\ UpdateEnd => GameInv'
<1> SUFFICES ASSUME GameInv, UpdateEnd PROVE GameInv'
  OBVIOUS
<1>1. PICK g : g = game
  OBVIOUS
<1>2. /\ RomInv /\ RequestInv(g) /\ LifeInv(g) /\ WeakInv(g) /\ g.toRemove = << >> /\ g.state # "Awaiting"
  BY <1>1 DEF GameInv, UpdateInv, UpdateEnd
<1>3. /\ g \in Games /\ g.fate \in [Instances -> Fates] /\ Attached(g) \subseteq Instances
  BY <1>2, AttachedType DEF RequestInv
<1>4. KnowsBoth(g)
  BY <1>2, EmptyList DEF WeakInv, Follows, KnowsBoth, Knows
<1>5. PICK gone : gone = Instances \ Attached(g)
  OBVIOUS
<1>6. PICK fates : fates = [b \in Instances |-> IF b \in gone /\ g.fate[b] \in {"attached", "detached"} THEN "none" ELSE g.fate[b]]
  OBVIOUS
<1>7. PICK mpWeak : mpWeak = IF <<"mp", g.mpWeak>> \in gone THEN 0 ELSE g.mpWeak
  OBVIOUS
<1>8. PICK hbWeak : hbWeak = IF <<"hb", g.hbWeak>> \in gone THEN 0 ELSE g.hbWeak
  OBVIOUS
<1>9. PICK mpGone \in BOOLEAN : mpGone = \A n \in {1, 2} : <<"mp", n>> \in gone
  OBVIOUS
<1>10. PICK k : k = Forget(g)
  OBVIOUS
<1>11. PICK role \in Flags, address \in BOOLEAN, attempted \in BOOLEAN :
         k = [g EXCEPT !.fate = fates, !.mpWeak = mpWeak, !.hbWeak = hbWeak, !.role = role,
                       !.address = address, !.attempted = attempted]
  <2>1. /\ (IF mpGone THEN 0 ELSE g.role) \in Flags
        /\ (g.address /\ ~mpGone) \in BOOLEAN /\ (g.attempted /\ ~mpGone) \in BOOLEAN
    BY <1>3 DEF Games, Flags
  <2>2. k = [g EXCEPT !.fate = fates, !.mpWeak = mpWeak, !.hbWeak = hbWeak, !.role = IF mpGone THEN 0 ELSE g.role,
                      !.address = (g.address /\ ~mpGone), !.attempted = (g.attempted /\ ~mpGone)]
    BY <1>5, <1>6, <1>7, <1>8, <1>9, <1>10 DEF Forget
  <2>3. QED
    BY <2>1, <2>2
<1>12. /\ fates \in [Instances -> Fates]
       /\ \A b \in Instances : fates[b] = IF b \in gone /\ g.fate[b] \in {"attached", "detached"} THEN "none" ELSE g.fate[b]
  BY <1>3, <1>6 DEF Fates
<1>13. /\ k \in Games /\ AskSame(g, k) /\ k.behaviours = g.behaviours /\ k.toRemove = g.toRemove
       /\ k.fate = fates /\ k.mpWeak = mpWeak /\ k.hbWeak = hbWeak
  <2>1. mpWeak \in {0, 1, 2} /\ hbWeak \in {0, 1, 2}
    BY <1>3, <1>7, <1>8 DEF Games
  <2>2. role \in Flags /\ address \in BOOLEAN /\ attempted \in BOOLEAN
    BY <1>11
  <2>3. PICK told : told = [g EXCEPT !.fate = fates]
    OBVIOUS
  <2>4. /\ told \in Games /\ AskSame(g, told) /\ told.fate = fates
        /\ told.behaviours = g.behaviours /\ told.toRemove = g.toRemove
    BY <1>3, <1>12, <2>3 DEF Games, AskSame
  <2>5. PICK mp : mp = [told EXCEPT !.mpWeak = mpWeak]
    OBVIOUS
  <2>6. /\ mp \in Games /\ AskSame(told, mp) /\ mp.fate = told.fate /\ mp.mpWeak = mpWeak
        /\ mp.behaviours = told.behaviours /\ mp.toRemove = told.toRemove
    BY <2>1, <2>4, <2>5, WeakChanged
  <2>7. PICK hb : hb = [mp EXCEPT !.hbWeak = hbWeak]
    OBVIOUS
  <2>8. /\ hb \in Games /\ AskSame(mp, hb) /\ hb.fate = mp.fate /\ hb.hbWeak = hbWeak /\ hb.mpWeak = mp.mpWeak
        /\ hb.behaviours = mp.behaviours /\ hb.toRemove = mp.toRemove
    BY <2>1, <2>6, <2>7, WeakChanged
  <2>9. k = WithRole(hb, role, address, attempted)
    BY <1>11, <2>3, <2>5, <2>7 DEF WithRole
  <2>10. /\ k \in Games /\ AskSame(hb, k) /\ k.fate = hb.fate /\ k.hbWeak = hb.hbWeak /\ k.mpWeak = hb.mpWeak
         /\ k.behaviours = hb.behaviours /\ k.toRemove = hb.toRemove
    <3>1. hb \in Games
      BY <2>8
    <3>2. QED
      BY <2>2, <2>9, <3>1, RoleChanged, SMTT(30)
  <2>11. QED
    BY <2>4, <2>6, <2>8, <2>10 DEF AskSame
<1>14. Attached(k) = Attached(g)
  BY <1>13 DEF Attached
<1>15. RequestInv(k)
  BY <1>2, <1>13, AskKeeps
<1>16. LifeInv(k)
  <2>1. \A b \in Instances : k.fate[b] \notin {"twice", "late"}
    BY <1>2, <1>12, <1>13 DEF LifeInv
  <2>2. \A b \in Attached(k) : k.fate[b] \in {"attached", "ran"}
    BY <1>2, <1>3, <1>5, <1>12, <1>13, <1>14 DEF LifeInv
  <2>3. \A b \in Instances : k.fate[b] = "ran" => b \in Attached(k) /\ k.state # "Disconnected"
    BY <1>2, <1>12, <1>13, <1>14 DEF LifeInv, AskSame
  <2>4. QED
    BY <1>2, <1>13, <1>14, <2>1, <2>2, <2>3 DEF LifeInv
<1>17. KnowsBoth(k)
  BY <1>4, <1>5, <1>7, <1>8, <1>13, <1>14 DEF KnowsBoth, Knows
<1>18. PICK h : h = Settled(k)
  OBVIOUS
<1>19. RequestInv(h) /\ LifeInv(h) /\ KnowsBoth(h) /\ h.toRemove = << >> /\ h.state = k.state
  BY <1>2, <1>13, <1>15, <1>16, <1>17, <1>18, SettledKeeps
<1>20. game' = h /\ todo' = << >> /\ updating' = FALSE /\ UNCHANGED <<rom, offered>>
  BY <1>1, <1>10, <1>18 DEF UpdateEnd
<1>21. h.state # "Awaiting"
  BY <1>2, <1>13, <1>19 DEF AskSame
<1>22. QED
  BY <1>2, <1>19, <1>20, <1>21, IdleKeeps, RomKept

LEMMA ProvideAddressKeeps == GameInv /\ ProvideAddress => GameInv'
<1> SUFFICES ASSUME GameInv, ProvideAddress PROVE GameInv'
  OBVIOUS
<1>1. PICK g : g = game
  OBVIOUS
<1>2. /\ RomInv /\ RequestInv(g) /\ LifeInv(g) /\ KnowsBoth(g) /\ g \in Games /\ g.toRemove = << >>
      /\ todo = << >> /\ updating = FALSE /\ (g.state = "Awaiting" => g.behaviours = << >>)
  BY <1>1, IdleFacts DEF ProvideAddress
<1>3. PICK h : h = [g EXCEPT !.address = TRUE]
  OBVIOUS
<1>4. /\ h \in Games /\ AskSame(g, h) /\ h.behaviours = g.behaviours /\ h.fate = g.fate /\ h.state = g.state
      /\ h.toRemove = g.toRemove /\ h.mpWeak = g.mpWeak /\ h.hbWeak = g.hbWeak
  BY <1>2, <1>3 DEF Games, AskSame
<1>5. RequestInv(h) /\ LifeInv(h) /\ Attached(h) = Attached(g)
  BY <1>2, <1>4, AskKeeps, RemovingKeeps
<1>6. KnowsBoth(h)
  BY <1>2, <1>4, <1>5 DEF KnowsBoth, Knows
<1>7. game' = h /\ todo' = << >> /\ updating' = FALSE /\ UNCHANGED <<rom, offered>>
  BY <1>1, <1>2, <1>3 DEF ProvideAddress
<1>8. QED
  BY <1>2, <1>4, <1>5, <1>6, <1>7, IdleKeeps, RomKept

\* A connection that is closed is dropped.
LEMMA ClosedKeeps ==
  ASSUME RomInv, NEW g \in Games, LifeInv(g), AddressesUsable => ~g.unready, NEW h, h = Dropped(Disconnect(g))
  PROVE  /\ RequestInv(h) /\ LifeInv(h) /\ KnowsBoth(h) /\ h.state = "Disconnected" /\ h.toRemove = << >>
<1>1. PICK k : k = Disconnect(g)
  OBVIOUS
<1>2. k \in Games /\ k.state = "Disconnected" /\ k.unready = g.unready
  BY <1>1, DisconnectIs
<1>3. Ends(g, k)
  BY <1>1 DEF Ends, LifeSame
<1>4. LifeInv(k)
  BY <1>2, <1>3, LifeEnds
<1>5. h = Dropped(k)
  BY <1>1
<1>6. QED
  BY <1>2, <1>4, <1>5, DroppedKeeps

LEMMA LoseKeeps == GameInv /\ Lose => GameInv'
<1> SUFFICES ASSUME GameInv, Lose PROVE GameInv'
  OBVIOUS
<1>1. PICK g : g = game
  OBVIOUS
<1>2. RomInv /\ RequestInv(g) /\ LifeInv(g) /\ g \in Games /\ todo = << >> /\ updating = FALSE
  BY <1>1, IdleFacts DEF Lose
<1>3. AddressesUsable => ~g.unready
  BY <1>2 DEF RequestInv
<1>4. PICK h : h = Dropped(Disconnect(g))
  OBVIOUS
<1>5. RequestInv(h) /\ LifeInv(h) /\ KnowsBoth(h) /\ h.state = "Disconnected" /\ h.toRemove = << >>
  BY <1>2, <1>3, <1>4, ClosedKeeps
<1>6. game' = h /\ todo' = << >> /\ updating' = FALSE /\ UNCHANGED <<rom, offered>>
  BY <1>1, <1>2, <1>4 DEF Lose
<1>7. QED
  BY <1>2, <1>5, <1>6, IdleKeeps, RomKept

LEMMA AnswerKeeps == GameInv /\ Answer => GameInv'
<1> SUFFICES ASSUME GameInv, Answer PROVE GameInv'
  OBVIOUS
<1>1. PICK g : g = game
  OBVIOUS
<1>2. /\ RomInv /\ RequestInv(g) /\ LifeInv(g) /\ KnowsBoth(g) /\ g \in Games /\ g.toRemove = << >>
      /\ todo = << >> /\ updating = FALSE /\ (g.state = "Awaiting" => g.behaviours = << >>) /\ g.sent # << >>
  BY <1>1, IdleFacts DEF Answer
<1>3. g.state # "Disconnected" /\ (AddressesUsable => ~g.unready)
  BY <1>2 DEF RequestInv
<1>4. PICK rest : rest = Tail(g.sent)
  OBVIOUS
<1>5. /\ rest \in Seq(Requests) /\ Len(rest) <= MaxOutstanding
      /\ \A i \in 1..Len(rest) : i + 1 \in 1..Len(g.sent) /\ rest[i] = g.sent[i + 1]
  <2>1. g.sent \in Seq(Requests) /\ Len(g.sent) <= MaxOutstanding /\ MaxOutstanding \in Nat
    BY <1>2, RomFacts, AttachedType DEF RequestInv
  <2>2. QED
    BY <1>2, <1>4, <2>1
<1>6. PICK answered : answered = [g EXCEPT !.sent = rest]
  OBVIOUS
<1>7. /\ answered \in Games /\ answered.sent = rest /\ answered.state = g.state /\ answered.gf = g.gf
      /\ answered.unready = g.unready /\ answered.behaviours = g.behaviours /\ answered.fate = g.fate
      /\ answered.toRemove = << >> /\ answered.mpWeak = g.mpWeak /\ answered.hbWeak = g.hbWeak
  BY <1>2, <1>5, <1>6 DEF Games
<1>8. RequestInv(answered)
  <2>1. ASSUME NEW i \in 1..Len(rest)
        PROVE  Permitted(rest[i].kind) /\ Confirms(rest[i].kind, rest[i].address, rest[i].size) /\ ValidRequest(rest[i])
    <3>1. i + 1 \in 1..Len(g.sent) /\ rest[i] = g.sent[i + 1]
      BY <1>5
    <3>2. QED
      BY <1>2, <3>1 DEF RequestInv
  <2>2. QED
    BY <1>2, <1>3, <1>5, <1>7, <2>1 DEF RequestInv
<1>9. LifeInv(answered) /\ Attached(answered) = Attached(g)
  BY <1>2, <1>7, RemovingKeeps
<1>10. KnowsBoth(answered)
  BY <1>2, <1>7, <1>9 DEF KnowsBoth, Knows
<1>11. ASSUME NEW k \in Games, k.state = g.state, k.sent = rest, k.gf = g.gf \/ rom.handshake, k.unready = g.unready,
              k.behaviours = g.behaviours, k.fate = g.fate, k.toRemove = << >>, k.mpWeak = g.mpWeak, k.hbWeak = g.hbWeak
       PROVE  RequestInv(k) /\ LifeInv(k) /\ KnowsBoth(k)
  <2>1. RequestInv(k)
    BY <1>3, <1>7, <1>8, <1>11 DEF RequestInv
  <2>2. LifeInv(k) /\ Attached(k) = Attached(g)
    BY <1>2, <1>11, RemovingKeeps
  <2>3. QED
    BY <1>2, <1>11, <2>1, <2>2 DEF KnowsBoth, Knows
<1>12. PICK h : h = game'
  OBVIOUS
<1>13. /\ todo' = << >> /\ updating' = FALSE /\ UNCHANGED <<rom, offered>> /\ game' = h
       /\ (\E kind : h = Settled(OnResult(answered, kind))) \/ h = Dropped(Disconnect(answered))
  BY <1>1, <1>2, <1>4, <1>6, <1>12 DEF Answer
<1>14. /\ RequestInv(h) /\ LifeInv(h) /\ KnowsBoth(h) /\ h.toRemove = << >>
       /\ h.state = "Awaiting" => h.behaviours = << >>
  <2>1. CASE h = Dropped(Disconnect(answered))
    BY <1>2, <1>3, <1>7, <1>9, <2>1, ClosedKeeps
  <2>2. ASSUME NEW k, RequestInv(k), LifeInv(k), KnowsBoth(k), k.state = g.state, k.behaviours = g.behaviours,
               k.toRemove = << >>, h = Settled(k)
        PROVE  /\ RequestInv(h) /\ LifeInv(h) /\ KnowsBoth(h) /\ h.toRemove = << >>
               /\ h.state = "Awaiting" => h.behaviours = << >>
    <3>1. RequestInv(h) /\ LifeInv(h) /\ KnowsBoth(h) /\ h = k
      BY <1>2, <1>3, <2>2, SettledKeeps
    <3>2. QED
      BY <1>2, <2>2, <3>1
  <2>3. ASSUME NEW kind, h = Settled(OnResult(answered, kind))
        PROVE  /\ RequestInv(h) /\ LifeInv(h) /\ KnowsBoth(h) /\ h.toRemove = << >>
               /\ h.state = "Awaiting" => h.behaviours = << >>
    <3>1. PICK k : k = OnResult(answered, kind)
      OBVIOUS
    <3>2. CASE kind = "gf" /\ ~rom.handshake
      <4>1. PICK read : read = [answered EXCEPT !.gf = TRUE]
        OBVIOUS
      <4>2. /\ read \in Games /\ read.state = g.state /\ read.behaviours = g.behaviours /\ read.fate = g.fate
            /\ read.unready = g.unready
        BY <1>7, <4>1 DEF Games
      <4>3. LifeInv(read)
        BY <1>2, <4>2, RemovingKeeps
      <4>4. k = Disconnect(read)
        BY <3>1, <3>2, <4>1 DEF OnResult, OnHeader
      <4>5. k.state = "Disconnected"
        BY <4>2, <4>4, DisconnectIs
      <4>6. h = Dropped(Disconnect(read))
        BY <2>3, <3>1, <4>4, <4>5 DEF Settled
      <4>7. QED
        BY <1>2, <1>3, <4>2, <4>3, <4>6, ClosedKeeps
    <3>3. CASE ~(kind = "gf" /\ ~rom.handshake)
      <4>1. /\ offered.mp \in {Null, rom.mpState} /\ offered.hb \in {Null, rom.hbState} /\ offered.flags \in Flags
        BY <1>2, RomFacts DEF Offers
      <4>2. kind = "gf" => k = [answered EXCEPT !.gf = TRUE] /\ rom.handshake
        BY <3>1, <3>3 DEF OnResult, OnHeader
      <4>3. CASE k = [answered EXCEPT !.gf = TRUE] /\ kind = "gf"
        <5>1. /\ k \in Games /\ k.state = g.state /\ k.sent = rest /\ rom.handshake /\ k.unready = g.unready
              /\ k.behaviours = g.behaviours /\ k.fate = g.fate
              /\ k.toRemove = << >> /\ k.mpWeak = g.mpWeak /\ k.hbWeak = g.hbWeak
          BY <1>7, <4>2, <4>3 DEF Games
        <5>2. RequestInv(k) /\ LifeInv(k) /\ KnowsBoth(k)
          BY <1>11, <5>1
        <5>3. QED
          BY <2>2, <2>3, <3>1, <5>1, <5>2
      <4>4. CASE kind # "gf"
        <5>1. k \in { answered, [answered EXCEPT !.rh = TRUE],
                      [answered EXCEPT !.mpPtr = offered.mp], [answered EXCEPT !.mpBlob = offered.flags],
                      [answered EXCEPT !.hbPtr = offered.hb], [answered EXCEPT !.hbBlob = TRUE] }
          BY <3>1, <4>4 DEF OnResult
        <5>2. /\ k \in Games /\ k.state = g.state /\ k.sent = rest /\ k.gf = g.gf /\ k.unready = g.unready
              /\ k.behaviours = g.behaviours /\ k.fate = g.fate
              /\ k.toRemove = << >> /\ k.mpWeak = g.mpWeak /\ k.hbWeak = g.hbWeak
          <6>1. /\ answered.state = g.state /\ answered.sent = rest /\ answered.gf = g.gf
                /\ answered.unready = g.unready /\ answered.behaviours = g.behaviours /\ answered.fate = g.fate
                /\ answered.toRemove = << >> /\ answered.mpWeak = g.mpWeak /\ answered.hbWeak = g.hbWeak
            BY <1>7
          <6>2. k \in Games
            <7>1. answered \in Games
              BY <1>7
            <7>2. [answered EXCEPT !.rh = TRUE] \in Games /\ [answered EXCEPT !.hbBlob = TRUE] \in Games
              BY <7>1, Zenon DEF Games
            <7>3. [answered EXCEPT !.mpPtr = offered.mp] \in Games
              BY <7>1, <4>1, Zenon DEF Games
            <7>4. [answered EXCEPT !.hbPtr = offered.hb] \in Games
              BY <7>1, <4>1, Zenon DEF Games
            <7>5. [answered EXCEPT !.mpBlob = offered.flags] \in Games
              BY <7>1, <4>1 DEF Games
            <7>6. QED
              BY <5>1, <7>1, <7>2, <7>3, <7>4, <7>5
          <6>3. /\ k.state = answered.state /\ k.sent = answered.sent /\ k.gf = answered.gf
                /\ k.unready = answered.unready
            BY <1>7, <5>1 DEF Games
          <6>4. /\ k.behaviours = answered.behaviours /\ k.fate = answered.fate /\ k.toRemove = answered.toRemove
                /\ k.mpWeak = answered.mpWeak /\ k.hbWeak = answered.hbWeak
            BY <1>7, <5>1 DEF Games
          <6>5. QED
            BY <6>1, <6>2, <6>3, <6>4
        <5>3. RequestInv(k) /\ LifeInv(k) /\ KnowsBoth(k)
          BY <1>11, <5>2
        <5>4. QED
          BY <2>2, <2>3, <3>1, <5>2, <5>3
      <4>5. QED
        BY <4>2, <4>3, <4>4
    <3>4. QED
      BY <3>2, <3>3
  <2>4. QED
    BY <1>13, <2>1, <2>3
<1>15. QED
  BY <1>2, <1>13, <1>14, IdleKeeps, RomKept

LEMMA OfferKeeps == GameInv /\ Offer => GameInv'
<1> SUFFICES ASSUME GameInv, Offer PROVE GameInv'
  OBVIOUS
<1>1. PICK h : h = game
  OBVIOUS
<1>2. /\ RomInv /\ RequestInv(h) /\ LifeInv(h) /\ KnowsBoth(h) /\ h.toRemove = << >>
      /\ todo = << >> /\ updating = FALSE /\ (h.state = "Awaiting" => h.behaviours = << >>)
  BY <1>1, IdleFacts DEF Offer
<1>3. RomInv'
  <2>1. rom \in Roms /\ offered \in Offers /\ rom' = rom
    BY <1>2 DEF RomInv, Offer
  <2>2. offered' \in Offers
    BY <2>1 DEF Offer, Offers
  <2>3. QED
    BY <2>1, <2>2 DEF RomInv, Offers
<1>4. rom' = rom /\ game' = h /\ todo' = << >> /\ updating' = FALSE
  BY <1>1, <1>2 DEF Offer
<1>5. QED
  BY <1>2, <1>3, <1>4, IdleKeeps

LEMMA UnchangedKeeps == GameInv /\ UNCHANGED vars => GameInv'
<1> SUFFICES ASSUME GameInv, UNCHANGED vars PROVE GameInv'
  OBVIOUS
<1>1. rom' = rom /\ offered' = offered /\ game' = game /\ todo' = todo /\ updating' = updating
  BY DEF vars
<1>2. RomInv' /\ UpdateInv'
  BY <1>1 DEF GameInv, RomInv, Offers, UpdateInv, Attached, KnowsBoth, Knows
<1>3. PICK h : h = game
  OBVIOUS
<1>4. RequestInv(h) /\ LifeInv(h) /\ WeakInv(h) /\ game' = h
  BY <1>1, <1>3 DEF GameInv
<1>5. RequestInv(game)' /\ LifeInv(game)' /\ WeakInv(game)'
  BY <1>1, <1>4, Carry
<1>6. QED
  BY <1>2, <1>5 DEF GameInv

LEMMA InitIsGood == Init => GameInv
<1> SUFFICES ASSUME Init PROVE GameInv
  OBVIOUS
<1>1. RomInv
  BY DEF Init, RomInv
<1>2. /\ << >> \in Seq(Requests) /\ << >> \in Seq(Instances) /\ ToSet(<< >>) = {} /\ Distinct(<< >>) /\ Len(<< >>) = 0
  BY EmptyList
<1>3. PICK none : none = [b \in Instances |-> "none"]
  OBVIOUS
<1>4. none \in [Instances -> Fates] /\ \A b \in Instances : none[b] = "none"
  BY <1>3 DEF Fates
<1>5. game = [state |-> "Awaiting", sent |-> << >>, gf |-> FALSE, rh |-> FALSE, mpPtr |-> Unread, hbPtr |-> Unread,
              mpBlob |-> NoBlob, hbBlob |-> FALSE, behaviours |-> << >>, toRemove |-> << >>, mpWeak |-> 0, hbWeak |-> 0,
              role |-> 0, address |-> FALSE, attempted |-> FALSE, fate |-> none, unready |-> FALSE]
  BY <1>3 DEF Init, NewGame
<1>6. /\ game \in Games /\ game.state = "Awaiting" /\ game.sent = << >> /\ game.behaviours = << >> /\ game.toRemove = << >>
      /\ game.fate = none /\ ~game.gf /\ ~game.unready
  BY <1>2, <1>4, <1>5 DEF Games, Flags
<1>7. Attached(game) = {}
  BY <1>2, <1>6 DEF Attached
<1>8. RequestInv(game)
  BY <1>1, <1>2, <1>6, RomFacts DEF RequestInv
<1>9. LifeInv(game)
  BY <1>2, <1>4, <1>6, <1>7 DEF LifeInv
<1>10. WeakInv(game) /\ KnowsBoth(game)
  BY <1>7 DEF WeakInv, KnowsBoth, Follows, Knows
<1>11. UpdateInv
  BY <1>2, <1>6, <1>10 DEF Init, UpdateInv
<1>12. QED
  BY <1>1, <1>8, <1>9, <1>10, <1>11 DEF GameInv

-----------------------------------------------------------------------------
(* The properties. *)

\* The inductive invariant: what a request that is under way may be
\* (GameMemoryTransport.cpp, ObservedGameMemory.cpp), and how the list of
\* behaviours, the copy that Update walks through, the list of removals and
\* CommonBehaviour's weak pointers hang together (GameConnection.cpp).
THEOREM GameInvHolds == Spec => []GameInv
<1>1. GameInv /\ [Next]_vars => GameInv'
  <2> SUFFICES ASSUME GameInv, [Next]_vars PROVE GameInv'
    OBVIOUS
  <2>1. CASE UpdateBegin
    BY <2>1, UpdateBeginKeeps
  <2>2. CASE UpdateBehaviour
    BY <2>2, UpdateBehaviourKeeps
  <2>3. CASE UpdateRemove
    BY <2>3, UpdateRemoveKeeps
  <2>4. CASE UpdateEnd
    BY <2>4, UpdateEndKeeps
  <2>5. CASE ProvideAddress
    BY <2>5, ProvideAddressKeeps
  <2>6. CASE Lose
    BY <2>6, LoseKeeps
  <2>7. CASE Answer
    BY <2>7, AnswerKeeps
  <2>8. CASE Offer
    BY <2>8, OfferKeeps
  <2>9. CASE UNCHANGED vars
    BY <2>9, UnchangedKeeps
  <2>10. QED
    BY <2>1, <2>2, <2>3, <2>4, <2>5, <2>6, <2>7, <2>8, <2>9 DEF Next, Worker, Environment, Terminated
<1>2. QED
  BY <1>1, InitIsGood, PTL DEF Spec

\* Every field of the connection keeps its type, in particular the queue of
\* requests its limit (GameSession::Submit) and a request its 32-bit address.
THEOREM TypeHolds == Spec => []TypeOK
<1>1. GameInv => TypeOK
  <2> SUFFICES ASSUME GameInv PROVE TypeOK
    OBVIOUS
  <2>1. RomInv /\ RequestInv(game) /\ game \in Games /\ UpdateInv
    BY DEF GameInv, RequestInv
  <2>2. {Unread, Null, rom.mpState} \subseteq 0..Unread /\ {Unread, Null, rom.hbState} \subseteq 0..Unread
    BY <2>1, RomFacts DEF Unread, Null, Addresses
  <2>3. game.mpPtr \in 0..Unread /\ game.hbPtr \in 0..Unread
    BY <2>1, <2>2 DEF Games
  <2>4. game.sent \in Seq([kind : RequestKinds, address : 0..(AddressLimit - 1), size : 0..PayloadLimit])
    BY <2>1 DEF Games, Requests, Addresses
  <2>5. QED
    BY <2>1, <2>3, <2>4 DEF TypeOK, RomInv, RequestInv, UpdateInv, Games
<1>2. QED
  BY <1>1, GameInvHolds, PTL

\* Whatever the headers of a ROM say, what the app asks for of the game is
\* permitted and inside the memory map, byte for byte (ValidateMemoryRequest,
\* and the checks that ObservedGameMemory and the behaviours make before).
THEOREM RequestsAreAllowed == Spec => []RequestsAllowed
<1>1. GameInv => RequestsAllowed
  <2> SUFFICES ASSUME GameInv, NEW i \in DOMAIN game.sent
               PROVE  LET r == game.sent[i] IN
                      /\ r.kind # "gf" => rom.handshake
                      /\ r.kind \notin Reads => rom.api /\ rom.edition
                      /\ r.kind = "confirm" => r.address = rom.assistantState + rom.assistantConfirmOffset /\ r.size <= WordSize
                      /\ \A k \in 0..(r.size - 1) :
                           (r.address + k) % AddressLimit \in Bytes(IF r.kind \in Reads THEN Readable ELSE Writable)
    BY DEF RequestsAllowed
  <2>1. RomInv /\ RequestInv(game) /\ game.sent \in Seq(Requests)
    BY AttachedType DEF GameInv, RequestInv
  <2>2. i \in 1..Len(game.sent)
    BY <2>1
  <2>3. PICK r : r = game.sent[i]
    OBVIOUS
  <2>4. r \in Requests /\ Permitted(r.kind) /\ Confirms(r.kind, r.address, r.size) /\ ValidRequest(r)
    BY <2>1, <2>2, <2>3 DEF RequestInv
  <2>5. PICK ranges : ranges = IF r.kind \in Reads THEN Readable ELSE Writable
    OBVIOUS
  <2>6. IsRangeAllowed(r.address, r.size, ranges)
    BY <2>4, <2>5 DEF ValidRequest
  <2>7. \A c \in ranges : c[1] \in Nat /\ c[2] \in Nat
    BY <2>1, <2>5, RomFacts
  <2>8. r.address \in Nat /\ r.size \in Nat
    BY <2>4 DEF Requests, Addresses
  <2>9. ASSUME NEW k \in 0..(r.size - 1) PROVE (r.address + k) % AddressLimit \in Bytes(ranges)
    <3>1. k \in Nat /\ k < r.size
      BY <2>8
    <3>2. QED
      BY <2>6, <2>7, <2>8, <3>1, AcceptedBytesAllowed
  <2>10. QED
    BY <2>3, <2>4, <2>5, <2>9 DEF Permitted, Confirms
<1>2. QED
  BY <1>1, GameInvHolds, PTL

\* The assertion in ReadRequest and WriteRequest (GameConnection.cpp): nothing is
\* asked of a game that is not connected, unless an address in the ROM was refused.
THEOREM OnlyWhenReady == Spec => []RequestsWhenReady
<1>1. GameInv => RequestsWhenReady
  BY DEF GameInv, RequestInv, RequestsWhenReady
<1>2. QED
  BY <1>1, GameInvHolds, PTL

\* GameConnection::Update, RemoveBehaviourInternal and Disconnect: a behaviour
\* that has run is told once that it is detached, and does not run afterwards.
THEOREM DetachesOnce == Spec => []DetachedOnce
<1>1. GameInv => DetachedOnce
  BY DEF GameInv, LifeInv, DetachedOnce
<1>2. QED
  BY <1>1, GameInvHolds, PTL

\* CommonBehaviour::OnUpdate attaches no second behaviour of a kind, although a
\* behaviour may also ask for its own removal and the weak pointer outlives it.
THEOREM OneOfEach == Spec => []OneOfAKind
<1>1. GameInv => OneOfAKind
  BY DEF GameInv, LifeInv, Distinct, OneOfAKind
<1>2. QED
  BY <1>1, GameInvHolds, PTL
=============================================================================
