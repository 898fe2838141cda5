----------------------- MODULE GuestAppBackdoor_proofs -----------------------
(***************************************************************************)
(* The packing, clipboard and device-loop contracts of guestApp.c, for     *)
(* every register width HalfW >= 8 and every set of inputs.                *)
(*                                                                         *)
(* None of the four properties is inductive as it stands: each speaks of   *)
(* the last result of a call, while the step that produces it reads state  *)
(* an earlier step left.  BackdoorInv adds what those steps rely on: the   *)
(* host's pointer word is the packing of what it latched, a copy's piece   *)
(* count is the rounded-up size of a non-negative length, and the device   *)
(* loop's uint16 offset counts its pieces.                                 *)
(***************************************************************************)
EXTENDS GuestAppBackdoor, TLAPS

\* The host's pointer word is what put it there, packed.
PtrLatched ==
  /\ hostWho = Ungrabbed => hostPtr = UngrabbedWord
  /\ hostWho # Ungrabbed => hostPtr = Pack(hostWho[1], hostWho[2])

\* GuestApp_GetHostSelection was called with a length below 2^31, and its
\* loop fetches (size + 3) / 4 pieces; a return has fetched them all.
SelCounted ==
  /\ selSize < Word \div 2
  /\ selEnd = (selSize + 3) \div 4
  /\ selDone => selRead = selEnd

\* The device loop's offset is 4 per piece fetched, never wraps, and a TRUE
\* return left it at or past sizeof *info.
DevCounted ==
  /\ offset = 4 * fetched
  /\ offset <= InfoSize + 3
  /\ devRet /\ devPc = "idle" => offset >= InfoSize

BackdoorInv ==
  /\ TypeOK
  /\ PtrLatched
  /\ PosRoundTrip
  /\ RequestDecodes
  /\ SelCounted
  /\ DevCounted

-----------------------------------------------------------------------------
(* Register arithmetic.                                                    *)

USE BackdoorAssumption, HalfAssumption DEF Word, HighBit

\* A uint32 is two uint16 halves; 0x80000000 is 0x8000 halves up.
LEMMA WordFacts ==
  /\ Word \in Nat /\ Word >= 65536
  /\ Word \div 2 = Half * (Half \div 2)
  /\ HighBit >= Half
<1>1. Half * Half >= 256 * 256
  OBVIOUS
<1>2. Half * (Half \div 2) * 2 = Half * Half
  OBVIOUS
<1>3. QED
  BY <1>1, <1>2

\* q * 2^16 + r with r a uint16 splits back into q and r.
LEMMA HalvesSplit ==
  ASSUME NEW q \in Nat, NEW r \in 0..(Half - 1)
  PROVE  (q * Half + r) \div Half = q /\ (q * Half + r) % Half = r
  OBVIOUS

\* (hi << 16) | lo of two uint16 values is a uint32 whose >> 16 is hi
\* and whose low half is lo.
LEMMA PackDecode ==
  ASSUME NEW x \in 0..(Half - 1), NEW y \in 0..(Half - 1)
  PROVE  /\ Pack(x, y) \in 0..(Word - 1)
         /\ Pack(x, y) \div Half = x
         /\ Pack(x, y) % Half = y
<1>1. x * Half \in 0..(Word - Half)
  OBVIOUS
<1>2. Shl16(x) = x * Half
  BY <1>1, WordFacts DEF Shl16
<1>3. Pack(x, y) = x * Half + y
  BY <1>2 DEF Pack
<1>4. QED
  BY <1>1, <1>3, HalvesSplit

\* The halves of a uint32 are uint16 values.
LEMMA HalvesOfWord ==
  ASSUME NEW v \in 0..(Word - 1)
  PROVE  v \div Half \in 0..(Half - 1) /\ v % Half \in 0..(Half - 1)
  OBVIOUS

\* The signed reading of a value below an even modulus m lies in
\* -(m/2)..(m/2 - 1).
LEMMA SignedRange ==
  ASSUME NEW m \in Nat, m >= 2, m % 2 = 0, NEW v \in 0..(m - 1)
  PROVE  Signed(v, m) \in -(m \div 2)..(m \div 2 - 1)
  BY DEF Signed

\* The ungrabbed word reads back as (-100, -100).
LEMMA UngrabbedDecodes ==
  /\ UngrabbedWord \in 0..(Word - 1)
  /\ Signed(UngrabbedWord \div Half, Half) = -100
  /\ Signed(UngrabbedWord % Half, Half) = -100
<1>1. Half - 100 \in 0..(Half - 1)
  OBVIOUS
<1>2. QED
  BY <1>1, PackDecode DEF UngrabbedWord, Signed

\* (connected ? 0x80000000 : 0) | id of a uint16 id is a uint32 whose low
\* half is id and whose top bit is connected.
LEMMA ToggleDecode ==
  ASSUME NEW id \in 0..(Half - 1), NEW c \in BOOLEAN
  PROVE  LET w == (IF c THEN HighBit ELSE 0) + id
         IN  /\ w \in 0..(Word - 1)
             /\ w % Half = id
             /\ BoolInt(w >= HighBit) = BoolInt(c)
<1>1. HighBit = (Half \div 2) * Half
  BY WordFacts
<1>2. ((Half \div 2) * Half + id) % Half = id
  <2>1. Half \div 2 \in Nat
    OBVIOUS
  <2>2. QED
    BY <2>1, HalvesSplit
<1>3. QED
  BY <1>1, <1>2, WordFacts DEF BoolInt

-----------------------------------------------------------------------------
(* The inductive invariant.                                                *)

USE DEF Int16s, Ungrabbed, NoneYet, NoReq, Cmds

LEMMA InitInv == Init => BackdoorInv
<1> SUFFICES ASSUME Init PROVE BackdoorInv
  OBVIOUS
<1>1. TypeOK
  <2>1. /\ hostPtr \in 0..(Word - 1)
        /\ selLen \in -(Word \div 2)..(Word \div 2 - 1)
    BY UngrabbedDecodes, WordFacts DEF Init
  <2>2. pos \in Int16s \X Int16s
    BY DEF Init
  <2>3. hostWho \in (Coords \X Coords) \cup {Ungrabbed}
         /\ posWho \in (Coords \X Coords) \cup {Ungrabbed, NoneYet}
    BY DEF Init
  <2>4. hostReq \in {NoReq} \cup [cmd : Cmds, word : 0..(Word - 1),
                                  args : Seq(Int)]
    BY DEF Init
  <2>5. /\ selSize \in 0..(Word - 1) /\ selEnd \in 0..(Word \div 4)
        /\ selRead \in 0..selEnd
    BY WordFacts DEF Init
  <2>6. devId \in DevIds \cup {0} /\ offset \in 0..(Half - 1) /\ fetched \in Nat
    BY DEF Init
  <2>7. QED
    BY <2>1, <2>2, <2>3, <2>4, <2>5, <2>6 DEF Init, TypeOK
<1>2. PtrLatched
  BY DEF Init, PtrLatched
<1>3. PosRoundTrip /\ RequestDecodes
  BY DEF Init, PosRoundTrip, RequestDecodes
<1>4. SelCounted /\ DevCounted
  BY WordFacts DEF Init, SelCounted, DevCounted
<1>5. QED
  BY <1>1, <1>2, <1>3, <1>4 DEF BackdoorInv

LEMMA NextInv == BackdoorInv /\ [Next]_vars => BackdoorInv'
<1> SUFFICES ASSUME BackdoorInv, [Next]_vars PROVE BackdoorInv'
  OBVIOUS
<1> USE DEF hostVars, posVars, capVars, selVars, devVars
<1>0. TypeOK /\ PtrLatched /\ PosRoundTrip /\ RequestDecodes /\ SelCounted
      /\ DevCounted
  BY DEF BackdoorInv
<1>1. CASE GuestApp_GetPos
  <2>1. hostPtr \div Half \in 0..(Half - 1) /\ hostPtr % Half \in 0..(Half - 1)
    BY <1>0, HalvesOfWord DEF TypeOK
  <2>2. pos' \in Int16s \X Int16s
    BY <1>0, <1>1, <2>1, SignedRange DEF GuestApp_GetPos
  <2>3. PosRoundTrip'
    <3>1. CASE hostWho = Ungrabbed
      BY <1>0, <1>1, <3>1, UngrabbedDecodes DEF GuestApp_GetPos, PtrLatched,
         PosRoundTrip
    <3>2. CASE hostWho # Ungrabbed
      <4>1. hostWho \in Coords \X Coords
        BY <1>0, <3>2 DEF TypeOK
      <4>2. QED
        BY <1>0, <1>1, <3>2, <4>1, PackDecode DEF GuestApp_GetPos, PtrLatched,
           PosRoundTrip
    <3>3. QED
      BY <1>0, <3>1, <3>2
  <2>4. QED
    BY <1>0, <1>1, <2>2, <2>3 DEF GuestApp_GetPos, TypeOK, PtrLatched,
       RequestDecodes, SelCounted, DevCounted, BackdoorInv
<1>2. ASSUME NEW x \in Coords, NEW y \in Coords, GuestApp_SetPos(x, y)
      PROVE  BackdoorInv'
  <2>1. Pack(x, y) \in 0..(Word - 1) /\ Pack(x, y) \div Half = x
        /\ Pack(x, y) % Half = y
    BY <1>0, PackDecode
  <2>2. <<x, y>> # Ungrabbed
    OBVIOUS
  <2>3. QED
    BY <1>0, <1>2, <2>1, <2>2 DEF GuestApp_SetPos, Send, TypeOK,
       PtrLatched, PosRoundTrip, RequestDecodes, HostDecode, SelCounted,
       DevCounted, BackdoorInv
<1>3. CASE HostUngrab
  <2>1. TypeOK'
    BY <1>0, <1>3, UngrabbedDecodes DEF HostUngrab, TypeOK
  <2>2. PtrLatched'
    BY <1>0, <1>3 DEF HostUngrab, PtrLatched
  <2>3. PosRoundTrip'
    BY <1>0, <1>3 DEF HostUngrab, PosRoundTrip
  <2>4. RequestDecodes'
    BY <1>0, <1>3 DEF HostUngrab, RequestDecodes, HostDecode
  <2>5. SelCounted'
    BY <1>0, <1>3 DEF HostUngrab, SelCounted
  <2>6. DevCounted'
    BY <1>0, <1>3 DEF HostUngrab, DevCounted
  <2>7. QED
    BY <1>0, <2>1, <2>2, <2>3, <2>4, <2>5, <2>6 DEF BackdoorInv
<1>4. CASE GuestApp_GetAbsoluteMouseState
  <2>1. TypeOK'
    BY <1>0, <1>4 DEF GuestApp_GetAbsoluteMouseState, MouseStateOf, TypeOK
  <2>2. PtrLatched'
    BY <1>0, <1>4 DEF GuestApp_GetAbsoluteMouseState, MouseStateOf, PtrLatched
  <2>3. PosRoundTrip'
    BY <1>0, <1>4 DEF GuestApp_GetAbsoluteMouseState, MouseStateOf, PosRoundTrip
  <2>4. RequestDecodes'
    BY <1>0, <1>4 DEF GuestApp_GetAbsoluteMouseState, MouseStateOf,
       RequestDecodes, HostDecode
  <2>5. SelCounted'
    BY <1>0, <1>4 DEF GuestApp_GetAbsoluteMouseState, MouseStateOf, SelCounted
  <2>6. DevCounted'
    BY <1>0, <1>4 DEF GuestApp_GetAbsoluteMouseState, MouseStateOf, DevCounted
  <2>7. QED
    BY <1>0, <2>1, <2>2, <2>3, <2>4, <2>5, <2>6 DEF BackdoorInv
<1>5. CASE GuestApp_IsDiskShrinkCapable
  <2>1. TypeOK'
    BY <1>0, <1>5 DEF GuestApp_IsDiskShrinkCapable, TypeOK
  <2>2. PtrLatched'
    BY <1>0, <1>5 DEF GuestApp_IsDiskShrinkCapable, PtrLatched
  <2>3. PosRoundTrip'
    BY <1>0, <1>5 DEF GuestApp_IsDiskShrinkCapable, PosRoundTrip
  <2>4. RequestDecodes'
    BY <1>0, <1>5 DEF GuestApp_IsDiskShrinkCapable, RequestDecodes, HostDecode
  <2>5. SelCounted'
    BY <1>0, <1>5 DEF GuestApp_IsDiskShrinkCapable, SelCounted
  <2>6. DevCounted'
    BY <1>0, <1>5 DEF GuestApp_IsDiskShrinkCapable, DevCounted
  <2>7. QED
    BY <1>0, <2>1, <2>2, <2>3, <2>4, <2>5, <2>6 DEF BackdoorInv
<1>6. CASE GuestApp_IsDiskShrinkEnabled
  <2>1. TypeOK'
    BY <1>0, <1>6 DEF GuestApp_IsDiskShrinkEnabled, TypeOK
  <2>2. PtrLatched'
    BY <1>0, <1>6 DEF GuestApp_IsDiskShrinkEnabled, PtrLatched
  <2>3. PosRoundTrip'
    BY <1>0, <1>6 DEF GuestApp_IsDiskShrinkEnabled, PosRoundTrip
  <2>4. RequestDecodes'
    BY <1>0, <1>6 DEF GuestApp_IsDiskShrinkEnabled, RequestDecodes, HostDecode
  <2>5. SelCounted'
    BY <1>0, <1>6 DEF GuestApp_IsDiskShrinkEnabled, SelCounted
  <2>6. DevCounted'
    BY <1>0, <1>6 DEF GuestApp_IsDiskShrinkEnabled, DevCounted
  <2>7. QED
    BY <1>0, <2>1, <2>2, <2>3, <2>4, <2>5, <2>6 DEF BackdoorInv
<1>7. CASE HostSetSelection
  <2>1. TypeOK'
    BY <1>0, <1>7 DEF HostSetSelection, TypeOK
  <2>2. PtrLatched'
    BY <1>0, <1>7 DEF HostSetSelection, PtrLatched
  <2>3. PosRoundTrip'
    BY <1>0, <1>7 DEF HostSetSelection, PosRoundTrip
  <2>4. RequestDecodes'
    BY <1>0, <1>7 DEF HostSetSelection, RequestDecodes, HostDecode
  <2>5. SelCounted'
    BY <1>0, <1>7 DEF HostSetSelection, SelCounted
  <2>6. DevCounted'
    BY <1>0, <1>7 DEF HostSetSelection, DevCounted
  <2>7. QED
    BY <1>0, <2>1, <2>2, <2>3, <2>4, <2>5, <2>6 DEF BackdoorInv
<1>8. CASE GuestApp_GetHostSelectionLen
  <2>1. hostSelWord \in 0..(Word - 1) /\ Word % 2 = 0 /\ Word >= 2
    BY <1>0, WordFacts DEF TypeOK
  <2>2. Signed(hostSelWord, Word) \in -(Word \div 2)..(Word \div 2 - 1)
    BY <1>0, <2>1, WordFacts, SignedRange
  <2>3. TypeOK'
    BY <1>0, <1>8, <2>1, <2>2 DEF GuestApp_GetHostSelectionLen, TypeOK
  <2>4. PtrLatched'
    BY <1>0, <1>8, <2>1, <2>2 DEF GuestApp_GetHostSelectionLen, PtrLatched
  <2>5. PosRoundTrip'
    BY <1>0, <1>8, <2>1, <2>2 DEF GuestApp_GetHostSelectionLen, PosRoundTrip
  <2>6. RequestDecodes'
    BY <1>0, <1>8, <2>1, <2>2 DEF GuestApp_GetHostSelectionLen, RequestDecodes,
       HostDecode
  <2>7. SelCounted'
    BY <1>0, <1>8, <2>1, <2>2 DEF GuestApp_GetHostSelectionLen, SelCounted
  <2>8. DevCounted'
    BY <1>0, <1>8, <2>1, <2>2 DEF GuestApp_GetHostSelectionLen, DevCounted
  <2>9. QED
    BY <1>0, <2>3, <2>4, <2>5, <2>6, <2>7, <2>8 DEF BackdoorInv
<1>9. CASE GuestApp_GetHostSelection(selLen)
  <2>1. selLen \in 0..(Word \div 2 - 1)
    BY <1>0, <1>9 DEF GuestApp_GetHostSelection, TypeOK
  <2>2. (selLen + 4 - 1) % Word = selLen + 3
    BY <1>0, <2>1, WordFacts
  <2>3. (selLen + 3) \div 4 \in 0..(Word \div 4)
    BY <1>0, <2>1, WordFacts
  <2>4. TypeOK'
    <3>1. /\ selEnd' = (selLen + 3) \div 4 /\ selRead' = 0
          /\ selSize' = selLen /\ selDone' = FALSE /\ selPc' = "copy"
      BY <1>0, <1>9, <2>2 DEF GuestApp_GetHostSelection
    <3>2. selSize' \in 0..(Word - 1)
      BY <2>1, <3>1, WordFacts
    <3>3. selEnd' \in 0..(Word \div 4) /\ selRead' \in 0..selEnd'
      BY <2>3, <3>1
    <3>4. /\ UNCHANGED <<hostPtr, hostWho, hostSelWord, hostReq>>
          /\ UNCHANGED <<pos, posWho, absMouse, shrinkCap, shrinkOn, selLen>>
          /\ UNCHANGED <<devPc, devId, offset, fetched, devRet, toggleRet>>
      BY <1>9 DEF GuestApp_GetHostSelection
    <3>5. /\ hostPtr' \in 0..(Word - 1)
          /\ hostWho' \in (Coords \X Coords) \cup {Ungrabbed}
          /\ hostSelWord' \in SelWords
          /\ hostReq' \in {NoReq} \cup [cmd : Cmds, word : 0..(Word - 1),
                                       args : Seq(Int)]
      BY <1>0, <3>4 DEF TypeOK
    <3>6. /\ pos' \in Int16s \X Int16s
          /\ posWho' \in (Coords \X Coords) \cup {Ungrabbed, NoneYet}
          /\ absMouse' \in {"unavailable", "available", "unknown"}
          /\ shrinkCap' \in BOOLEAN /\ shrinkOn' \in BOOLEAN
          /\ selLen' \in -(Word \div 2)..(Word \div 2 - 1)
      BY <1>0, <3>4 DEF TypeOK
    <3>7. /\ devPc' \in {"idle", "loop"} /\ devId' \in DevIds \cup {0}
          /\ offset' \in 0..(Half - 1) /\ fetched' \in Nat
          /\ devRet' \in BOOLEAN /\ toggleRet' \in BOOLEAN
      BY <1>0, <3>4 DEF TypeOK
    <3>8. QED
      BY <3>1, <3>2, <3>3, <3>5, <3>6, <3>7 , Zenon DEF TypeOK
  <2>5. PtrLatched'
    BY <1>0, <1>9, <2>1, <2>2, <2>3 DEF GuestApp_GetHostSelection, PtrLatched
  <2>6. PosRoundTrip'
    BY <1>0, <1>9, <2>1, <2>2, <2>3 DEF GuestApp_GetHostSelection, PosRoundTrip
  <2>7. RequestDecodes'
    BY <1>0, <1>9, <2>1, <2>2, <2>3 DEF GuestApp_GetHostSelection,
       RequestDecodes, HostDecode
  <2>8. SelCounted'
    BY <1>0, <1>9, <2>1, <2>2, <2>3 DEF GuestApp_GetHostSelection, SelCounted
  <2>9. DevCounted'
    BY <1>0, <1>9, <2>1, <2>2, <2>3 DEF GuestApp_GetHostSelection, DevCounted
  <2>10. QED
    BY <1>0, <2>4, <2>5, <2>6, <2>7, <2>8, <2>9 DEF BackdoorInv
<1>10. CASE GuestAppGetNextPiece
  <2>1. TypeOK'
    BY <1>0, <1>10 DEF GuestAppGetNextPiece, TypeOK
  <2>2. PtrLatched'
    BY <1>0, <1>10 DEF GuestAppGetNextPiece, PtrLatched
  <2>3. PosRoundTrip'
    BY <1>0, <1>10 DEF GuestAppGetNextPiece, PosRoundTrip
  <2>4. RequestDecodes'
    BY <1>0, <1>10 DEF GuestAppGetNextPiece, RequestDecodes, HostDecode
  <2>5. SelCounted'
    BY <1>0, <1>10 DEF GuestAppGetNextPiece, SelCounted
  <2>6. DevCounted'
    BY <1>0, <1>10 DEF GuestAppGetNextPiece, DevCounted
  <2>7. QED
    BY <1>0, <2>1, <2>2, <2>3, <2>4, <2>5, <2>6 DEF BackdoorInv
<1>11. CASE GetHostSelectionReturn
  <2>1. TypeOK'
    BY <1>0, <1>11 DEF GetHostSelectionReturn, TypeOK
  <2>2. PtrLatched'
    BY <1>0, <1>11 DEF GetHostSelectionReturn, PtrLatched
  <2>3. PosRoundTrip'
    BY <1>0, <1>11 DEF GetHostSelectionReturn, PosRoundTrip
  <2>4. RequestDecodes'
    BY <1>0, <1>11 DEF GetHostSelectionReturn, RequestDecodes, HostDecode
  <2>5. SelCounted'
    BY <1>0, <1>11 DEF GetHostSelectionReturn, SelCounted, TypeOK
  <2>6. DevCounted'
    BY <1>0, <1>11 DEF GetHostSelectionReturn, DevCounted
  <2>7. QED
    BY <1>0, <2>1, <2>2, <2>3, <2>4, <2>5, <2>6 DEF BackdoorInv
<1>12. ASSUME NEW l \in SelPieces, GuestApp_SetSelLength(l)
       PROVE  BackdoorInv'
  <2>1. TypeOK'
    BY <1>0, <1>12 DEF GuestApp_SetSelLength, Send, TypeOK
  <2>2. PtrLatched'
    BY <1>0, <1>12 DEF GuestApp_SetSelLength, Send, PtrLatched
  <2>3. PosRoundTrip'
    BY <1>0, <1>12 DEF GuestApp_SetSelLength, Send, PosRoundTrip
  <2>4. RequestDecodes'
    BY <1>0, <1>12 DEF GuestApp_SetSelLength, Send, RequestDecodes, HostDecode
  <2>5. SelCounted'
    BY <1>0, <1>12 DEF GuestApp_SetSelLength, Send, SelCounted
  <2>6. DevCounted'
    BY <1>0, <1>12 DEF GuestApp_SetSelLength, Send, DevCounted
  <2>7. QED
    BY <1>0, <2>1, <2>2, <2>3, <2>4, <2>5, <2>6 DEF BackdoorInv
<1>13. ASSUME NEW l \in SelPieces, GuestApp_SetNextPiece(l)
       PROVE  BackdoorInv'
  <2>1. TypeOK'
    BY <1>0, <1>13 DEF GuestApp_SetNextPiece, Send, TypeOK
  <2>2. PtrLatched'
    BY <1>0, <1>13 DEF GuestApp_SetNextPiece, Send, PtrLatched
  <2>3. PosRoundTrip'
    BY <1>0, <1>13 DEF GuestApp_SetNextPiece, Send, PosRoundTrip
  <2>4. RequestDecodes'
    BY <1>0, <1>13 DEF GuestApp_SetNextPiece, Send, RequestDecodes, HostDecode
  <2>5. SelCounted'
    BY <1>0, <1>13 DEF GuestApp_SetNextPiece, Send, SelCounted
  <2>6. DevCounted'
    BY <1>0, <1>13 DEF GuestApp_SetNextPiece, Send, DevCounted
  <2>7. QED
    BY <1>0, <2>1, <2>2, <2>3, <2>4, <2>5, <2>6 DEF BackdoorInv
<1>14. ASSUME NEW id \in DevIds, NEW c \in BOOLEAN,
              GuestApp_SetDeviceState(id, c)
       PROVE  BackdoorInv'
  <2>1. LET w == (IF c THEN HighBit ELSE 0) + id
        IN  /\ w \in 0..(Word - 1) /\ w % Half = id
            /\ BoolInt(w >= HighBit) = BoolInt(c)
    BY <1>0, ToggleDecode
  <2>2. TypeOK'
    BY <1>0, <1>14, <2>1 DEF GuestApp_SetDeviceState, Send, TypeOK, BoolInt
  <2>3. PtrLatched'
    BY <1>0, <1>14, <2>1 DEF GuestApp_SetDeviceState, Send, PtrLatched
  <2>4. PosRoundTrip'
    BY <1>0, <1>14, <2>1 DEF GuestApp_SetDeviceState, Send, PosRoundTrip
  <2>5. RequestDecodes'
    BY <1>0, <1>14, <2>1 DEF GuestApp_SetDeviceState, Send, RequestDecodes,
       HostDecode
  <2>6. SelCounted'
    BY <1>0, <1>14, <2>1 DEF GuestApp_SetDeviceState, Send, SelCounted
  <2>7. DevCounted'
    BY <1>0, <1>14, <2>1 DEF GuestApp_SetDeviceState, Send, DevCounted
  <2>8. QED
    BY <1>0, <2>2, <2>3, <2>4, <2>5, <2>6, <2>7 DEF BackdoorInv
<1>15. ASSUME NEW id \in DevIds, GuestApp_GetDeviceInfo(id)
       PROVE  BackdoorInv'
  <2>1. TypeOK'
    BY <1>0, <1>15 DEF GuestApp_GetDeviceInfo, TypeOK
  <2>2. PtrLatched'
    BY <1>0, <1>15 DEF GuestApp_GetDeviceInfo, PtrLatched
  <2>3. PosRoundTrip'
    BY <1>0, <1>15 DEF GuestApp_GetDeviceInfo, PosRoundTrip
  <2>4. RequestDecodes'
    BY <1>0, <1>15 DEF GuestApp_GetDeviceInfo, RequestDecodes, HostDecode
  <2>5. SelCounted'
    BY <1>0, <1>15 DEF GuestApp_GetDeviceInfo, SelCounted
  <2>6. DevCounted'
    BY <1>0, <1>15 DEF GuestApp_GetDeviceInfo, DevCounted
  <2>7. QED
    BY <1>0, <2>1, <2>2, <2>3, <2>4, <2>5, <2>6 DEF BackdoorInv
<1>16. ASSUME NEW ok \in BOOLEAN, GuestAppGetDeviceListElement(ok)
       PROVE  BackdoorInv'
  <2>1. devId \in 0..(Half - 1) /\ offset \in 0..(Half - 1) /\ fetched \in Nat
    BY <1>0 DEF TypeOK
  <2>2. /\ Pack(devId, offset) \in 0..(Word - 1)
        /\ Pack(devId, offset) \div Half = devId
        /\ Pack(devId, offset) % Half = offset
    BY <1>0, <2>1, PackDecode
  <2>3. /\ offset + 4 <= InfoSize + 3 /\ offset + 4 \in 0..(Half - 1)
        /\ (offset + 4) % Half = offset + 4
    BY <1>0, <1>16, <2>1 DEF GuestAppGetDeviceListElement
  <2>4. hostReq' = [cmd |-> "develem", word |-> Pack(devId, offset),
                     args |-> <<devId, offset>>]
    BY <1>0, <1>16 DEF GuestAppGetDeviceListElement, Send
  <2>5. RequestDecodes'
    BY <1>0, <2>2, <2>4 DEF RequestDecodes, HostDecode
  <2>6. hostReq' \in [cmd : Cmds, word : 0..(Word - 1), args : Seq(Int)]
    BY <1>0, <2>1, <2>2, <2>4
  <2>7. CASE ok
    <3>1. fetched' = fetched + 1 /\ offset' = offset + 4 /\ devPc' = devPc
      BY <1>0, <1>16, <2>3, <2>7 DEF GuestAppGetDeviceListElement
    <3>2. TypeOK'
      <4>1. offset' \in 0..(Half - 1) /\ fetched' \in Nat
        BY <2>1, <2>3, <3>1
      <4>2. QED
        BY <1>0, <1>16, <2>6, <2>7, <4>1 DEF GuestAppGetDeviceListElement,
           TypeOK
    <3>3. DevCounted'
      <4>1. offset = 4 * fetched /\ devPc = "loop"
        BY <1>0, <1>16 DEF GuestAppGetDeviceListElement, DevCounted
      <4>2. QED
        BY <2>1, <2>3, <3>1, <4>1 DEF DevCounted
    <3>4. QED
      BY <1>0, <1>16, <2>5, <3>2, <3>3 DEF GuestAppGetDeviceListElement,
         PtrLatched, PosRoundTrip, SelCounted, BackdoorInv
  <2>8. CASE ~ok
    <3>1. fetched' = fetched /\ offset' = offset /\ devRet' = FALSE
          /\ devPc' = "idle"
      BY <1>0, <1>16, <2>8 DEF GuestAppGetDeviceListElement
    <3>2. TypeOK'
      <4>1. /\ UNCHANGED <<hostPtr, hostWho, hostSelWord, devId, toggleRet>>
            /\ UNCHANGED <<pos, posWho, absMouse, shrinkCap, shrinkOn>>
            /\ UNCHANGED <<selLen, selPc, selSize, selEnd, selRead, selDone>>
        BY <1>16 DEF GuestAppGetDeviceListElement
      <4>2. /\ hostPtr' \in 0..(Word - 1)
            /\ hostWho' \in (Coords \X Coords) \cup {Ungrabbed}
            /\ hostSelWord' \in SelWords /\ devId' \in DevIds \cup {0}
            /\ toggleRet' \in BOOLEAN
        BY <1>0, <4>1 DEF TypeOK
      <4>3. /\ pos' \in Int16s \X Int16s
            /\ posWho' \in (Coords \X Coords) \cup {Ungrabbed, NoneYet}
            /\ absMouse' \in {"unavailable", "available", "unknown"}
            /\ shrinkCap' \in BOOLEAN /\ shrinkOn' \in BOOLEAN
        BY <1>0, <4>1 DEF TypeOK
      <4>4. /\ selLen' \in -(Word \div 2)..(Word \div 2 - 1)
            /\ selPc' \in {"idle", "copy"}
            /\ selSize' \in 0..(Word - 1) /\ selEnd' \in 0..(Word \div 4)
            /\ selRead' \in 0..selEnd' /\ selDone' \in BOOLEAN
        BY <1>0, <4>1 DEF TypeOK
      <4>5. offset' \in 0..(Half - 1) /\ fetched' \in Nat
        BY <2>1, <3>1
      <4>6. QED
        BY <2>6, <3>1, <4>2, <4>3, <4>4, <4>5, Zenon DEF TypeOK
    <3>3. DevCounted'
      BY <1>0, <3>1 DEF DevCounted
    <3>4. QED
      BY <1>0, <1>16, <2>5, <3>2, <3>3 DEF GuestAppGetDeviceListElement,
         PtrLatched, PosRoundTrip, SelCounted, BackdoorInv
  <2>9. QED
    BY <1>0, <2>7, <2>8 DEF BackdoorInv
<1>17. CASE GetDeviceInfoReturn
  <2>1. TypeOK'
    BY <1>0, <1>17 DEF GetDeviceInfoReturn, TypeOK
  <2>2. PtrLatched'
    BY <1>0, <1>17 DEF GetDeviceInfoReturn, PtrLatched
  <2>3. PosRoundTrip'
    BY <1>0, <1>17 DEF GetDeviceInfoReturn, PosRoundTrip
  <2>4. RequestDecodes'
    BY <1>0, <1>17 DEF GetDeviceInfoReturn, RequestDecodes, HostDecode
  <2>5. SelCounted'
    BY <1>0, <1>17 DEF GetDeviceInfoReturn, SelCounted
  <2>6. DevCounted'
    BY <1>0, <1>17 DEF GetDeviceInfoReturn, DevCounted
  <2>7. QED
    BY <1>0, <2>1, <2>2, <2>3, <2>4, <2>5, <2>6 DEF BackdoorInv
<1>18. CASE UNCHANGED vars
  BY <1>0, <1>18 DEF vars, TypeOK, PtrLatched, PosRoundTrip, RequestDecodes,
     HostDecode, SelCounted, DevCounted, BackdoorInv
<1>19. QED
  BY <1>0, <1>1, <1>2, <1>3, <1>4, <1>5, <1>6, <1>7, <1>8, <1>9, <1>10, <1>11,
     <1>12, <1>13, <1>14, <1>15, <1>16, <1>17, <1>18 DEF Next, BackdoorInv

\* The inductive invariant holds in every reachable state.
LEMMA AlwaysInv == Spec => []BackdoorInv
BY InitInv, NextInv, PTL DEF Spec

\* GuestApp_GetPos hands back as int16 exactly what the last
\* GuestApp_SetPos packed (or (-100, -100) once the host ungrabs), for every
\* word width of at least 8-bit halves and every coordinate set.
THEOREM PointerRoundTrip == Spec => []PosRoundTrip
<1>1. BackdoorInv => PosRoundTrip
  BY DEF BackdoorInv
<1>2. QED
  BY <1>1, AlwaysInv, PTL

\* Every request word the guest packs (SetPos, SetDeviceState,
\* GuestAppGetDeviceListElement) decodes on the host side to the arguments
\* it was packed from.
THEOREM RequestsDecode == Spec => []RequestDecodes
<1>1. BackdoorInv => RequestDecodes
  BY DEF BackdoorInv
<1>2. QED
  BY <1>1, AlwaysInv, PTL

\* GuestApp_GetHostSelection stores no more than the rounded-up
\* (size + 3) / 4 words the buffer holds and, when its loop ends, has
\* fetched at least the size the host announced.
THEOREM SelectionCopiesExactly == Spec => []SelectionExact
<1>1. BackdoorInv => SelectionExact
  <2> SUFFICES ASSUME TypeOK, SelCounted PROVE SelectionExact
    BY DEF BackdoorInv
  <2>1. selSize \in Nat /\ selRead \in 0..selEnd
        /\ selEnd = (selSize + 3) \div 4
    BY WordFacts DEF TypeOK, SelCounted
  <2>2. 4 * selRead <= ((selSize + 3) \div 4) * 4
    BY <2>1
  <2>3. selDone => 4 * selRead >= selSize
    <3>1. 4 * ((selSize + 3) \div 4) >= selSize
      BY <2>1
    <3>2. QED
      BY <2>1, <3>1 DEF SelCounted
  <2>4. QED
    BY <2>2, <2>3 DEF SelectionExact
<1>2. QED
  BY <1>1, AlwaysInv, PTL

\* GuestApp_GetDeviceInfo writes at most 3 bytes past *info, and returns
\* TRUE only after every uint32 piece of *info was fetched, for every
\* structure size InfoSize the assumption allows.
THEOREM DeviceInfoWithinSlack == Spec => []DeviceInfoBounded
<1>1. BackdoorInv => DeviceInfoBounded
  BY DEF BackdoorInv, DevCounted, DeviceInfoBounded
<1>2. QED
  BY <1>1, AlwaysInv, PTL

=============================================================================
