-------------------------- MODULE GuestAppBackdoor --------------------------
(***************************************************************************)
(* The guest side of the low-bandwidth backdoor helpers of                 *)
(* lib/guestApp/guestApp.c: pointer location get/set, the host-to-guest    *)
(* clipboard copy loop, the guest-to-host selection helpers, the device    *)
(* toggle and the removable-device information loop, plus the capability  *)
(* queries (absolute mouse, disk shrink).                                  *)
(*                                                                         *)
(* A backdoor call is one step: the guest packs its arguments into the     *)
(* 32-bit register bp.in.size, the host answers in bp.out.ax / bx.  The    *)
(* host (the VMX) is not part of the repository; it is the environment:    *)
(* it latches what it is sent, answers with any value the protocol allows *)
(* and may change the pointer grab and the clipboard on its own.          *)
(*                                                                         *)
(* Register arithmetic keeps its width.  HalfW is the width of a half      *)
(* register (16 in the code: uint16 / int16 halves of a uint32); the       *)
(* model checker uses HalfW = 8 so that every value stays small, and all   *)
(* the wrap-around, sign and truncation cases happen at that width too.   *)
(***************************************************************************)
EXTENDS Integers, Sequences

CONSTANTS HalfW,     \* bits in a half register (16 in the code)
          Coords,    \* uint16 coordinates the guest passes to SetPos
          SelWords,  \* words the host answers to BDOOR_CMD_GETSELLENGTH
          SelPieces, \* uint32 lengths and pieces the guest sends the host
          DevIds,    \* uint16 device ids the guest asks about
          InfoSize,  \* sizeof(RD_Info) in bytes
          MouseWords, \* ax answers to BDOOR_CMD_ISMOUSEABSOLUTE
          RpcOks      \* outcomes of RpcOut_sendOne

Half == 2^HalfW           \* 2^16: one uint16 / int16
Word == Half * Half       \* 2^32: one uint32 register

ASSUME BackdoorAssumption ==
  /\ HalfW \in Nat /\ HalfW >= 8
  /\ Coords \subseteq 0..(Half - 1)
  /\ SelWords \subseteq 0..(Word - 1)
  /\ SelPieces \subseteq 0..(Word - 1)
  /\ DevIds \subseteq 0..(Half - 1)
  /\ InfoSize \in 1..(Half - 4)
  /\ MouseWords \subseteq 0..(Word - 1)
  /\ RpcOks \subseteq BOOLEAN

\* What HalfW >= 8 makes of Half = 2^HalfW, stated for the provers, which
\* do not reason about exponentiation: an even number of at least 256.
ASSUME HalfAssumption == Half \in Nat /\ Half >= 256 /\ Half % 2 = 0

\* Two's-complement reading of an unsigned value v below the modulus m
\* (2^16 or 2^32): the C conversion of an unsigned value to the signed type
\* of the same width.
Signed(v, m) == IF v >= m \div 2 THEN v - m ELSE v

\* v << 16 stored in a uint32: the high bits are lost.  For v >= 2^15 the
\* C expression shifts an int and overflows; the compilers of the build
\* produce this same bit pattern.
Shl16(v) == (v * Half) % Word

\* hi << 16 | lo with lo < 2^16: the halves do not overlap, so | is +.
Pack(hi, lo) == Shl16(hi) + lo

HighBit == Word \div 2    \* 0x80000000

\* What the host holds when the mouse is not grabbed: the int16 position
\* (-100, -100) it reports, which no guest SetPos of uint16 coordinates is.
Ungrabbed == <<-100, -100>>
UngrabbedWord == Pack(Half - 100, Half - 100)   \* int16 (-100, -100)
\* posWho before the first GetPos.
NoneYet == <<>>

\* A C Bool as the integer it is: 1 for TRUE, 0 for FALSE.
BoolInt(b) == IF b THEN 1 ELSE 0

Cmds == {"setptr", "sellen", "piece", "toggle", "develem"}
NoReq == [cmd |-> "none", word |-> 0, args |-> <<>>]

VARIABLES
  hostPtr,     \* pointer word the host holds
  hostWho,     \* what put it there: a guest SetPos <<x, y>> or Ungrabbed
  hostSelWord, \* the host's answer to GETSELLENGTH
  hostReq,     \* last request word the host received, with its arguments
  pos,         \* <<x, y>> of the guest's last GuestApp_GetPos
  posWho,      \* hostWho at the time of that GetPos
  absMouse,    \* last GuestApp_GetAbsoluteMouseState result
  shrinkCap,   \* last GuestApp_IsDiskShrinkCapable result
  shrinkOn,    \* last GuestApp_IsDiskShrinkEnabled result
  selLen,      \* last GuestApp_GetHostSelectionLen result (int32)
  selPc,       \* GuestApp_GetHostSelection: "idle" or "copy"
  selSize,     \* its size argument (unsigned int)
  selEnd,      \* number of uint32 pieces its loop fetches
  selRead,     \* pieces fetched so far
  selDone,     \* a GetHostSelection has returned since the last start
  devPc,       \* GuestApp_GetDeviceInfo: "idle" or "loop"
  devId,       \* its id argument
  offset,      \* its uint16 loop offset
  fetched,     \* uint32 pieces written into *info so far
  devRet,      \* its last result (FALSE before the first call)
  toggleRet    \* last GuestApp_SetDeviceState result

hostVars == <<hostPtr, hostWho, hostSelWord, hostReq>>
posVars == <<pos, posWho>>
capVars == <<absMouse, shrinkCap, shrinkOn>>
selVars == <<selLen, selPc, selSize, selEnd, selRead, selDone>>
devVars == <<devPc, devId, offset, fetched, devRet, toggleRet>>
vars == <<hostVars, posVars, capVars, selVars, devVars>>

Init ==
  /\ hostPtr = UngrabbedWord /\ hostWho = Ungrabbed
  /\ hostSelWord \in SelWords
  /\ hostReq = NoReq
  /\ pos = <<0, 0>> /\ posWho = NoneYet
  /\ absMouse = "unknown" /\ shrinkCap = FALSE /\ shrinkOn = FALSE
  /\ selLen = -1 /\ selPc = "idle" /\ selSize = 0 /\ selEnd = 0
  /\ selRead = 0 /\ selDone = FALSE
  /\ devPc = "idle" /\ devId = 0 /\ offset = 0 /\ fetched = 0
  /\ devRet = FALSE /\ toggleRet = FALSE

Send(cmd, word, args) == hostReq' = [cmd |-> cmd, word |-> word, args |-> args]

-----------------------------------------------------------------------------
(* Pointer location.                                                       *)

\* Mutant: x read into a 32-bit variable, without the int16 truncation.
GetPosUnsigned ==
  /\ pos' = <<hostPtr \div Half, Signed(hostPtr % Half, Half)>>
  /\ posWho' = hostWho
  /\ UNCHANGED <<hostVars, capVars, selVars, devVars>>

\* *x = word >> 16; *y = word; both stored in an int16.
GuestApp_GetPos ==
  /\ pos' = <<Signed(hostPtr \div Half, Half), Signed(hostPtr % Half, Half)>>
  /\ posWho' = hostWho
  /\ UNCHANGED <<hostVars, capVars, selVars, devVars>>

\* Mutant: the halves packed in the wrong order.
SetPosSwapped(x, y) ==
  /\ Send("setptr", Pack(y, x), <<x, y>>)
  /\ hostPtr' = Pack(y, x) /\ hostWho' = <<x, y>>
  /\ UNCHANGED <<hostSelWord, posVars, capVars, selVars, devVars>>

\* bp.in.size = (x << 16) | y; the host latches the word.
GuestApp_SetPos(x, y) ==
  /\ Send("setptr", Pack(x, y), <<x, y>>)
  /\ hostPtr' = Pack(x, y) /\ hostWho' = <<x, y>>
  /\ UNCHANGED <<hostSelWord, posVars, capVars, selVars, devVars>>

\* Environment: the host releases the grab and reports (-100, -100).
HostUngrab ==
  /\ hostPtr' = UngrabbedWord /\ hostWho' = Ungrabbed
  /\ UNCHANGED <<hostSelWord, hostReq, posVars, capVars, selVars, devVars>>

-----------------------------------------------------------------------------
(* Capability queries.                                                     *)

MouseStateOf(w) ==
  IF w = 0 THEN "unavailable" ELSE IF w = 1 THEN "available" ELSE "unknown"

GuestApp_GetAbsoluteMouseState ==
  /\ \E w \in MouseWords : absMouse' = MouseStateOf(w)
  /\ UNCHANGED <<hostVars, posVars, shrinkCap, shrinkOn, selVars, devVars>>

GuestApp_IsDiskShrinkCapable ==
  /\ \E ok \in RpcOks : shrinkCap' = ok
  /\ UNCHANGED <<hostVars, posVars, absMouse, shrinkOn, selVars, devVars>>

\* Enabled only when RpcOut_sendOne succeeds and the reply is exactly "1".
GuestApp_IsDiskShrinkEnabled ==
  /\ \E ok \in RpcOks, reply \in {<<"1">>, <<"0">>, <<"1", "0">>} :
       shrinkOn' = (ok /\ Len(reply) = 1 /\ reply[1] = "1")
  /\ UNCHANGED <<hostVars, posVars, absMouse, shrinkCap, selVars, devVars>>

-----------------------------------------------------------------------------
(* Host-to-guest clipboard.                                                *)

\* Environment: the host changes its clipboard while no copy is running.
HostSetSelection ==
  /\ selPc = "idle"
  /\ \E w \in SelWords : hostSelWord' = w
  /\ UNCHANGED <<hostPtr, hostWho, hostReq, posVars, capVars, selVars,
                 devVars>>

\* The uint32 answer returned as an int32: < 0 is an error code.
GuestApp_GetHostSelectionLen ==
  /\ selPc = "idle"
  /\ selLen' = Signed(hostSelWord, Word)
  /\ UNCHANGED <<hostVars, posVars, capVars, selPc, selSize, selEnd,
                 selRead, selDone, devVars>>

\* Mutant: the piece count rounded down, dropping a partial last word.
GetHostSelectionRoundDown(size) ==
  /\ selPc = "idle" /\ size >= 0
  /\ selPc' = "copy" /\ selSize' = size /\ selRead' = 0
  /\ selEnd' = (size % Word) \div 4
  /\ selDone' = FALSE
  /\ UNCHANGED <<hostVars, posVars, capVars, selLen, devVars>>

\* Entry of GuestApp_GetHostSelection(size, data), called with a length
\* >= 0 from GetHostSelectionLen: end = current + (size + 4 - 1) / 4, the
\* sum computed in unsigned int.
GuestApp_GetHostSelection(size) ==
  /\ selPc = "idle" /\ size >= 0
  /\ selPc' = "copy" /\ selSize' = size /\ selRead' = 0
  /\ selEnd' = ((size + 4 - 1) % Word) \div 4
  /\ selDone' = FALSE
  /\ UNCHANGED <<hostVars, posVars, capVars, selLen, devVars>>

\* One iteration of its loop: *current = GuestAppGetNextPiece().
GuestAppGetNextPiece ==
  /\ selPc = "copy" /\ selRead < selEnd
  /\ selRead' = selRead + 1
  /\ UNCHANGED <<hostVars, posVars, capVars, selLen, selPc, selSize, selEnd,
                 selDone, devVars>>

\* The loop test current < end fails: GuestApp_GetHostSelection returns.
GetHostSelectionReturn ==
  /\ selPc = "copy" /\ selRead >= selEnd
  /\ selPc' = "idle" /\ selDone' = TRUE
  /\ UNCHANGED <<hostVars, posVars, capVars, selLen, selSize, selEnd,
                 selRead, devVars>>

\* Guest-to-host: bp.in.size = length / data.
GuestApp_SetSelLength(length) ==
  /\ Send("sellen", length, <<length>>)
  /\ UNCHANGED <<hostPtr, hostWho, hostSelWord, posVars, capVars, selVars,
                 devVars>>

GuestApp_SetNextPiece(data) ==
  /\ Send("piece", data, <<data>>)
  /\ UNCHANGED <<hostPtr, hostWho, hostSelWord, posVars, capVars, selVars,
                 devVars>>

-----------------------------------------------------------------------------
(* Removable devices.                                                      *)

\* bp.in.size = (connected ? 0x80000000 : 0) | id; TRUE iff ax is non-zero.
GuestApp_SetDeviceState(id, connected) ==
  /\ Send("toggle", (IF connected THEN HighBit ELSE 0) + id,
          <<id, BoolInt(connected)>>)
  /\ \E ax \in {0, 1} : toggleRet' = (ax # 0)
  /\ UNCHANGED <<hostPtr, hostWho, hostSelWord, posVars, capVars, selVars,
                 devPc, devId, offset, fetched, devRet>>

\* Entry of GuestApp_GetDeviceInfo(id, info): offset = 0, p = info.
GuestApp_GetDeviceInfo(id) ==
  /\ devPc = "idle"
  /\ devPc' = "loop" /\ devId' = id /\ offset' = 0 /\ fetched' = 0
  /\ UNCHANGED <<hostVars, posVars, capVars, selVars, devRet, toggleRet>>

\* Mutant: the packing computed in a uint16, so the id is shifted out.
DevElementNarrow(ok) ==
  /\ devPc = "loop" /\ offset < InfoSize
  /\ Send("develem", Pack(devId, offset) % Half, <<devId, offset>>)
  /\ IF ok THEN /\ fetched' = fetched + 1
                /\ offset' = (offset + 4) % Half
                /\ UNCHANGED <<devPc, devRet>>
           ELSE /\ devPc' = "idle" /\ devRet' = FALSE
                /\ UNCHANGED <<fetched, offset>>
  /\ UNCHANGED <<hostPtr, hostWho, hostSelWord, posVars, capVars, selVars,
                 devId, toggleRet>>

\* Mutant: a FALSE element ignored and the loop carried on.
DevElementUnchecked(ok) ==
  /\ devPc = "loop" /\ offset < InfoSize
  /\ Send("develem", Pack(devId, offset), <<devId, offset>>)
  /\ fetched' = IF ok THEN fetched + 1 ELSE fetched
  /\ offset' = (offset + 4) % Half
  /\ UNCHANGED <<hostPtr, hostWho, hostSelWord, posVars, capVars, selVars,
                 devPc, devId, devRet, toggleRet>>

\* One iteration of the loop while offset < sizeof *info: the call
\* GuestAppGetDeviceListElement(id, offset, p) sends (id << 16) | offset; a
\* FALSE answer (ax == 0) makes GetDeviceInfo return FALSE, otherwise *p is
\* set from bx and offset += 4 (in the uint16), p++.
GuestAppGetDeviceListElement(ok) ==
  /\ devPc = "loop" /\ offset < InfoSize
  /\ Send("develem", Pack(devId, offset), <<devId, offset>>)
  /\ IF ok THEN /\ fetched' = fetched + 1
                /\ offset' = (offset + 4) % Half
                /\ UNCHANGED <<devPc, devRet>>
           ELSE /\ devPc' = "idle" /\ devRet' = FALSE
                /\ UNCHANGED <<fetched, offset>>
  /\ UNCHANGED <<hostPtr, hostWho, hostSelWord, posVars, capVars, selVars,
                 devId, toggleRet>>

\* The loop test offset < sizeof *info fails: GetDeviceInfo returns TRUE.
GetDeviceInfoReturn ==
  /\ devPc = "loop" /\ offset >= InfoSize
  /\ devPc' = "idle" /\ devRet' = TRUE
  /\ UNCHANGED <<hostVars, posVars, capVars, selVars, devId, offset, fetched,
                 toggleRet>>

-----------------------------------------------------------------------------

Next ==
  \/ GuestApp_GetPos
  \/ \E x, y \in Coords : GuestApp_SetPos(x, y)
  \/ HostUngrab
  \/ GuestApp_GetAbsoluteMouseState
  \/ GuestApp_IsDiskShrinkCapable
  \/ GuestApp_IsDiskShrinkEnabled
  \/ HostSetSelection
  \/ GuestApp_GetHostSelectionLen
  \* the caller passes the length GetHostSelectionLen returned
  \/ GuestApp_GetHostSelection(selLen)
  \/ GuestAppGetNextPiece
  \/ GetHostSelectionReturn
  \/ \E l \in SelPieces : GuestApp_SetSelLength(l)
  \/ \E d \in SelPieces : GuestApp_SetNextPiece(d)
  \/ \E id \in DevIds, c \in BOOLEAN : GuestApp_SetDeviceState(id, c)
  \/ \E id \in DevIds : GuestApp_GetDeviceInfo(id)
  \/ \E ok \in BOOLEAN : GuestAppGetDeviceListElement(ok)
  \/ GetDeviceInfoReturn

Spec == Init /\ [][Next]_vars

-----------------------------------------------------------------------------
(* Properties.                                                             *)

Int16s == -(Half \div 2)..(Half \div 2 - 1)

\* Every variable has its type.
TypeOK ==
  /\ hostPtr \in 0..(Word - 1)
  /\ hostWho \in (Coords \X Coords) \cup {Ungrabbed}
  /\ hostSelWord \in SelWords
  /\ hostReq \in {NoReq} \cup [cmd : Cmds, word : 0..(Word - 1),
                               args : Seq(Int)]
  /\ pos \in Int16s \X Int16s
  /\ posWho \in (Coords \X Coords) \cup {Ungrabbed, NoneYet}
  /\ absMouse \in {"unavailable", "available", "unknown"}
  /\ shrinkCap \in BOOLEAN /\ shrinkOn \in BOOLEAN
  /\ selLen \in -(Word \div 2)..(Word \div 2 - 1)
  /\ selPc \in {"idle", "copy"}
  /\ selSize \in 0..(Word - 1) /\ selEnd \in 0..(Word \div 4)
  /\ selRead \in 0..selEnd /\ selDone \in BOOLEAN
  /\ devPc \in {"idle", "loop"} /\ devId \in DevIds \cup {0}
  /\ offset \in 0..(Half - 1) /\ fetched \in Nat
  /\ devRet \in BOOLEAN /\ toggleRet \in BOOLEAN

\* GuestApp_GetPos returns, as int16, what the last GuestApp_SetPos sent,
\* through the uint16 -> int shift -> uint32 -> >> 16 -> int16 chain, and
\* (-100, -100) when the host reports the mouse ungrabbed.
PosRoundTrip ==
  posWho # NoneYet =>
    pos = IF posWho = Ungrabbed THEN <<-100, -100>>
          ELSE <<Signed(posWho[1], Half), Signed(posWho[2], Half)>>

\* The host can take apart every request word the guest packs: the
\* pointer halves of SetPos, the id and connect bit of SetDeviceState,
\* the id and offset of GuestAppGetDeviceListElement.
HostDecode(r) ==
  CASE r.cmd = "setptr"  -> <<r.word \div Half, r.word % Half>>
    [] r.cmd = "toggle"  -> <<r.word % Half, BoolInt(r.word >= HighBit)>>
    [] r.cmd = "develem" -> <<r.word \div Half, r.word % Half>>
    [] OTHER             -> <<r.word>>

RequestDecodes == hostReq # NoReq => HostDecode(hostReq) = hostReq.args

\* GuestApp_GetHostSelection writes no more than the buffer its header
\* asks for, ((size + 4 - 1) / 4) * 4 bytes, and on return has fetched
\* every byte of the size the host announced.
SelectionExact ==
  /\ 4 * selRead <= ((selSize + 3) \div 4) * 4
  /\ selDone => 4 * selRead >= selSize

\* GuestApp_GetDeviceInfo writes at most 3 bytes past *info (the overrun
\* its XXX comment concedes) and returns TRUE only when every uint32 piece
\* of *info was answered by the host.
DeviceInfoBounded ==
  /\ 4 * fetched <= InfoSize + 3
  /\ devRet /\ devPc = "idle" => 4 * fetched >= InfoSize

\* What a C reader of GetDeviceInfo expects: nothing is written past the
\* end of *info.
DeviceInfoInBounds == 4 * fetched <= InfoSize

=============================================================================
