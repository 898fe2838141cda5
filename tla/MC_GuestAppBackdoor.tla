------------------------ MODULE MC_GuestAppBackdoor ------------------------
(* Small instances of GuestAppBackdoor: half registers of 8 bits, so that  *)
(* a register is 16 bits wide and every boundary value is reachable.       *)
EXTENDS GuestAppBackdoor

\* Pointer coordinates at both ends of the int16 sign boundary, and the
\* uint16 value that reads back as the ungrabbed -100.
MCCoords == {0, 2^(HalfW - 1) - 1, 2^(HalfW - 1), 2^HalfW - 100}

\* Clipboard lengths 0, 1, 3, 4, 5 and the error answers -1 and -2 (as the
\* host's unsigned words).
MCSelWords == {0, 1, 3, 4, 5, 2^(2 * HalfW) - 1, 2^(2 * HalfW) - 2}

\* Guest-to-host words at both ends of the register.
MCSelPieces == {0, 2^(2 * HalfW) - 1}

\* Device ids at both ends of the uint16 and across its sign bit.
MCDevIds == {0, 1, 2^(HalfW - 1), 2^HalfW - 1}
=============================================================================
