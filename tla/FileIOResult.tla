---------------------------- MODULE FileIOResult ----------------------------
(***************************************************************************)
(* The status codes of lib/file/fileIO.c and the three pure functions on   *)
(* them: FileIO_MsgError (code -> message), FileIO_ErrorEnglish (the       *)
(* message without its MSGID), FileIO_IsSuccess, and the errno table by    *)
(* which FileIO_Lock turns a refused FileLock_Lock into a status.          *)
(*                                                                         *)
(* A message is a record: its MSGID and its English text.  The texts are   *)
(* kept only as far as they tell messages apart.                           *)
(***************************************************************************)

\* The FileIOResult enumeration, FILEIO_ERROR_LAST its end marker.
Statuses == {"SUCCESS", "CANCELLED", "ERROR", "OPEN_ERROR_EXIST",
             "LOCK_FAILED", "READ_ERROR_EOF", "FILE_NOT_FOUND",
             "NO_PERMISSION", "FILE_NAME_TOO_LONG", "WRITE_ERROR_FBIG",
             "WRITE_ERROR_NOSPC", "WRITE_ERROR_DQUOT", "ERROR_LAST"}

\* errno values FileLock_Lock can leave in err; "0" is err == 0, a timeout.
Errnos == {"0", "EROFS", "ENAMETOOLONG", "ENOENT", "EACCES", "EIO"}

Msg(id, text) == [id |-> id, text |-> text]

NoSpaceText == "There is no space left on the device"
UnknownMsg == Msg("fileio.unknown", "Unknown error")

\* The switch of FileIO_MsgError: one case per code; ERROR_LAST reaches
\* NOT_IMPLEMENTED and leaves result NULL, and a NULL result, like any
\* code outside the enumeration, falls back to "Unknown error".
FileIO_MsgError(status) ==
  CASE status = "SUCCESS"            -> Msg("fileio.success", "Success")
    [] status = "CANCELLED"          -> Msg("fileio.cancel", "Canceled")
    [] status = "ERROR"              -> Msg("fileio.generic", "Error")
    [] status = "OPEN_ERROR_EXIST"   -> Msg("fileio.exists", "Exists")
    [] status = "LOCK_FAILED"        -> Msg("fileio.lock", "Lock failed")
    [] status = "READ_ERROR_EOF"     -> Msg("fileio.eof", "Past EOF")
    [] status = "FILE_NOT_FOUND"     -> Msg("fileio.notfound", "Not found")
    [] status = "NO_PERMISSION"      -> Msg("fileio.noPerm", "No permission")
    [] status = "FILE_NAME_TOO_LONG" -> Msg("fileio.namelong", "Name too long")
    [] status = "WRITE_ERROR_FBIG"   -> Msg("fileio.fBig", "Too large")
    [] status = "WRITE_ERROR_NOSPC"  -> Msg("fileio.noSpc", NoSpaceText)
    [] status = "WRITE_ERROR_DQUOT"  -> Msg("fileio.dQuot", NoSpaceText)
    [] OTHER                         -> UnknownMsg

\* Msg_StripMSGID: the English text alone.
FileIO_ErrorEnglish(status) == FileIO_MsgError(status).text

FileIO_IsSuccess(res) == res = "SUCCESS"

\* The switch on err after FileLock_Lock returned no token.
LockErrnoResult(err) ==
  CASE err \in {"0", "EROFS"}    -> "LOCK_FAILED"
    [] err = "ENAMETOOLONG"      -> "FILE_NAME_TOO_LONG"
    [] err = "ENOENT"            -> "FILE_NOT_FOUND"
    [] err = "EACCES"            -> "NO_PERMISSION"
    [] OTHER                     -> "ERROR"

\* FileIO_Lock never reports a refused lock as success, and every status
\* it can return has a message of its own, never the "Unknown error"
\* fallback that FileIO_MsgError's ASSERT(0) guards; every code but the
\* end marker has its own MSGID, even where two texts coincide (NOSPC and
\* DQUOT).
ASSUME LockStatusesDescribed ==
  /\ \A e \in Errnos :
       /\ ~FileIO_IsSuccess(LockErrnoResult(e))
       /\ FileIO_MsgError(LockErrnoResult(e)) # UnknownMsg
  /\ \A s, t \in Statuses \ {"ERROR_LAST"} :
       s # t => FileIO_MsgError(s).id # FileIO_MsgError(t).id
  /\ FileIO_MsgError("ERROR_LAST") = UnknownMsg

=============================================================================
