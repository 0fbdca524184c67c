------------------------------ MODULE ErrorModel ------------------------------
(***************************************************************************)
(* The error vocabulary of safety/errors.py and the two ways an exception  *)
(* gets a code: it already is a DbMcpError and carries one, or it is a     *)
(* foreign exception whose class name and text are searched for words, one *)
(* group of words after the other.                                         *)
(*                                                                         *)
(* The text of a foreign exception is abstracted to the set of word groups *)
(* that occur in it; a group is named by the code it stands for.           *)
(***************************************************************************)
EXTENDS Naturals, FiniteSets

ErrorCode ==
  { "UNKNOWN_CONNECTION", "CONNECTION_FAILED", "AUTH_FAILED", "QUERY_BLOCKED",
    "QUERY_TIMEOUT", "QUERY_TOO_LARGE", "INVALID_SQL",
    "UNSUPPORTED_OPERATION", "BACKEND_ERROR" }

\* The word groups of classify_exception, in the order they are searched.
NeedleOrder ==
  << "UNKNOWN_CONNECTION", "AUTH_FAILED", "QUERY_BLOCKED", "QUERY_TIMEOUT",
     "QUERY_TOO_LARGE", "INVALID_SQL", "UNSUPPORTED_OPERATION",
     "CONNECTION_FAILED" >>

\* A typed error of the server, and any other Python exception.
DbMcpError == [kind : {"DbMcpError"}, code : ErrorCode]
RawError   == [kind : {"raw"}, is_timeout : BOOLEAN, words : SUBSET ErrorCode]

Coded(code) == [kind |-> "DbMcpError", code |-> code]
Raw(words)  == [kind |-> "raw", is_timeout |-> FALSE, words |-> words]

------------------------------------------------------------------------------
\* Mutant: typed errors are classified again.
normalize_forgets_code(exc) == Coded("BACKEND_ERROR")

------------------------------------------------------------------------------
\* The first group of words that occurs in the exception decides.
classify_exception(exc) ==
  LET hits == { i \in DOMAIN NeedleOrder : NeedleOrder[i] \in exc.words }
  IN  IF exc.is_timeout THEN "QUERY_TIMEOUT"
      ELSE IF hits = {} THEN "BACKEND_ERROR"
      ELSE NeedleOrder[CHOOSE i \in hits : \A j \in hits : i <= j]

\* A typed error keeps its code whatever message and details are merged in.
normalize_exception(exc) ==
  IF exc.kind = "DbMcpError" THEN Coded(exc.code)
                             ELSE Coded(classify_exception(exc))

\* MissingSecretError / EmptySecretError: the message names the connection and
\* the field.
secret_error(field) ==
  Raw({"CONNECTION_FAILED"}
      \cup (IF field = "password" THEN {"AUTH_FAILED"} ELSE {}))
==============================================================================
