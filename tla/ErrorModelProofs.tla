---------------------------- MODULE ErrorModelProofs ----------------------------
(***************************************************************************)
(* What normalize_exception makes of whatever is raised.                   *)
(***************************************************************************)
EXTENDS ErrorModel, WellFoundedInduction, TLAPS

\* A set of words makes a foreign exception.
LEMMA RawWords == \A words \in SUBSET ErrorCode : Raw(words) \in RawError
BY DEF Raw, RawError

\* So does a secret that is missing.
LEMMA SecretErrorType == \A field : secret_error(field) \in RawError
<1>1. \A field : {"CONNECTION_FAILED"} \cup (IF field = "password" THEN {"AUTH_FAILED"} ELSE {})
                 \in SUBSET ErrorCode
  BY DEF ErrorCode
<1> QED
  BY <1>1, RawWords DEF secret_error

\* Every foreign exception is given one of the codes.
LEMMA ClassifiedCode ==
  ASSUME NEW exc \in RawError
  PROVE  classify_exception(exc) \in ErrorCode
<1> DEFINE hits  == {i \in DOMAIN NeedleOrder : NeedleOrder[i] \in exc.words}
           First(i) == \A j \in hits : i <= j
<1>1. DOMAIN NeedleOrder = 1 .. 8
        /\ \A i \in 1 .. 8 : NeedleOrder[i] \in ErrorCode
  BY DEF NeedleOrder, ErrorCode
<1>2. ASSUME hits # {} PROVE \E i \in hits : First(i)
  <2>1. hits \subseteq Nat
    BY <1>1
  <2> HIDE DEF hits
  <2>2. \E i \in hits : \A j \in hits : <<j, i>> \notin OpToRel(<, Nat)
    BY <1>2, <2>1, NatLessThanWellFounded, WFMin
  <2>3. \A i, j \in Nat : <<j, i>> \notin OpToRel(<, Nat) => i <= j
    BY DEF OpToRel
  <2> QED
    BY <2>1, <2>2, <2>3
<1>3. hits # {} => NeedleOrder[CHOOSE i \in hits : First(i)] \in ErrorCode
  <2> SUFFICES ASSUME hits # {}
               PROVE  NeedleOrder[CHOOSE i \in hits : First(i)] \in ErrorCode
    OBVIOUS
  <2>1. (CHOOSE i \in hits : First(i)) \in hits
    BY <1>2
  <2> QED
    BY <1>1, <2>1
<1> QED
  BY <1>3 DEF classify_exception, ErrorCode

\* What leaves QueryService or a tool is always one of the server's errors.
LEMMA NormalizedError ==
  ASSUME NEW exc \in DbMcpError \cup RawError
  PROVE  normalize_exception(exc) \in DbMcpError
<1>1. CASE exc \in DbMcpError
  BY <1>1 DEF normalize_exception, DbMcpError, Coded
<1>2. CASE exc \in RawError
  <2>1. exc.kind # "DbMcpError"
    BY <1>2 DEF RawError
  <2> QED
    BY <1>2, <2>1, ClassifiedCode DEF normalize_exception, DbMcpError, Coded
<1> QED
  BY <1>1, <1>2
=============================================================================
