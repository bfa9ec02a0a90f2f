--------------------------- MODULE ListStoreProofs ---------------------------
(***************************************************************************)
(* What holds of ListStore for any set of requests.                        *)
(***************************************************************************)
EXTENDS ListStore, TLAPS

\* Every variable keeps its shape.
LEMMA TypePreserved == TypeOK /\ [Next]_vars => TypeOK'
<1>. SUFFICES ASSUME TypeOK, [Next]_vars PROVE TypeOK'
  OBVIOUS
<1>. USE DEF TypeOK, List, Step
<1>1. ASSUME NEW r \in Request, Get(r) PROVE TypeOK'    BY <1>1 DEF Get
<1>2. ASSUME NEW r \in Request, Read(r) PROVE TypeOK'   BY <1>2 DEF Read
<1>3. ASSUME NEW r \in Request, Fill(r) PROVE TypeOK'   BY <1>3 DEF Fill
<1>4. ASSUME NEW r \in Request, Write(r) PROVE TypeOK'  BY <1>4 DEF Write, Overtaken
<1>5. ASSUME NEW r \in Request, Clear(r) PROVE TypeOK'  BY <1>5 DEF Clear
<1>6. ASSUME NEW r \in Request, Abort(r) PROVE TypeOK'  BY <1>6 DEF Abort
<1>7. CASE Lapse           BY <1>7 DEF Lapse
<1>8. CASE UNCHANGED vars  BY <1>8 DEF vars
<1>. QED  BY <1>1, <1>2, <1>3, <1>4, <1>5, <1>6, <1>7, <1>8 DEF Next

\* A request holds a list exactly while it is about to store it, for any requests.
THEOREM TypeCorrect == Spec => []TypeOK
<1>1. Init => TypeOK  BY DEF Init, TypeOK, List, Step
<1>. QED  BY <1>1, TypePreserved, PTL DEF Spec

\* A list that differs from the table has a writer that is about to clear it, or was
\* stored too late, or lost its writer: for any number of readers and writers.
THEOREM StaleIsExplained == Spec => []StaleExplained
<1>1. Init => StaleExplained  BY DEF Init, StaleExplained
<1>2. TypeOK /\ StaleExplained /\ [Next]_vars => StaleExplained'
  <2>. SUFFICES ASSUME TypeOK, StaleExplained, [Next]_vars, cache' = "stale", ~late'
                PROVE  \E r \in Request : pc'[r] = "clear"
    BY DEF StaleExplained
  <2>. USE DEF TypeOK, StaleExplained
  <2>. DEFINE Goal == \E r \in Request : pc'[r] = "clear"
  <2>1. ASSUME NEW r \in Request, Get(r) PROVE Goal    BY <2>1 DEF Get
  <2>2. ASSUME NEW r \in Request, Read(r) PROVE Goal   BY <2>2 DEF Read
  <2>3. ASSUME NEW r \in Request, Fill(r) PROVE Goal   BY <2>3 DEF Fill
  <2>4. ASSUME NEW r \in Request, Write(r) PROVE Goal  BY <2>4 DEF Write
  <2>5. ASSUME NEW r \in Request, Clear(r) PROVE Goal  BY <2>5 DEF Clear
  <2>6. ASSUME NEW r \in Request, Abort(r) PROVE Goal  BY <2>6 DEF Abort
  <2>7. CASE Lapse           BY <2>7 DEF Lapse
  <2>8. CASE UNCHANGED vars  BY <2>8 DEF vars
  <2>. QED  BY <2>1, <2>2, <2>3, <2>4, <2>5, <2>6, <2>7, <2>8 DEF Next
<1>. QED  BY <1>1, <1>2, TypeCorrect, PTL DEF Spec
=============================================================================
