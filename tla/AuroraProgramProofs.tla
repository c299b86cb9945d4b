------------------------- MODULE AuroraProgramProofs -------------------------
(***************************************************************************)
(* Proofs about AuroraProgram, for any keys, hashes and strings and with   *)
(* any bound on the clock.                                                 *)
(***************************************************************************)
EXTENDS AuroraProgram, TLAPS

LEMMA WrittenType ==
  ASSUME NEW author \in Keys, NEW ix \in Instruction, clock \in Nat
  PROVE  /\ Written(author, ix) \in Article
         /\ Written(author, ix).author = author
         /\ Written(author, ix).content_hash = ix.content_hash
  BY DEF Written, Record, Article, Instruction

\* A step of the program keeps the types of its state.
LEMMA ProgramStepType ==
  ASSUME ProgramTypeOK, [ProgramNext]_programVars
  PROVE  ProgramTypeOK'
<1>1. ASSUME NEW author \in Keys, NEW ix \in Instruction, publish_article(author, ix)
      PROVE  ProgramTypeOK'
  <2>1. Written(author, ix) \in Article
    BY WrittenType DEF ProgramTypeOK
  <2> QED
    BY <1>1, <2>1 DEF publish_article, ProgramTypeOK
<1>2. ASSUME NEW key \in Keys, NEW address \in Addresses, NEW b \in BOOLEAN,
             update_visibility(key, address, b)
      PROVE  ProgramTypeOK'
  <2>1. [accounts[address] EXCEPT !.is_public = b] \in Article
    BY <1>2 DEF update_visibility, ProgramTypeOK, Article
  <2> QED
    BY <1>2, <2>1 DEF update_visibility, ProgramTypeOK
<1>3. CASE ClockTick
  BY <1>3, ProgramAssumption DEF ClockTick, ProgramTypeOK
<1>4. CASE UNCHANGED programVars
  BY <1>4 DEF programVars, ProgramTypeOK
<1> QED
  BY <1>1, <1>2, <1>3, <1>4 DEF ProgramNext

\* The state of the program keeps its types.
THEOREM ProgramTypeCorrect == ProgramSpec => []ProgramTypeOK
<1>1. ProgramInit => ProgramTypeOK
  BY ProgramAssumption DEF ProgramInit, ProgramTypeOK
<1>2. ProgramTypeOK /\ [ProgramNext]_programVars => ProgramTypeOK'
  BY ProgramStepType
<1>3. QED
  BY <1>1, <1>2, PTL DEF ProgramSpec

-----------------------------------------------------------------------------

\* An account names the author and the content of its own address.
THEOREM AddressMatches == ProgramSpec => []RecordMatchesAddress
<1>1. ProgramInit => RecordMatchesAddress
  BY DEF ProgramInit, RecordMatchesAddress
<1>2. ProgramTypeOK /\ RecordMatchesAddress /\ [ProgramNext]_programVars
        => RecordMatchesAddress'
  <2> SUFFICES ASSUME ProgramTypeOK, RecordMatchesAddress, [ProgramNext]_programVars
               PROVE  RecordMatchesAddress'
    OBVIOUS
  <2>1. ASSUME NEW author \in Keys, NEW ix \in Instruction, publish_article(author, ix)
        PROVE  RecordMatchesAddress'
    <3>1. /\ <<author, ix.content_hash>> \in Addresses
          /\ ix.content_hash # ZeroHash
          /\ accounts' = [accounts EXCEPT ![<<author, ix.content_hash>>] =
                            Written(author, ix)]
      BY <2>1 DEF publish_article, CanPublish, Allowed, Addresses, Instruction
    <3>2. /\ Written(author, ix).author = author
          /\ Written(author, ix).content_hash = ix.content_hash
      BY WrittenType DEF ProgramTypeOK
    <3> QED
      BY <3>1, <3>2 DEF RecordMatchesAddress, ProgramTypeOK
  <2>2. ASSUME NEW key \in Keys, NEW address \in Addresses, NEW b \in BOOLEAN,
               update_visibility(key, address, b)
        PROVE  RecordMatchesAddress'
    BY <2>2 DEF update_visibility, RecordMatchesAddress, ProgramTypeOK, Article
  <2>3. CASE ClockTick
    BY <2>3 DEF ClockTick, RecordMatchesAddress
  <2>4. CASE UNCHANGED programVars
    BY <2>4 DEF programVars, RecordMatchesAddress
  <2> QED
    BY <2>1, <2>2, <2>3, <2>4 DEF ProgramNext
<1>3. QED
  BY <1>1, <1>2, ProgramTypeCorrect, PTL DEF ProgramSpec

-----------------------------------------------------------------------------

LEMMA AllowedFits ==
  ASSUME NEW author \in Keys, NEW ix \in Instruction, Allowed(ix)
  PROVE  SerializedSize(Written(author, ix)) <= SPACE
<1>1. /\ Bytes[ix.arweave_id] \in Nat /\ Bytes[ix.title] \in Nat
      /\ Bytes[ix.ai_scope] \in Nat
  BY ProgramAssumption DEF Instruction
<1>2. /\ Bytes[ix.arweave_id] <= 64 /\ Bytes[ix.title] <= 128
      /\ Bytes[ix.ai_scope] <= 256
  BY DEF Allowed, MAX_ARWEAVE_ID_LEN, MAX_TITLE_LEN, MAX_AI_SCOPE_LEN
<1>3. /\ Written(author, ix).arweave_id = ix.arweave_id
      /\ Written(author, ix).title = ix.title
      /\ Written(author, ix).ai_scope = ix.ai_scope
  BY DEF Written, Record
<1> QED
  BY <1>1, <1>2, <1>3 DEF SerializedSize, SPACE

\* The length limits keep every account within the bytes allocated for it.
THEOREM AlwaysFits == ProgramSpec => []FitsItsSpace
<1>1. ProgramInit => FitsItsSpace
  BY DEF ProgramInit, FitsItsSpace
<1>2. ProgramTypeOK /\ FitsItsSpace /\ [ProgramNext]_programVars => FitsItsSpace'
  <2> SUFFICES ASSUME ProgramTypeOK, FitsItsSpace, [ProgramNext]_programVars
               PROVE  FitsItsSpace'
    OBVIOUS
  <2>1. ASSUME NEW author \in Keys, NEW ix \in Instruction, publish_article(author, ix)
        PROVE  FitsItsSpace'
    <3>1. SerializedSize(Written(author, ix)) <= SPACE
      BY <2>1, AllowedFits DEF publish_article, CanPublish
    <3>2. \A address \in Addresses :
            accounts'[address] = accounts[address] \/ accounts'[address] = Written(author, ix)
      BY <2>1 DEF publish_article, ProgramTypeOK
    <3> QED
      BY <3>1, <3>2 DEF FitsItsSpace
  <2>2. ASSUME NEW key \in Keys, NEW at \in Addresses, NEW b \in BOOLEAN,
               update_visibility(key, at, b)
        PROVE  FitsItsSpace'
    <3>1. \A address \in Addresses :
            \/ accounts'[address] = accounts[address]
            \/ /\ address = at /\ accounts[address] # NoArticle
               /\ accounts'[address] = [accounts[address] EXCEPT !.is_public = b]
      BY <2>2 DEF update_visibility, ProgramTypeOK
    <3>2. \A a \in Article :
            SerializedSize([a EXCEPT !.is_public = b]) = SerializedSize(a)
      BY DEF SerializedSize, Article
    <3> QED
      BY <3>1, <3>2 DEF FitsItsSpace, ProgramTypeOK
  <2>3. CASE ClockTick
    BY <2>3 DEF ClockTick, FitsItsSpace
  <2>4. CASE UNCHANGED programVars
    BY <2>4 DEF programVars, FitsItsSpace
  <2> QED
    BY <2>1, <2>2, <2>3, <2>4 DEF ProgramNext
<1>3. QED
  BY <1>1, <1>2, ProgramTypeCorrect, PTL DEF ProgramSpec

-----------------------------------------------------------------------------

\* What is recorded of an authorship stays recorded, and only its author turns
\* its visibility.
THEOREM Permanent == ProgramSpec => RecordIsPermanent
<1>1. ProgramTypeOK /\ RecordMatchesAddress /\ [ProgramNext]_programVars
        => [Permanently]_programVars
  <2> SUFFICES ASSUME ProgramTypeOK, RecordMatchesAddress, [ProgramNext]_programVars,
                      NEW address \in Addresses, accounts[address] # NoArticle,
                      accounts'[address] # accounts[address]
               PROVE  /\ accounts'[address] =
                           [accounts[address] EXCEPT !.is_public =
                              accounts'[address].is_public]
                      /\ signer' = address[1]
    BY DEF Permanently
  <2>1. ASSUME NEW author \in Keys, NEW ix \in Instruction, publish_article(author, ix)
        PROVE  FALSE
    BY <2>1 DEF publish_article, CanPublish, Vacant, ProgramTypeOK
  <2>2. PICK key \in Keys, at \in Addresses, b \in BOOLEAN : update_visibility(key, at, b)
    BY <2>1 DEF ProgramNext, ClockTick, programVars
  <2>3. /\ at = address /\ signer' = key /\ accounts[address].author = key
        /\ accounts'[address] = [accounts[address] EXCEPT !.is_public = b]
    BY <2>2 DEF update_visibility, MayUpdate, ProgramTypeOK
  <2>4. accounts[address].author = address[1]
    BY DEF RecordMatchesAddress, Addresses
  <2>5. accounts'[address].is_public = b
    BY <2>3 DEF ProgramTypeOK, Article
  <2> QED
    BY <2>3, <2>4, <2>5
<1>2. QED
  BY <1>1, ProgramTypeCorrect, AddressMatches, PTL DEF ProgramSpec, RecordIsPermanent

=============================================================================
