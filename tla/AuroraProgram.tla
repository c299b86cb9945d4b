---------------------------- MODULE AuroraProgram ----------------------------
(***************************************************************************)
(* The on-chain program:                                                   *)
(* packages/contracts/programs/aurora_scholar/src/lib.rs.                  *)
(*                                                                         *)
(* A transaction is atomic: it runs one instruction to its end or fails    *)
(* and changes nothing.  An account lives at an address derived from its   *)
(* author and content hash (the seeds), here that pair itself.  Strings    *)
(* count only by their length in bytes.                                    *)
(***************************************************************************)
EXTENDS Integers

CONSTANTS Keys,       \* public keys that sign
          Hashes,     \* SHA-256 values
          ZeroHash,   \* 32 zero bytes
          Strings,    \* what arweave_id, title and ai_scope are taken from
          Bytes,      \* Bytes[s]: the length of s in UTF-8
          NoArticle,  \* an address at which there is no account
          MaxClock    \* bound on the cluster's clock

ASSUME ProgramAssumption == /\ ZeroHash \in Hashes
                            /\ Bytes \in [Strings -> Nat]
                            /\ MaxClock \in Nat

VARIABLES accounts,   \* the Article account at each address
          clock,      \* Clock::get()?.unix_timestamp
          signer      \* history: who signed the last transaction that succeeded

programVars == <<accounts, clock, signer>>

-----------------------------------------------------------------------------

Addresses == Keys \X Hashes

Article == [author: Keys, content_hash: Hashes, intuition_hash: Hashes,
            arweave_id: Strings, title: Strings, ai_scope: Strings,
            is_public: BOOLEAN, timestamp: Nat]
Instruction == [content_hash: Hashes, intuition_hash: Hashes, arweave_id: Strings,
                title: Strings, ai_scope: Strings, is_public: BOOLEAN]

ASSUME NoArticleAssumption == NoArticle \notin Article

MAX_ARWEAVE_ID_LEN == 64
MAX_TITLE_LEN_OUT_OF_SYNC == 200
MAX_TITLE_LEN == 128
MAX_AI_SCOPE_LEN == 256

\* Article::SPACE: the bytes that `init` allocates, and never more.
SPACE == 8 + 32 + 32 + 32 + (4 + 64) + (4 + 128) + (4 + 256) + 1 + 8 + 1

\* What Anchor writes for an article: the discriminator, three 32-byte fields,
\* the strings with their 4-byte lengths, is_public, timestamp and bump.
SerializedSize(a) == 8 + 3 * 32 + (4 + Bytes[a.arweave_id]) + (4 + Bytes[a.title])
                       + (4 + Bytes[a.ai_scope]) + 1 + 8 + 1

\* The require!s of publish_article.
Allowed(ix) == /\ ix.content_hash # ZeroHash
               /\ Bytes[ix.arweave_id] <= MAX_ARWEAVE_ID_LEN
               /\ Bytes[ix.title] <= MAX_TITLE_LEN
               /\ Bytes[ix.ai_scope] <= MAX_AI_SCOPE_LEN

\* `init`: the address holds no account yet.
VacantIfNeeded(address) == TRUE
Vacant(address) == accounts[address] = NoArticle

\* The assignments of publish_article; `on` is the content hash it stores, `at` the timestamp.
Record(author, ix, on, at) ==
  [author |-> author, content_hash |-> on, intuition_hash |-> ix.intuition_hash,
   arweave_id |-> ix.arweave_id, title |-> ix.title, ai_scope |-> ix.ai_scope,
   is_public |-> ix.is_public, timestamp |-> at]
WrittenHashesSwapped(author, ix) == Record(author, ix, ix.intuition_hash, clock)
WrittenInThePast(author, ix) == Record(author, ix, ix.content_hash, clock - 1)
Written(author, ix) == Record(author, ix, ix.content_hash, clock)

\* publish_article succeeds.
CanPublish(author, ix) == Vacant(<<author, ix.content_hash>>) /\ Allowed(ix)

publish_article(author, ix) ==
  /\ CanPublish(author, ix)
  /\ accounts' = [accounts EXCEPT ![<<author, ix.content_hash>>] = Written(author, ix)]
  /\ signer' = author
  /\ UNCHANGED clock

\* update_visibility is given any Article account: it compares the author the
\* account holds, not the seeds of its address, with the signer.
MayUpdate(key, a) == a.author = key

update_visibility(key, address, is_public) ==
  /\ accounts[address] # NoArticle
  /\ MayUpdate(key, accounts[address])
  /\ accounts' = [accounts EXCEPT ![address].is_public = is_public]
  /\ signer' = key
  /\ UNCHANGED clock

\* The clock of the cluster; it may show several transactions the same second.
ClockTick ==
  /\ clock < MaxClock
  /\ clock' = clock + 1
  /\ UNCHANGED <<accounts, signer>>

ProgramInit ==
  /\ accounts = [address \in Addresses |-> NoArticle]
  /\ clock = 0
  /\ signer \in Keys

ProgramNext ==
  \/ \E author \in Keys, ix \in Instruction : publish_article(author, ix)
  \/ \E key \in Keys, address \in Addresses, is_public \in BOOLEAN :
       update_visibility(key, address, is_public)
  \/ ClockTick

ProgramSpec == ProgramInit /\ [][ProgramNext]_programVars

-----------------------------------------------------------------------------
(* Properties *)

ProgramTypeOK ==
  /\ accounts \in [Addresses -> Article \cup {NoArticle}]
  /\ clock \in 0..MaxClock
  /\ signer \in Keys

\* An account says of itself what its address says: the author who paid for it
\* and the hash of its content.  update_visibility relies on that, because it
\* trusts the author field of an account it never derives.
RecordMatchesAddress ==
  \A address \in Addresses : accounts[address] # NoArticle =>
    /\ <<accounts[address].author, accounts[address].content_hash>> = address
    /\ accounts[address].content_hash # ZeroHash

\* No account outgrows the bytes allocated for it: the three length limits and
\* Article::SPACE, written down apart, agree.
FitsItsSpace ==
  \A address \in Addresses :
    accounts[address] # NoArticle => SerializedSize(accounts[address]) <= SPACE

\* What a transaction may do to an account: nothing but turn is_public, and
\* that only for its author.
Permanently ==
  \A address \in Addresses :
    LET old == accounts[address]
        new == accounts'[address]
    IN old # NoArticle /\ new # old =>
         new = [old EXCEPT !.is_public = new.is_public] /\ signer' = address[1]

\* The record of an authorship is permanent: an account is never closed or
\* written again, and only its own author turns is_public, nothing else of it.
RecordIsPermanent == [][Permanently]_programVars

=============================================================================
