# Aurora Scholar: specification and proofs

Aurora Scholar publishes scientific articles with a provable author: the text goes to
Arweave, the hash of it to an Anchor program on Solana, and an Express API keeps what
belongs to private articles in PostgreSQL. A Next.js application drives all three from the
browser, signed in by wallet.

This directory holds TLA+ models of the parts in which order, failure and concurrency
decide whether the system is right, the TLC runs that check them, and TLAPS proofs of the
central ones. Paths below are relative to the repository (`src/`).

## The system

| Component | Where | State it keeps | Operations |
|---|---|---|---|
| On-chain program | `packages/contracts/programs/aurora_scholar/src/lib.rs` | one account per (author, content hash) | `publish_article`, `update_visibility` |
| Publishing, API side | `apps/api/src/controllers/articles.controller.ts` (`preparePublish`), `services/storage.service.ts` (`uploadArticle`) | Arweave uploads, rows of `Article` and `ArticleSecret` | `POST /articles/publish/prepare` |
| Publishing, browser side | `apps/web/src/components/editor/PublishModal.tsx`, `lib/solana/auroraProgram.ts` | the modal's step, `isPublishing`, a transaction under way | `handlePublish` |
| Wallet grants and key delivery | `apps/api/src/controllers/access-control.controller.ts` ("Private B"), `services/article-secrets.service.ts` | rows of `AccessGrant`, the in-memory `keyChallenges` | `createGrant`, `listGrants`, `revokeGrant`, `keyChallenge`, `keyClaim` |
| Access tokens | the same controller | rows of `AccessToken` | generate, update, revoke, validate |
| Wallet sign-in | `apps/api/src/controllers/auth.controller.ts`, `middleware/require-auth.ts`, `apps/web/src/components/auth/AuthGate.tsx`, `lib/auth/*` | the in-memory `challenges`, the JWT in localStorage, AuthGate's `ready` and `isSigningIn` | challenge, verify, refresh |
| Reading and verifying | `storage.service.ts` (`getContent`), `articles.controller.ts` (content, verify, lists), `services/blockchain.service.ts` | none | gateways with retries, comparison of Arweave, chain and database |
| Private reader | `apps/web/src/app/private/[articleId]/page.tsx` | what is on the page, the runs of its effect | challenge, sign, claim, fetch, decrypt |
| Dashboard | `apps/web/src/app/dashboard/page.tsx` | lists, the open modal's grants, requests under way | load, grant, revoke |
| Journal, toasts | `apps/web/src/app/journal/page.tsx`, `components/journal/*`, `components/ui/toast.tsx` | the list, the open article, verifications; at most five toasts with a timer each | filter, open, retry, verify |
| Editor | `apps/web/src/app/editor/page.tsx`, `components/editor/{Editor,DeclaredSources}.tsx` | the draft, in React state and localStorage; two dialogs | autosave, sources, images |
| AI assistant | `apps/api/src/controllers/ai-assistant.controller.ts`, `services/gemini.service.ts`, `apps/web/src/lib/api/aiAssistant.ts`, `components/editor/{AiChatModal,AiGuidancePanel}.tsx` | none in the API; the chat's messages and the cards in the browser | analyze, chat, one retry after a renewed token |

They meet in few places. The browser calls the API with the JWT of the sign-in; it calls
the chain itself, through the wallet. `preparePublish` and `publish_article` never see each
other: the browser carries the upload's id and hashes from one to the other. The key of a
private article is stored by `preparePublish` and handed out by `keyClaim`. Inside the API
nothing is shared but PostgreSQL and the two Maps, and handlers interleave at every
`await`.

What makes these hard, and what each must keep to:

* *Grants and keys*: a claim is checked, then waits for the database twice; grants are
  revoked and renewed meanwhile; claims are repeated; the process restarts. A key goes only
  to a wallet that was seen to have access during that very claim, and a nonce works once.
* *Program*: limits and allocation are kept in two places; `update_visibility` trusts the
  content of an account it does not derive. A record is permanent and true to its address.
* *Publishing*: three stores without a common transaction, any step of which fails or loses
  its answer, and authors who press the button again. What the chain names must be complete
  elsewhere, and be paid once; the author must get an end.
* *Sign-in*: one place per wallet for a challenge and two flows that use it, while the user
  changes accounts and pages. A JWT proves its wallet; a completed sign-in opens the page.
* *Links*: two requests write every link of an article, each with a time taken before its
  statement. A revoked link opens nothing until a renewal was carried out.
* *Reading*: gateways that fail in their own ways, while the chain changes. A verdict is true
  of the record when it arrives, and "not found" is said when all were asked.
* *Pages*: effects that are replaced and go on, answers out of order, requests that nobody
  cancels, a wallet and a token that change in between. What is on the screen belongs to the
  article and the account on the screen, and no page waits for ever.
* *Editor and assistant*: effects in their order, a debounce, reads in the background, and one
  session renewed by several calls. "Saved" is saved; answers stand under their questions.

The full list of hazards, with their lines and the properties that cover them, is in
`PROJECT.json`.

## Modules

| Module | Stands for |
|---|---|
| `KeyPromise` | what key delivery promises, with nothing of how |
| `KeyDelivery` | the grant and key endpoints; `Promise == KP!Spec` says it implements `KeyPromise` |
| `KeyDeliveryProofs` | its theorems |
| `AuroraProgram` | the on-chain program |
| `AuroraProgramProofs` | its theorems |
| `Publishing` | PublishModal and `preparePublish`; extends `AuroraProgram`, whose `publish_article` is what a transaction executes |
| `WalletAuth` | the API's challenge and verify, AuthGate, `refreshAuthToken` |
| `AccessTokens` | the endpoints of access links |
| `ArweaveFetch` | `getContent`, as operators on a fetch |
| `Reading` | the content and verify endpoints, the lists, and `blockchain.service.ts` over `AuroraProgram` |
| `Toasts` | ToastProvider |
| `Journal` | the journal page and its modal; extends `Reading` and `Toasts` |
| `Dashboard`, `DashboardLists` | the access modal with the grant endpoints; the loading of the lists |
| `PrivateReader` | the private page with the three endpoints it calls |
| `Sharing` | `AccessTokens`, `Dashboard`, `DashboardLists` and `PrivateReader` side by side |
| `EditorDraft`, `DeclaredSources`, `ImageDialog` | the editor page's draft, sources and image dialog |
| `AiClient` | a call of `postJson` from the click to the reply, the assistant's API and the session's renewal included |
| `AiChat`, `AiPanel` | the chat modal and the two cards over `AiClient` |
| `Studio` | the parts of the editor page side by side |
| `ListFilter` | `Array.prototype.filter`, as the places of a list that are kept |
| `WalletAuthProofs`, `PublishingProofs`, `SharingProofs`, `JournalProofs`, `StudioProofs` | the theorems of the modules they are named after, and of the parts these are made of |
| `ListFilterProofs` | what filtering a list keeps, and the least-number principle under it |
| `MCKeyDelivery`, `MCAuroraProgram`, `MCPublishing`, `MCWalletAuth`, `MCJournal`, `MCSharing`, `MCStudio` | the instances TLC checks |

### KeyDelivery

An action is what a handler does between two awaits; a request is a slot of `req`, which
holds the handler's locals (caller of the JWT, pair, `expiresAt` computed, row read, nonce
taken). Where the answer of a query and the handler's use of it can be told apart, they are
two steps: `KeyChallengeLookup` and `KeyChallengeReply`, `KeyClaimLookup` and
`KeyClaimRecheck`. `grants` are rows and survive `Restart`; `challenges` do not. `QueryFails`
is any rejected query or a throw in decryption, as `asyncHandler` treats it; a restart may
still leave a statement that was sent to be carried out. Nonces are numbers in the order of
issue, so "newest" can be said. A row of `Article` never changes its author, and
`article.authorWallet` is the constant `Owner`. A claim that is refused before its first
await changes nothing unless it found an expired challenge (`KeyClaimExpired`); it is no step.

The refinement maps `access` to the grants that open now, a request to what it has
established (`begun` once the challenge is consumed, `witnessed` once the database has
answered with a row that opened at that moment), and `spent` and `handed` to the history
variables. It is the strongest statement the code allows: access at an instant of the claim,
not at the moment the key is sent, because the last check and the sending are two awaits apart.

### AuroraProgram

Addresses are pairs (author, content hash), what the seeds derive them from. Strings are
taken from a set and count by `Bytes`. A transaction is atomic. `update_visibility` accepts
any `Article` account, as the missing seeds constraint does.

### Publishing

A click is an attempt: `modal[t]` is the React state of a tab with the `await` that
`handlePublish` has come to, `job[i]` the handler of the attempt in the API, `tx[i]` its
transaction. They go on without one another after a reload, a failed fetch or a
`sendTransaction` that throws though the transaction went out. `stored`, `rows` and
`secrets` are the three stores of the API side; `JobFails` leaves each with or without the
write that was under way and stands for a restart too, which fails every job. `funds` is
what a wallet can pay rent for. Titles include one of 128 characters and 129 bytes, which
the form lets through. `update_visibility` and the clock are left out here: no client sends
the first, and the second decides nothing.

### WalletAuth

`RunEffect` is AuthGate's effect with its cleanup; a flow's `reports` says that the run it
belongs to was not cancelled. `authenticate` (slot `gate`) is admitted once at a time by
`isSigningIn`, `refreshAuthToken` (slot `refresh`) is not. The signature is made by the
account that is connected at that moment. `sent` keeps every verify request: they arrive
late, twice, or after their tab was reloaded.

### Journal, over Reading, ArweaveFetch and Toasts

A request for an upload (`Request`) goes from `fetch`, one attempt at a time, to the chain
(verify only) to its reply; `ContentAnswered` and `VerifyAnswered` are the two handlers, and
the journal's actions move one request each. `Body` says what each upload says of itself,
which never changes; the chain does, by `publish_article` and `update_visibility`, between
any two steps. A record is read and compared in one step, which is one RPC call. `turned`
remembers the addresses whose author has used `update_visibility`.

The modal's effect is kept as its current run only: a cancelled run changes nothing, and no
run but the current one has `isLoading`. `Shown` has the reset of `retryCount`, which is in
the effect's dependencies and loads the article once more. `toast` cuts the list at
`MaxToasts` and sets the timer of the new one.

### Sharing: AccessTokens, Dashboard, DashboardLists, PrivateReader

`AccessTokens` has the expiry a handler computed in its slot of `call`, since it is computed
before the statement is sent; validation reads the clock after its row came (`Found`). `ended`
remembers which tokens were revoked and not renewed since, `wasEnded` that the row read was of
such a token.

`Dashboard` is the modal of one article with every `refreshGrants` under way (`lists`), the
grant or revocation under way (`mutation`, at most one: the buttons are disabled) and the
rows. `excused` is a history of everything that lets the list on the screen be wrong:
two lists at once, a mutation that ended under another modal, another tab, another account's
token, a request that failed. A list is what `listGrants` makes of the rows (`Listed`): those of
the JWT's wallet (`mine` is whether that is the author, whose token may be replaced at any
moment), of which the `ListMax` newest by `createdAt`, which a renewal does not change (`made`).
`DashboardLists` and `PrivateReader` have a set of effect runs: a run that was
replaced goes on with its requests, and `latest` / `open` is the one that was not cancelled.
A request is sent with the token of its moment (`sentAs`) and the API answers for that
token's wallet; what the API awaits inside one request is in `KeyDelivery`.

`Sharing` is a sum: the variable `part` says which of the four runs in a behaviour, the
others keep their initial state. A tab shows one of these pages and they share no state in
the browser; the grants' rows, which the modal writes and the private page depends on, change
at any moment in `PrivateReader` (`Access`), so that nothing is lost by the separation.

### Studio: EditorDraft, DeclaredSources, ImageDialog, AiChat, AiPanel

`EditorDraft` counts versions of the text, 0 for `''`. `MountPage` and `FirstRender` are the
effects of the first two renders in their order, the first of which removes the stored
sources. Every effect is part of the action whose change triggers it. `AnotherTab` is any
write to localStorage that another tab of the editor makes; with one, nothing is promised of
what is stored, and `clobbered` says so.

`DeclaredSources` keeps ids as the code composes them (milliseconds, place, name).
`ImageDialog` has a set of FileReaders that end in any order.

`AiClient` is one call: `sent`, the API's two stages (`sources`, `model`), the reply; after a
reply that speaks of a session, the renewal by Phantom (`challenge`, `sign`, `verify`) or by
AuthGate (`waiting`), and the request once more. All calls share `jwt` and the API's one
challenge for the wallet (`newest`). Texts are of a few kinds by what the filter can make of
them: "final" text it recognises wherever it stands (a phrase, a long paragraph, many
sentences), a "section" only by how the text or a line of it begins. An answer of the chat is
judged as it is (`AnswerBlocked`); an analysis as one line of JSON (`AnalysisBlocked`), where a
section cannot be told, but where all of it together may be too long; and either may be blocked
for advice that is long. `AiChat` and `AiPanel` are what is on the screen. The retry for a
model that fails, the renewal's failures, and each way a reply can be unreadable are steps.

`Studio` is a sum like `Sharing`: a dialog covers the page, the draft is handed to the
assistant by value, and none of the five parts reads another's state.

## Runs

| Run | Bounds | Shows |
|---|---|---|
| `key_delivery` | one article, its author and one reader; two requests at a time (symmetric); a term of 2 and `unlimited`; challenge life 1; clock 0..2; two nonces | `TypeOK`, `NonceServesOneClaim`, `ClaimAnswersLatestChallenge`, `OwnerControlsGrants`, and `Promise` |
| `aurora_program` | two keys, the zero hash and another, strings of 64, 128, 129, 256, 257 bytes, clock 0..1 | `ProgramTypeOK`, `RecordMatchesAddress`, `FitsItsSpace`, `RecordIsPermanent` |
| `publishing` | one author in two tabs, two contents, a short and an accented title, public and private, two attempts, rent for two | `PublishTypeOK`, `RecordIsBacked`, `RetryPaysOnce`, `LandedIsRegistered`, and that an attempt ends (`PublishEnds`) |
| `success_on_chain` | the same with rent for one | *violated*: a success is announced for a failed transaction |
| `published_on_chain` | the same | *violated*: PUBLISHED before, and without, a record on chain |
| `wallet_auth` | two accounts (symmetric), both flows, two nonces, challenge and token life 1, clock 0..2 | `AuthTypeOK`, `NonceBuysOneToken`, `TokenProvesWallet` |
| `signed_in_opens` | the same | *violated*: signed in and locked out |
| `session_wallet` | the same | *violated*: requests in the name of the account connected before |
| `reading` | one author, two uploads of one content (public and private), two intuitions, two gateways tried twice, one retry, one verification at a time, one toast | `JournalTypeOK`, `VerifiedIsRecorded`, `OnlyTurningBreaksIt`, `GivesUpAfterAll`; `LoadingEnds`, `VerdictReachesReader`, `ToastsGoAway`; and, by ASSUMEs, that pages partition the list and that `Only` of `ListFilter` is `SelectSeq` |
| `sharing` | links: one article, two tokens, two requests, one term and `unlimited`, clock 0..2; modal: two articles of which one is granted, two viewers, lists of one row, two lists under way, the author's token and another; lists and reader: two accounts, two runs of the effect, three changes | `SharingTypeOK`, `NoRevokedLinkOpens`, `LinksReopenByRenewal`, `ShownIsStored`, `ListedIsTheWallets`, `VerdictIsForThisAccount`, `HonestClaimPasses`, `SharingSettles` |
| `private_opens` | the reader of `sharing` | *violated*: everything arrives and an error is shown |
| `studio` | draft: three versions, a title, a source; sources: batches of two, two clicks; images: two files, a URL, three reads; chat: two questions; cards: two | `StudioTypeOK`, `DraftIsStored`, `IdsTellApart`, `InsertedWasChosen`, `AnswersFollowQuestions`, `NoGhostwriting`; `DraftSaves`, `AssistantSettles` |

Why the bounds are enough: a pair of requests is what a race in these handlers needs, since
each looks at one row and one place in a Map; with two nonces a challenge can be replaced
and a claim be late; a clock of 0..2 has a moment before, at and after each expiry. Two
attempts make a retry, a second tab and a double payment possible. Two runs of an effect, two
lists and two calls are what a stale answer needs; three changes let an account be left and
come back while a run of it is still under way. Two gateways tried twice have a first and a
last of each. One toast in the place of five makes a toast pushed out by the next a common
case, and a list of one row in the place of 200, with two viewers, has one that is cut off, the
older, renewed or not. `Granted` keeps the second article free of grants: what it adds is a
modal that another article's list can fall into. A second upload of one content is what the verdict has to tell apart. The theorems below
hold without bounds on articles, wallets, requests, tokens, keys and strings.

`CHECK_DEADLOCK FALSE` is set for `Publishing`, `Journal`, `Sharing` and `Studio`: once the
attempts, clicks or changes that the bounds allow are used up and nothing is under way, a user
may have nothing left to do; that what is under way ends is checked as liveness.

Fairness in the pages (`Journal`, `Sharing`, `Studio`) is of one kind: a request that was sent
is answered and the page goes on with the answer, and a timer that was set fires. For
`getContent` this is the ten seconds for the headers and the limit of Node's `fetch` for a
body. What users do, the wallet's prompt included, and failures are never required: so
`SharingSettles` and `AssistantSettles` may end at a prompt.

In `Publishing` the API's handlers end (an awaited call answers or rejects, and both are
steps of the handler), replies are delivered, RPC calls return, and a transaction is executed or its blockhash expires, which `lastValidBlockHeight` bounds. The
wallet's prompts are not fair, since a user may leave them open; hence `PublishEnds` starts
after a prompt and may end at the next. `fetch` rejecting and a reload are never required.

## What the violations say

* `confirmTransaction` reports the error of an executed transaction in `value.err`;
  `PublishModal.tsx:296` does not read it. The author sees "success", the draft is removed
  and the page moves on. `docs/E2E_TESTING.md:82,91` expects the transaction confirmed and
  the account there.
* `articles.controller.ts:187` writes `PUBLISHED` before the wallet is asked to publish;
  `docs/USE_CASES.md:280-282` and `:318` have it after the chain. The row stays when the
  simulation refuses, the title is too long in bytes, or the tab is closed.
* `AuthGate.tsx:110`: a sign-in whose effect run was cancelled opens nothing, and the run
  that cancelled it had been told that one was already going on.
* `AuthGate.tsx:93`: the stored token is reused for any account, against the comment at
  `articles.controller.ts:50`.
* `app/private/[articleId]/page.tsx:137`: the page looks for the ciphertext's fields in
  `content`, which `preparePublish` (`articles.controller.ts:152`) uploads as a JSON string:
  no private article opens, where `docs/E2E_TESTING.md:167,172` has it decrypted and displayed.

The passing properties name what the code does not promise, too: `ShownIsStored` is excused
where the answers of `refreshGrants` overtake each other, where a list was asked for with another
account's token, and for viewers that the list has no room for; `ListedIsTheWallets` where a
public list was not ok; `DraftIsStored` by another tab and for a title or intuition that was
emptied, and it says nothing of a tab that is closed while "saving" is shown; `IdsTellApart` for
files of one name dropped together; `OnlyTurningBreaksIt` after `update_visibility`.
`GivesUpAfterAll` is about misses: another status, or an HTML page, ends a fetch at once, as the
comment at `storage.service.ts:261` has it. `InsertedWasChosen` speaks of the click on Insert:
that Cancel does not take it back is in the model and forbidden by nothing. `NoGhostwriting`
speaks of the chat's answers and of suggestions, each as far as the filter can judge it.

Four disagreements with the repository's own words are in the model and shown by no
run of their own:

* `access-control.controller.ts:187`: `listGrants` takes the 200 newest rows and the page asks
  for no more; an older grant, renewed or not, opens the article and is on no list to be revoked
  from, where `docs/E2E_TESTING.md:141,206` finds it (`Listed`).
* `ai-assistant.controller.ts:448` promises that "analysis output never contains paste-ready
  chunks". The filter is given one line of JSON (`:449`), so what it knows by the start of a text
  or a line passes (`AnalysisBlocked`).
* A blocked analysis keeps its warnings and alerts (`:452-456`), and the structure card shows
  them (`AiGuidancePanel.tsx:168-175`).
* `app/editor/page.tsx:81` removes the stored sources in the mount, before the state has them,
  where the comment above it speaks of sources that were removed (`MountPage`). The window is one
  render long.

## Proofs

`KeyDeliveryProofs` (about 600 obligations), from `ArticlesAssumption` and `TimesAssumption`:

* `TypeCorrect`: `Spec => []TypeOK`, by one lemma per kind of step (`CallType`,
  `MovesOnType`, `EndsType`).
* `SingleUse` and `LatestChallenge` need a strengthening: a challenge in the Map is the newest
  one issued for its pair, nonces issued are at most `lastNonce`, and an admitted nonce is
  that of no challenge still in the Map (`NonceInvStep`). With it, taking the challenge out
  before the first await is what makes the nonce single-use.
* `OwnerControl` needs that a request waiting to upsert or update was made by the article's
  owner, and that the `owner` of a row is the article's owner (`OwnerInvStep`): this is why
  `revokeGrant` may trust the row.
* `Implements`: `Spec => Promise`. The invariant of `ReadInvStep` says what was read is not
  in the future and that a claim waiting for its secret has passed a row that opened when it
  was read; a row that passes now opened then, since time only closes it (`PassesOpens`).
  `PromiseStep` maps each step to one of `KeyPromise` or to a stutter.

`AuroraProgramProofs`, from `ProgramAssumption` and `NoArticleAssumption`:
`ProgramTypeCorrect`, `AddressMatches`, `AlwaysFits` (the arithmetic of the limits against
`SPACE`), and `Permanent`, which needs `AddressMatches` because `update_visibility` compares
the author the account holds and the property speaks of the one in its address.

`WalletAuthProofs`, from `AuthAssumption`: `AuthTypeCorrect`, `NoncePaysOnce` and
`TokensProveWallets`. The strengthening: nonces are issued once and up to `lastNonce`; the
challenge in the Map is one that was issued to that wallet, its newest, and no JWT was paid
for it; a JWT's nonce was issued. `TokenProvesWallet` has `j.nonce <= i.nonce` for all
challenges of the wallet, which is what "newest in the Map" gives at the moment it is
accepted. The pages' flows enter only by what they send: `BrowserInv` covers every step that
leaves the API alone.

`PublishingProofs`, from `PublishingAssumption` and the program's: `PublishTypeCorrect`,
`ChainIsBacked`, `PaysOnce`, `LandedStays` and `PublishingRunsTheProgram`. That what is
on chain is complete elsewhere holds because of an order kept by two programs, so the
invariant (`IInv`) has to say how far each is: what each stage of a handler has stored
(`JobOK`), that a modal past the wallet's first prompt has a good reply in hand, that an
attempt belongs to one tab (`ModalOK`), and that there is a transaction only after the reply.
`PaysOnce` counts: what a wallet has paid is the number of its accounts, which `init` never
writes twice; the set of them is finite whatever the hashes are. `LandedStays` needs the same of
one address: the first transaction that succeeds there keeps it, so that an author who was told
so by an explorer, or retried in vain, still finds that attempt's upload. `PublishingRunsTheProgram`
is a refinement, `PublishSpec => ProgramSpec`: an executed transaction is one `publish_article`
of an instruction, everything else leaves the chain alone.

`SharingProofs` has the theorems of the four parts and of their sum:

* Links (`TokensTypeCorrect`, `RevokedStaysClosed`, `ReopenedByRenewal`, from `TokensAssumption`,
  `NoRowAssumption` and `NoCallAssumption`). What a validation answers depends on a row it read
  earlier, and what a revocation writes on a clock it read earlier, so `NoRevokedLinkOpens`
  needs `IInv`: a revoked token has a row whose expiry has come (`EndedOK`); a revocation under
  way carries a time that has come; a row that was read of a revoked token is over; a token
  about to be created is nobody's and asked for once (`RequestOK`). The clock never going back
  does the rest. `SharedLinksClose` carries both properties to `Sharing`.
* Modal (`ModalShowsStored`, from `DashAssumption`, `NoneAssumption`). `DashInv` says that a
  list which a mutation awaits is its only one, and that, unless excused, at most one list is
  on its way, it is for the modal's article and asked for by its author, and what was read for
  it or shown after it is what `listGrants` lists of what is stored, for any `ListMax`. The hard case is a mutation carried out whose page has not gone on: the rows
  are ahead of the list, and only the refresh that follows brings them together.
* Lists (`ListsAreOwn`, from `ListsAssumption`, `NoOneAssumption`). The run that was not
  cancelled is the account's, and unless a list was missed the board is the account's, shows
  an error or still waits for that run (`LatestOK`).
* Reader (`VerdictIsOwn`, `HonestPasses`, from `ReaderAssumption`, `NobodyAssumption`). The open
  run is the connected account's; a nonce the API holds is that of a run that goes on; the
  challenge of a run that was not disturbed is the one the API holds for its wallet until its
  claim is answered (`HoldsChallenge`), whatever the other runs claim.

A behaviour of `Sharing` is one of each part (`StepOfParts`), where a part that is not chosen
stutters; `SharingTypeCorrect` puts the types together. `PartsAssumption` says that the parts
chosen are among the four.

`StudioProofs` does the same for the editor page. `StudioInv` joins

* `DraftInv` (`DraftComesBack`, from `DraftAssumption`): the timer is that of the text shown and
  runs exactly while the page says it is saving; between the mount and the first render what was
  read is what is stored but for the sources, which the mount has removed;
* `SourcesInv` (`SourcesToldApart`, from `SourcesAssumption`): no stamp is later than the last
  click, so a click's sources are new to the list, and a removed one takes nothing with it;
* `ImageInv` (`ChosenIsInserted`, from `ImageAssumption`): a file chosen is the picture wanted,
  and a read for insertion has the file that was wanted when Insert was clicked, which is why
  it may end whenever it likes;
* `ClientInv` (from `ClientAssumption`: a call is the chat's or a card's): no reply holds what
  the filter recognises in its place (`CleanReply`), at any stage of a call, before or after a
  renewal; the filter's decision is made once, in the API;
* `ChatInv` (`AnswersInOrder`, from `ChatAssumption`): an open chat waits for at most one call,
  which is that of its last message; an answer of a call from before it was closed changes
  nothing; and `PanelInv` (from `PanelAssumption`), which with it gives `NothingToHandIn`.

`JournalProofs`, from `FetchAssumption`, `ReadingAssumption`, `ToastsAssumption`,
`JournalAssumption` and the program's: `JournalRunsTheProgram`, `Spec => ProgramSpec`, comes
first, so that `RecordMatchesAddress` and the types of the chain are there for the rest.
`JournalInv` then needs, beyond the types: how often each gateway was asked, told by the
place of the two loops (`FetchOK`), which gives `GivesUpLast` for any number of gateways and
retries; that every registered account names an upload and is as public as it, unless its
author has turned it (`ChainOK`), which gives `OnlyTurning`; that the list, every card under
every filter and the open article are registered, so that their upload exists; and that what a
reply says was found is still so (`ReplyOK`), which no step undoes because a record stays
(`RecordsStay`): `VerifiedRecorded`. `JournalTypeCorrect` is more than types: there is always
an id for the next toast, no two have the same, and no timer is without its toast.

Lists are where a proof cannot go through the definitions of the library: `SelectSeq` and
`SortSeq` recurse, and the provers take no induction over their data. The models therefore say
what a filter and a sort return instead of how: `Only(list, places)` is the kept places in their
order, `NewestFirst(addresses)` any enumeration that is newest first. What makes them usable
is proved: that a set of naturals has a least member (`LeastNatural`, from the well-foundedness
of strict inclusion on finite sets), with it that the n-th kept place exists and is one
(`OnlyProperties`), and that a finite set has an enumeration in the order wanted
(`SortedExists`), so the CHOOSE of `NewestFirst` is never one among none. TLC compares
`Only` with `SelectSeq` in the run `reading`.

Every invariant that a run checks, every action property and the refinement `Promise` has its
theorem. Each inductive invariant was checked by TLC on the run's instance before it was
proved. Only model-checked: liveness (`PublishEnds`, `LoadingEnds`, `VerdictReachesReader`,
`ToastsGoAway`, `SharingSettles`, `DraftSaves`, `AssistantSettles`), which needs fairness and
ENABLED, out of the prover's reach; and that pages partition a list, for lists of up to five.
The runs that are violated are counterexamples and have nothing to prove.

## Not modelled, and the plan

Left for TLAPS: an abstract one-time challenge that the API side of both `KeyDelivery` and
`WalletAuth` implements, as `KeyPromise` is implemented now; the partition of a list into pages,
which with `OnlyProperties` is within reach; and that `Dashboard` and `PrivateReader`, which see
the grants' rows as a function, rely on no more of them than `KeyDelivery` gives.

Not modelled:

* The AES-GCM of keys and articles, and signatures: a good one is one the wallet made.
* What the assistant is asked and how its text is judged (prompts, the regular expressions
  of `detectGhostwriting`, the repair of JSON character by character): texts are told apart
  by kind only.
* The rest of `Editor.tsx`: single Tiptap commands behind buttons and dialogs that keep
  nothing across a click; `PreviewModal`, which renders.
* `createArticle` and `publishArticle` of the API, which are placeholders that keep nothing.
* Components that no page uses (`AiSidebar`, `FloatingAiButtons`, `SuggestStructureModal`,
  `CheckCoherenceModal`, `HelpWriteModal`, `IntuitionField`), and `RefinementMenu`, which
  nothing opens; the SDK; routing, layout, translations; Irys prices and funding.
