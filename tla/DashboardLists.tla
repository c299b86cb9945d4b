--------------------------- MODULE DashboardLists ---------------------------
(***************************************************************************)
(* Loading the dashboard: the effect of app/dashboard/page.tsx that runs   *)
(* with each connected wallet, over getArticles (by author) and            *)
(* getMyArticles (by the token) of articles.controller.ts.                 *)
(*                                                                         *)
(* AuthGate unmounts the page without a wallet and keeps it when the       *)
(* account changes, whatever the token says.  A run of the effect that was *)
(* replaced goes on with its requests.                                     *)
(***************************************************************************)
EXTENDS Integers

CONSTANTS DashWallets,   \* the user's accounts
          Loads,         \* runs of the effect under way at a time
          NoOne,         \* no wallet, no token, nothing loaded, no run
          MaxAccounts    \* bound on mounts and changes of account

ASSUME ListsAssumption == NoOne \notin DashWallets /\ NoOne \notin Loads /\ MaxAccounts \in Nat

VARIABLES account,   \* publicKey; NoOne when the page is not mounted
          bearer,    \* whose token is in localStorage
          loads,     \* the runs of the effect
          latest,    \* the run that has not been cancelled
          board,     \* data, dbArticles, isLoading, error
          accounts   \* mounts and changes so far

listVars == <<account, bearer, loads, latest, board, accounts>>

Owner == DashWallets \cup {NoOne}
Load == [wallet: DashWallets, at: {"public", "mine"}, sentAs: Owner]
Board == [data: Owner, dbArticles: Owner, isLoading: BOOLEAN, error: BOOLEAN,
          missed: BOOLEAN]   \* history: the run for this account got no public list

ASSUME NoOneAssumption == NoOne \notin Load

ListsTypeOK ==
  /\ account \in Owner /\ bearer \in Owner
  /\ loads \in [Loads -> Load \cup {NoOne}]
  /\ latest \in Loads \cup {NoOne}
  /\ board \in Board
  /\ accounts \in 0..MaxAccounts

NewBoard == [data |-> NoOne, dbArticles |-> NoOne, isLoading |-> FALSE, error |-> FALSE,
             missed |-> FALSE]
ListsInit ==
  /\ account = NoOne /\ bearer \in Owner
  /\ loads = [l \in Loads |-> NoOne] /\ latest = NoOne
  /\ board = NewBoard
  /\ accounts = 0

-----------------------------------------------------------------------------

\* The effect: the run before is cancelled by its cleanup, and a new one asks
\* for the public list.
RunLists(w, b) ==
  \E l \in Loads :
    /\ loads[l] = NoOne
    /\ loads' = [loads EXCEPT ![l] = [wallet |-> w, at |-> "public", sentAs |-> NoOne]]
    /\ latest' = l
    /\ board' = [b EXCEPT !.isLoading = TRUE, !.error = FALSE, !.missed = FALSE]

\* AuthGate lets the page in with some token: the page is new.
MountBoard(w) ==
  /\ account = NoOne /\ bearer # NoOne /\ accounts < MaxAccounts
  /\ account' = w /\ accounts' = accounts + 1
  /\ RunLists(w, NewBoard)
  /\ UNCHANGED bearer
ChangeAccount(w) ==
  /\ account \notin {NoOne, w} /\ accounts < MaxAccounts
  /\ account' = w /\ accounts' = accounts + 1
  /\ RunLists(w, board)
  /\ UNCHANGED bearer
UnmountBoard ==
  /\ account # NoOne
  /\ account' = NoOne /\ latest' = NoOne /\ board' = NewBoard
  /\ UNCHANGED <<bearer, loads, accounts>>

\* A sign-in, a token that is cleared.
TokenChanges(w) == /\ bearer' = w
           /\ UNCHANGED <<account, loads, latest, board, accounts>>

AnyLoad(l) == account # NoOne
LatestLoad(l) == latest = l
AppliesTo(l, b) == board' = IF LatestLoad(l) THEN b ELSE board
NextRequest(l) == loads' = [loads EXCEPT ![l].at = "mine", ![l].sentAs = bearer]
Leaves(l) == loads' = [loads EXCEPT ![l] = NoOne]

\* The public list: shown when it is ok and passed over when it is not; either
\* way the author's own list is asked for, with the token of now.
PublicArrives(l) ==
  /\ loads[l] # NoOne /\ loads[l].at = "public"
  /\ \/ AppliesTo(l, [board EXCEPT !.data = loads[l].wallet])
     \/ AppliesTo(l, [board EXCEPT !.missed = TRUE])
  /\ NextRequest(l)
  /\ UNCHANGED <<account, bearer, latest, accounts>>

\* The author's own list, of the wallet of the token it was asked with.
MineArrives(l) ==
  /\ loads[l] # NoOne /\ loads[l].at = "mine" /\ loads[l].sentAs # NoOne
  /\ AppliesTo(l, [board EXCEPT !.dbArticles = loads[l].sentAs, !.isLoading = FALSE])
  /\ Leaves(l)
  /\ UNCHANGED <<account, bearer, latest, accounts>>

\* catch and finally: a request that rejects, an answer that is no JSON, or a
\* refusal of the second.
CaughtLoad(l) == [board EXCEPT !.error = TRUE, !.isLoading = FALSE,
                               !.missed = @ \/ loads[l].at = "public"]
LoadFails(l) ==
  /\ loads[l] # NoOne
  /\ AppliesTo(l, CaughtLoad(l))
  /\ Leaves(l)
  /\ UNCHANGED <<account, bearer, latest, accounts>>

LoadProgress(l) == PublicArrives(l) \/ MineArrives(l) \/ LoadFails(l)

\* What the page lists: nothing until something is loaded, and never beside an
\* error; the private articles stay whatever the state.
ListedOf == IF board.isLoading \/ board.error THEN NoOne ELSE board.data

ListsNext == \/ \E w \in DashWallets : MountBoard(w) \/ ChangeAccount(w)
             \/ UnmountBoard
             \/ \E w \in Owner : TokenChanges(w)
             \/ \E l \in Loads : LoadProgress(l)

-----------------------------------------------------------------------------
(* Properties *)

\* The public articles on the dashboard are the connected wallet's, however
\* many runs of the effect overlap and in whatever order they end; the only
\* thing that lets another wallet's list stay is a public list that was not ok
\* and was passed over.
ListedIsTheWallets ==
  account # NoOne /\ ListedOf # NoOne /\ ~board.missed => ListedOf = account

\* The dashboard does not load for ever.
BoardLoads == board.isLoading ~> ~board.isLoading
=============================================================================
