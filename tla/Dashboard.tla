------------------------------ MODULE Dashboard ------------------------------
(***************************************************************************)
(* Managing access to private articles: the access modal of                *)
(* app/dashboard/page.tsx over listGrants, createGrant and revokeGrant of  *)
(* access-control.controller.ts.                                           *)
(*                                                                         *)
(* The page asks for the grants of an article when its modal opens, when   *)
(* the author asks for it and after each grant or revocation; none of      *)
(* these requests is ever cancelled, and each answer replaces the list.    *)
(* The author may grant and revoke in another tab too.  A grant is seen    *)
(* only as far as the page tells it apart; its expiry is in KeyDelivery.   *)
(*                                                                         *)
(* A request speaks for the wallet of the JWT that is stored when it goes  *)
(* out, which need not be the author's; and a list is cut after so many of *)
(* the newest rows.                                                        *)
(***************************************************************************)
EXTENDS Integers, FiniteSets

CONSTANTS MyArticles,   \* the author's private articles
          Granted,      \* a bound: those of them that access is granted to
          Viewers,      \* wallets access is granted to
          ListMax,      \* the most rows a list has
          ListCalls,    \* requests for a list under way at a time
          None          \* no article, no viewer, no request

ASSUME DashAssumption == /\ None \notin MyArticles /\ None \notin Viewers
                         /\ Granted \subseteq MyArticles
                         /\ IsFiniteSet(Viewers) /\ ListMax \in Nat \ {0}

VARIABLES grants,     \* AccessGrant: the row of each article and viewer
          made,       \* createdAt: the how manieth of the article's rows it is
          mine,       \* the stored JWT is the author's
          modal,      \* accessModalArticle
          viewer,     \* viewerWallet, what is typed in the form
          shown,      \* grants: the rows on the screen, by viewer
          lists,      \* the requests for a list
          mutation,   \* the grant or revocation under way
          excused     \* history: why the list on the screen may be wrong

dashVars == <<grants, made, mine, modal, viewer, shown, lists, mutation, excused>>

Status == {"none", "active", "revoked"}
Rows == [Viewers -> Status]
\* A list under way: its article, whether its JWT is the author's, whether
\* handle...Grant awaits it, and the rows once the API has read them.
ListCall == [article: MyArticles, mine: BOOLEAN, awaited: BOOLEAN, rows: Rows \cup {None}]
Mutation == [kind: {"create", "revoke"}, article: MyArticles, viewer: Viewers, mine: BOOLEAN,
             at: {"sent", "ok", "failed", "refreshing"}]

ASSUME NoneAssumption == None \notin Rows /\ None \notin ListCall /\ None \notin Mutation

DashTypeOK ==
  /\ grants \in [MyArticles -> Rows]
  /\ made \in [MyArticles -> [Viewers -> Nat]]
  /\ mine \in BOOLEAN
  /\ modal \in MyArticles \cup {None} /\ viewer \in Viewers \cup {None}
  /\ shown \in Rows
  /\ lists \in [ListCalls -> ListCall \cup {None}]
  /\ mutation \in Mutation \cup {None}
  /\ excused \in BOOLEAN

NoRows == [v \in Viewers |-> "none"]
DashInit ==
  /\ grants = [a \in MyArticles |-> NoRows]
  /\ made = [a \in MyArticles |-> [v \in Viewers |-> 0]]
  /\ mine \in BOOLEAN
  /\ modal = None /\ viewer = None /\ shown = NoRows
  /\ lists = [l \in ListCalls |-> None]
  /\ mutation = None
  /\ excused = FALSE

-----------------------------------------------------------------------------

isGrantBusy == mutation # None

\* refreshGrants: another request on its way.  Asked while none is, for the
\* article of the modal and as the author, its answer will be the last word.
Asks(a, awaited, m) ==
  LET l == CHOOSE l \in ListCalls : lists[l] = None
  IN
    /\ \E other \in ListCalls : lists[other] = None
    /\ lists' = [lists EXCEPT ![l] = [article |-> a, mine |-> mine, awaited |-> awaited,
                                          rows |-> None]]
    /\ excused' = (m # a \/ ~mine \/ \E other \in ListCalls : lists[other] # None)

\* A bound: the author's clicks leave a place for the request of a mutation.
RoomToClick == Cardinality({l \in ListCalls : lists[l] = None}) > 1

\* Manage access: the form and the list are emptied and the effect asks.
OpenModal(a) ==
  /\ modal = None /\ RoomToClick
  /\ modal' = a /\ viewer' = None /\ shown' = NoRows
  /\ Asks(a, FALSE, a)
  /\ UNCHANGED <<grants, made, mine, mutation>>
CloseModal ==
  /\ modal # None
  /\ modal' = None
  /\ UNCHANGED <<grants, made, mine, viewer, shown, lists, mutation, excused>>
TypeViewer ==
  /\ modal # None
  /\ viewer' \in Viewers \cup {None}
  /\ UNCHANGED <<grants, made, mine, modal, shown, lists, mutation, excused>>
Refresh ==
  /\ modal # None /\ ~isGrantBusy /\ RoomToClick
  /\ Asks(modal, FALSE, modal)
  /\ UNCHANGED <<grants, made, mine, modal, viewer, shown, mutation>>

\* handleCreateGrant, for the article of the modal and the viewer typed in.
GrantAccess ==
  /\ modal \in Granted /\ ~isGrantBusy /\ viewer # None
  /\ mutation' = [kind |-> "create", article |-> modal, viewer |-> viewer,
                mine |-> mine, at |-> "sent"]
  /\ UNCHANGED <<grants, made, mine, modal, viewer, shown, lists, excused>>

\* handleRevokeGrant: the button of a row that is not revoked, for the article
\* of the modal, wherever the row came from.
RevokeAccess(v) ==
  /\ modal # None /\ ~isGrantBusy /\ shown[v] = "active"
  /\ mutation' = [kind |-> "revoke", article |-> modal, viewer |-> v,
                mine |-> mine, at |-> "sent"]
  /\ UNCHANGED <<grants, made, mine, modal, viewer, shown, lists, excused>>

\* A row is made once: a later grant to the same viewer updates it.
HasRow(a, v) == grants[a][v] # "none"
Write(a, v, status) ==
  /\ grants' = [grants EXCEPT ![a][v] = status]
  /\ made' = IF HasRow(a, v) THEN made
             ELSE [made EXCEPT ![a][v] = 1 + Cardinality({u \in Viewers : HasRow(a, u)})]

\* createGrant and revokeGrant in the API: for the author alone, and there may
\* be no row to revoke.
Executed ==
  LET m == mutation
  IN /\ m.mine
     /\ \/ m.kind = "create" /\ Write(m.article, m.viewer, "active")
        \/ m.kind = "revoke" /\ HasRow(m.article, m.viewer) /\ Write(m.article, m.viewer, "revoked")
MutationExecuted ==
  /\ isGrantBusy /\ mutation.at = "sent"
  /\ Executed
  /\ mutation' = [mutation EXCEPT !.at = "ok"]
  /\ UNCHANGED <<mine, modal, viewer, shown, lists, excused>>
MutationRefused ==
  /\ isGrantBusy /\ mutation.at = "sent"
  /\ mutation' = [mutation EXCEPT !.at = "failed"]
  /\ UNCHANGED <<grants, made, mine, modal, viewer, shown, lists, excused>>

\* A reply that is ok: the form is emptied after a grant, and the list of the
\* mutation's own article is asked for and awaited.
Reloads == /\ Asks(mutation.article, TRUE, modal)
           /\ mutation' = [mutation EXCEPT !.at = "refreshing"]
MutationReplied ==
  /\ isGrantBusy /\ mutation.at = "ok"
  /\ viewer' = IF mutation.kind = "create" THEN None ELSE viewer
  /\ Reloads
  /\ UNCHANGED <<grants, made, mine, modal, shown>>

\* A reply that is not, and a fetch that rejects, the API having done it or not.
Finally == mutation' = None
MutationFailed ==
  /\ isGrantBusy /\ mutation.at = "failed"
  /\ Finally
  /\ UNCHANGED <<grants, made, mine, modal, viewer, shown, lists, excused>>
MutationLost ==
  /\ isGrantBusy /\ mutation.at \in {"sent", "ok"}
  /\ \/ mutation.at = "sent" /\ Executed
     \/ UNCHANGED <<grants, made>>
  /\ mutation' = None
  /\ excused' = TRUE
  /\ UNCHANGED <<mine, modal, viewer, shown, lists>>

\* listGrants: the newest rows that the JWT's wallet owns.  Every row of an
\* article is its author's.
Newer(a, v) == {u \in Viewers : made[a][u] > made[a][v]}
OnTheList(a, v) == Cardinality(Newer(a, v)) < ListMax
ListedOldest(a) ==
  [v \in Viewers |-> IF Cardinality({u \in Viewers : HasRow(a, u) /\ made[a][u] < made[a][v]})
                          < ListMax
                     THEN grants[a][v] ELSE "none"]
Listed(a) == [v \in Viewers |-> IF OnTheList(a, v) THEN grants[a][v] ELSE "none"]
ListRead(l) ==
  /\ lists[l] # None /\ lists[l].rows = None
  /\ lists' = [lists EXCEPT ![l].rows =
                 IF lists[l].mine THEN Listed(lists[l].article) ELSE NoRows]
  /\ UNCHANGED <<grants, made, mine, modal, viewer, shown, mutation, excused>>

\* The answer replaces what is shown, whatever modal is open by now; then
\* handle...Grant ends, if it was waiting for it.
Settles(l) == mutation' = IF lists[l].awaited THEN None ELSE mutation
ListArrives(l) ==
  /\ lists[l] # None /\ lists[l].rows # None
  /\ shown' = lists[l].rows
  /\ Settles(l)
  /\ lists' = [lists EXCEPT ![l] = None]
  /\ UNCHANGED <<grants, made, mine, modal, viewer, excused>>
ListFails(l) ==
  /\ lists[l] # None
  /\ Settles(l)
  /\ lists' = [lists EXCEPT ![l] = None]
  /\ excused' = TRUE
  /\ UNCHANGED <<grants, made, mine, modal, viewer, shown>>

\* The author in another tab.
OtherTab ==
  /\ \E a \in Granted, v \in Viewers :
       \/ Write(a, v, "active")
       \/ HasRow(a, v) /\ Write(a, v, "revoked")
  /\ excused' = TRUE
  /\ UNCHANGED <<mine, modal, viewer, shown, lists, mutation>>

\* Another account signs in, here or in another tab; or the author does again.
OtherAccount ==
  /\ mine' = ~mine
  /\ UNCHANGED <<grants, made, modal, viewer, shown, lists, mutation, excused>>

DashAuthor == \/ \E a \in MyArticles : OpenModal(a)
              \/ CloseModal \/ TypeViewer \/ Refresh \/ GrantAccess
              \/ \E v \in Viewers : RevokeAccess(v)
MutationProgress == MutationExecuted \/ MutationRefused \/ MutationReplied \/ MutationFailed
ListProgress(l) == ListRead(l) \/ ListArrives(l)

DashNext == \/ DashAuthor \/ MutationProgress \/ MutationLost \/ OtherTab \/ OtherAccount
            \/ \E l \in ListCalls : ListProgress(l) \/ ListFails(l)

-----------------------------------------------------------------------------
(* Properties *)

ListSettled == modal # None /\ ~excused /\ ~isGrantBusy /\ \A l \in ListCalls : lists[l] = None

\* Once nothing is under way, each viewer is on the screen as he is stored, but
\* for one with ListMax newer rows, who is not on it at all; unless something
\* kept it from being so: two lists on their way at once, a mutation that ended
\* under the modal of another article, the author's other tab, another
\* account's token, or a request that failed.  These are all the ways in which
\* the missing cancellation of refreshGrants shows.
ShownIsStored ==
  ListSettled => \A v \in Viewers :
    shown[v] = grants[modal][v] \/ (shown[v] = "none" /\ ~OnTheList(modal, v))

\* The buttons come back: a grant or a revocation ends, whichever of its
\* requests fails.
BusyEnds == isGrantBusy ~> ~isGrantBusy
=============================================================================
