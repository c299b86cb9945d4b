------------------------------- MODULE Toasts -------------------------------
(***************************************************************************)
(* ToastProvider (components/ui/toast.tsx): the newest MaxToasts messages, *)
(* newest first, each with a timer that takes it away.                     *)
(*                                                                         *)
(* Ids are random in the code; here the least one not shown, of which      *)
(* there is always one.  A timer whose toast was pushed out finds nothing  *)
(* to remove, and is forgotten with it.                                    *)
(***************************************************************************)
EXTENDS Integers, ListFilter

CONSTANTS MaxToasts,   \* the 5 of slice(0, 5)
          Messages     \* what a toast can say

ASSUME ToastsAssumption == MaxToasts \in Nat \ {0}

VARIABLES toasts,   \* items: what is on the screen
          timers    \* timers.current: the ids with a timer running

toastVars == <<toasts, timers>>

Ids == 1..(MaxToasts + 1)
Toast == [id: Ids, message: Messages]
IdsOf(items) == {items[i].id : i \in DOMAIN items}
FreshId == CHOOSE id \in Ids \ IdsOf(toasts) :
             \A other \in Ids \ IdsOf(toasts) : id <= other

ToastsTypeOK ==
  /\ toasts \in Seq(Toast) /\ Len(toasts) <= MaxToasts
  /\ Cardinality(IdsOf(toasts)) = Len(toasts)
  /\ timers \subseteq IdsOf(toasts)

ToastsInit == toasts = <<>> /\ timers = {}

Newest(items) == SubSeq(items, 1, IF Len(items) < MaxToasts THEN Len(items) ELSE MaxToasts)

\* toast(): shown first, the oldest dropped, the timer set.
NotTimed(id) == {}
Timed(id) == {id}
toast(message) ==
  LET items == Newest(<<[id |-> FreshId, message |-> message]>> \o toasts)
  IN /\ toasts' = items
     /\ timers' = (timers \cup Timed(FreshId)) \cap IdsOf(items)

\* remove(): by the timer, or by the button of the toast.
remove(id) ==
  /\ toasts' = Only(toasts, {i \in DOMAIN toasts : toasts[i].id # id})
  /\ timers' = timers \ {id}

TimerFires(id) == id \in timers /\ remove(id)
Close(id) == id \in IdsOf(toasts) /\ remove(id)
=============================================================================
