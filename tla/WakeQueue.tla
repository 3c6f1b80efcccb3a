----------------------------- MODULE WakeQueue -----------------------------
(*************************************************************************)
(* What the wake queue promises the Hosts, whatever files it moves to get*)
(* there: a wake waits, is leased to one Host, and is consumed; a lease  *)
(* ends by its holder or after it lapsed; only a Host that was handed the*)
(* wake consumes it; only a retry takes a wake out of its place.  The    *)
(* weak spot is named: of a broken wake, on which an operation broke off,*)
(* a second copy may be handed out or leased once more.                  *)
(*************************************************************************)

CONSTANTS
    Wakes,
    Clients,    \* Hosts
    NoOne       \* no Host

VARIABLES
    place,      \* place[w]: where wake w is
    holder,     \* holder[w]: the Host that has the lease of w
    received,   \* <<client, wake>>: what Hosts were ever handed
    retried,    \* wakes for which a same-generation retry was ever admitted
    broken      \* wakes on which an operation broke off

vars == <<place, holder, received, retried, broken>>

Init ==
    /\ place = [w \in Wakes |-> "out"]
    /\ holder = [w \in Wakes |-> NoOne]
    /\ received = {} /\ retried = {} /\ broken = {}

Move(w, to, host) ==
    /\ place' = [place EXCEPT ![w] = to]
    /\ holder' = [holder EXCEPT ![w] = host]
    /\ UNCHANGED <<received, retried, broken>>

\* The holder of a lease has a say in it, and anyone when it has lapsed.
MayEnd(c, w) == (place[w] = "leased" /\ holder[w] = c) \/ place[w] = "lapsed"

Publish(w) == place[w] = "out" /\ Move(w, "waiting", NoOne)

Lease(c, w) == place[w] = "waiting" /\ Move(w, "leased", c)

Lapse(w) == place[w] = "leased" /\ Move(w, "lapsed", holder[w])

PutBack(c, w) == MayEnd(c, w) /\ Move(w, "waiting", NoOne)

Finish(c, w) == <<c, w>> \in received /\ MayEnd(c, w) /\ Move(w, "consumed", NoOne)

Hand(c, w) ==
    /\ holder[w] = c \/ w \in broken
    /\ received' = received \cup {<<c, w>>}
    /\ UNCHANGED <<place, holder, retried, broken>>

AskRetry(w) ==
    /\ \E c \in Clients : <<c, w>> \in received
    /\ retried' = retried \cup {w}
    /\ UNCHANGED <<place, holder, received, broken>>

TakeOut(w) == w \in retried /\ Move(w, "out", NoOne)

Break(w) ==
    /\ broken' = broken \cup {w}
    /\ UNCHANGED <<place, holder, received, retried>>

\* The copy that an interrupted claim left is leased once more.
LeaseCopy(c, w) ==
    /\ w \in broken /\ place[w] \in {"leased", "lapsed"}
    /\ Move(w, "leased", c)

Next ==
    \E w \in Wakes :
        \/ Publish(w) \/ Lapse(w) \/ AskRetry(w) \/ TakeOut(w) \/ Break(w)
        \/ \E c \in Clients : \/ Lease(c, w) \/ PutBack(c, w) \/ Finish(c, w)
                              \/ Hand(c, w) \/ LeaseCopy(c, w)

Spec == Init /\ [][Next]_vars

=============================================================================
