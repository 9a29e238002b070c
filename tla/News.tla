-------------------------------- MODULE News --------------------------------
(***************************************************************************)
(* The economic calendar: how news_service.py stores the feed, and the     *)
(* three places that decide from it whether trading is blocked: the Risk   *)
(* Gate, the state shown on the dashboard, and the provider of simulations *)
(* (brain/news/provider.py).                                               *)
(*                                                                         *)
(* Time is in units of five minutes.  An item of the feed has a country,   *)
(* an impact, a title and a date, which is None when it cannot be parsed.  *)
(***************************************************************************)
EXTENDS Integers

CONSTANT None

PreWindow  == 6     \* DEFAULT_PRE_WINDOW_MIN
PostWindow == 6     \* DEFAULT_POST_WINDOW_MIN
Hour       == 12

-----------------------------------------------------------------------------
(* The feed.                                                               *)

Impact(raw) == CASE raw = "High" -> "HIGH" [] raw = "Medium" -> "MEDIUM" [] OTHER -> "LOW"

NewsEvent(item) ==
    [id |-> <<item.date, item.title>>, currency |-> item.country, impact |-> Impact(item.impact),
     at |-> item.date, from |-> item.date - PreWindow, to |-> item.date + PostWindow]

(* The items that are stored.                                              *)
Relevant(feed) == {k \in DOMAIN feed : feed[k].country = "USD" /\ feed[k].date # None}

(* The rows after a synchronisation: the row of an item is inserted, or    *)
(* updated under the same id, so that the last item with an id decides.  A *)
(* feed that cannot be fetched or committed changes nothing, and no row is *)
(* ever removed.                                                           *)
fetch_and_sync_news(rows, feed) ==
    LET id(k) == NewsEvent(feed[k]).id
        last  == {k \in Relevant(feed) : \A j \in Relevant(feed) : j > k => id(j) # id(k)}
    IN  {r \in rows : \A k \in Relevant(feed) : r.id # id(k)} \cup {NewsEvent(feed[k]) : k \in last}

-----------------------------------------------------------------------------
(* Mutant: the ends of the window do not belong to it.                     *)
Blackout_Inside(rows, now) ==
    \E r \in rows : /\ r.currency \in {"USD", "XAU"} /\ r.impact \in {"HIGH", "CRITICAL"}
                    /\ r.from < now /\ now < r.to

(* Gate 8 of evaluate_risk_gate.                                           *)
Blackout(rows, now) ==
    \E r \in rows : /\ r.currency \in {"USD", "XAU"} /\ r.impact \in {"HIGH", "CRITICAL"}
                    /\ r.from <= now /\ now <= r.to

get_news_protection_state(rows, now) ==
    LET events == {r \in rows : /\ r.currency = "USD" /\ r.impact = "HIGH"
                                /\ now - 2 * Hour <= r.at /\ r.at <= now + 48 * Hour}
    IN  IF \E r \in events : r.from <= now /\ now <= r.to THEN "BLACKOUT"
        ELSE IF \E r \in events : 0 < r.at - now /\ r.at - now <= 2 * Hour THEN "UPCOMING"
        ELSE "CLEAR"

(* What one event of the provider says about this moment.                  *)
EventState(r, now) ==
    IF r.currency \notin {"USD", "ALL"} \/ r.impact # "HIGH" THEN "CLEAR"
    ELSE IF r.from <= now /\ now < r.at THEN "PRE_EVENT"
    ELSE IF r.at <= now /\ now <= r.at + 1 THEN "IN_EVENT"
    ELSE IF r.at < now /\ now <= r.to THEN "POST_EVENT"
    ELSE "CLEAR"

(* The provider lets the last event of its list that says anything decide; *)
(* here any of them may be the last.                                       *)
get_news_state(rows, now) ==
    LET said == {EventState(r, now) : r \in rows} \ {"CLEAR"}
    IN  IF said = {} THEN {"CLEAR"} ELSE said
=============================================================================
