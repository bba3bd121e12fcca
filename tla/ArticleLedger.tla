---------------------------- MODULE ArticleLedger ----------------------------
(***************************************************************************)
(* What the shared article queue promises, with its leases, clocks, phases *)
(* and transactions abstracted away: an article is lent to at most one     *)
(* holder at a time, only the present holder may report on it, an article  *)
(* is closed at most once, and every report enters the books of the        *)
(* article's page (a Firestore counter shard) exactly once.                *)
(***************************************************************************)
EXTENDS Integers

CONSTANTS Article,   \* the crawl's input manifest
          Token,     \* identities of single loans
          Status,    \* terminal outcomes
          Page,      \* counter shards
          PageOf,    \* the shard that accounts for an article
          Attempt,   \* the attempt counts a report may carry
          None       \* no token, no verdict

VARIABLES holder,    \* the loan that may report on an article, or None
          verdict,   \* the final outcome of an article, or None
          spent,     \* HTTP attempts reported so far for an article
          books      \* per page: closed articles by status, attempts

ledgerVars == <<holder, verdict, spent, books>>

Init ==
  /\ holder = [a \in Article |-> None]
  /\ verdict \in [Article -> [token : {None}, status : Status] \cup {None}]
  /\ spent \in [Article -> Nat]
  /\ books \in [Page -> [closed : [Status -> Nat], attempts : Nat]]

\* A batch of open articles is lent under loans that nothing else uses.
Lend(A, loan) ==
  /\ \A a \in A : /\ verdict[a] = None
                  /\ \A b \in Article : holder[b] # loan[a]
  /\ \A a, b \in A : loan[a] = loan[b] => a = b
  /\ holder' = [a \in Article |-> IF a \in A THEN loan[a] ELSE holder[a]]
  /\ UNCHANGED <<verdict, spent, books>>

\* A loan is handed back without a report.
Return(a) ==
  /\ holder[a] # None
  /\ holder' = [holder EXCEPT ![a] = None]
  /\ UNCHANGED <<verdict, spent, books>>

\* The holder reports progress (cumulative attempts n) and ends its loan.
Progress(a, n) ==
  /\ holder[a] # None /\ n >= spent[a]
  /\ holder' = [holder EXCEPT ![a] = None]
  /\ spent' = [spent EXCEPT ![a] = n]
  /\ books' = [books EXCEPT ![PageOf[a]].attempts = @ + (n - spent[a])]
  /\ UNCHANGED verdict

\* The holder closes the article for good.
Close(a, s, n) ==
  /\ holder[a] # None /\ verdict[a] = None /\ n >= spent[a]
  /\ holder' = [holder EXCEPT ![a] = None]
  /\ verdict' = [verdict EXCEPT ![a] = [token |-> holder[a], status |-> s]]
  /\ spent' = [spent EXCEPT ![a] = n]
  /\ books' = [books EXCEPT ![PageOf[a]].attempts = @ + (n - spent[a]),
                            ![PageOf[a]].closed[s] = @ + 1]

Next ==
  \/ \E A \in SUBSET Article : \E loan \in [A -> Token] : Lend(A, loan)
  \/ \E a \in Article : Return(a)
  \/ \E a \in Article : \E n \in Attempt : Progress(a, n)
  \/ \E a \in Article, s \in Status : \E n \in Attempt : Close(a, s, n)

Spec == Init /\ [][Next]_ledgerVars
=============================================================================
