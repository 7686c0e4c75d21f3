----------------------------- MODULE MCServices -----------------------------
(***************************************************************************)
(* The components that share no state, in one run.  Since none of them can *)
(* see another, a behaviour of them all is an interleaving of a behaviour  *)
(* of each, and every property here speaks of one: it is enough to let one *)
(* of them move at a time, and which one is chosen at the start.           *)
(***************************************************************************)
EXTENDS WriteServer, MapServer, WeatherServer, BadCases, Accounts, ChatClient,
        RateLimiter, TurnBilling, ServerSpecs, TLC

CONSTANTS w1, w2, w3, oneProcess, otherProcess, q1, q2, city, r1, r2, r3, ta, tb, ann

VARIABLE mover

ServedByProcess == [c \in {w1, w2, w3} |-> IF c = w3 THEN otherProcess ELSE oneProcess]
SameCity == [q \in {q1, q2} |-> city]

(* Two requests in one conversation of a user and a third in another one   *)
Spread == r1 :> ta @@ r2 :> ta @@ r3 :> tb
AnnsConversations == [t \in {ta, tb} |-> ann]

Movers == {"writes", "map", "weather", "cases", "accounts", "client", "limiter",
           "billing"}

ServicesTypeOK ==
  /\ mover \in Movers
  /\ WriteTypeOK /\ MapTypeOK /\ WeatherTypeOK /\ CasesTypeOK
  /\ AccountsTypeOK /\ ClientTypeOK /\ TypeOK /\ BillingTypeOK

(* A component that does not move starts in one of its initial states.     *)
ServicesInit ==
  /\ mover \in Movers
  /\ WriteInit /\ MapInit /\ WeatherInit /\ CasesInit /\ AccountsInit /\ ClientInit
  /\ Init /\ BillingInit
  /\ mover # "writes" => /\ \A c \in WriteCalls : request[c] = [path |-> NewNote, overwrite |-> FALSE]
                         /\ \A n \in Names : files[n] = NoFile
  /\ mover # "map" => sinceLast = 0
  /\ mover # "weather" => process = CHOOSE f \in [Queries -> WeatherProcesses] : TRUE
  /\ mover # "client" => active = CHOOSE v \in Threads : TRUE

ServicesNext ==
  \/ /\ mover = "writes" /\ WriteNext
     /\ UNCHANGED <<mover, mapVars, weatherVars, caseVars, accountVars, clientVars, vars, billingVars>>
  \/ /\ mover = "map" /\ MapNext
     /\ UNCHANGED <<mover, writeVars, weatherVars, caseVars, accountVars, clientVars, vars, billingVars>>
  \/ /\ mover = "weather" /\ WeatherNext
     /\ UNCHANGED <<mover, writeVars, mapVars, caseVars, accountVars, clientVars, vars, billingVars>>
  \/ /\ mover = "cases" /\ CasesNext
     /\ UNCHANGED <<mover, writeVars, mapVars, weatherVars, accountVars, clientVars, vars, billingVars>>
  \/ /\ mover = "accounts" /\ AccountsNext
     /\ UNCHANGED <<mover, writeVars, mapVars, weatherVars, caseVars, clientVars, vars, billingVars>>
  \/ /\ mover = "client" /\ ClientNext
     /\ UNCHANGED <<mover, writeVars, mapVars, weatherVars, caseVars, accountVars, vars, billingVars>>
  \/ /\ mover = "limiter" /\ Next
     /\ UNCHANGED <<mover, writeVars, mapVars, weatherVars, caseVars, accountVars, clientVars, billingVars>>
  \/ /\ mover = "billing" /\ BillingNext
     /\ UNCHANGED <<mover, writeVars, mapVars, weatherVars, caseVars, accountVars, clientVars, vars>>

servicesVars ==
  <<mover, writeVars, mapVars, weatherVars, caseVars, accountVars, clientVars,
    vars, billingVars>>

ServicesSpec == ServicesInit /\ [][ServicesNext]_servicesVars
=============================================================================
