---------------------------- MODULE MainloopApi ----------------------------
(***************************************************************************)
(* What libpulse is promised by the pa_mainloop_api it is given            *)
(* (plugins/pulse/mainloop.c:197): which of its callbacks may be called,   *)
(* and with what, after which of its operations.                           *)
(***************************************************************************)
EXTENDS Integers

CONSTANTS Ios, Times, Defers, \* events, each created at most once
          MaxTime,            \* bound of the clock
          NULL

Events == Ios \cup Times \cup Defers
Flags == {"in", "out"}
Conditions == Flags \cup {"hup"}
Instants == 1 .. MaxTime

VARIABLES
  life,    \* "none", "live" or "freed"
  destroy, \* events with a destroy callback
  told,    \* events whose destroy callback has been called
  wants,   \* the flags last enabled for an io event
  ready,   \* the conditions its descriptor is in
  at,      \* when a time event is to be called, NULL if it is not
  enabled, \* defer events that are enabled
  now,     \* the clock
  call     \* the callback that runs and its argument, or NULL

apiVars == <<life, destroy, told, wants, ready, at, enabled, now, call>>

ApiInit ==
  /\ life = [e \in Events |-> "none"] /\ destroy = {} /\ told = {}
  /\ wants = [e \in Ios |-> {}] /\ ready \in [Ios -> SUBSET {"in"}]
  /\ at = [e \in Times |-> NULL] /\ enabled = {} /\ now = 1 /\ call = NULL

New(e) ==
  /\ life[e] = "none" /\ life' = [life EXCEPT ![e] = "live"]
  /\ \/ e \in Ios /\ \E flags \in SUBSET Flags : wants' = [wants EXCEPT ![e] = flags]
        /\ UNCHANGED <<at, enabled>>
     \/ e \in Times /\ \E tv \in Instants \cup {NULL} : at' = [at EXCEPT ![e] = tv]
        /\ UNCHANGED <<wants, enabled>>
     \/ e \in Defers /\ enabled' = enabled \cup {e} /\ UNCHANGED <<wants, at>>
  /\ UNCHANGED <<destroy, told, ready, now, call>>

Change(e) ==
  /\ life[e] = "live"
  /\ \/ e \in Ios /\ \E flags \in SUBSET Flags : wants' = [wants EXCEPT ![e] = flags]
        /\ UNCHANGED <<at, enabled, destroy>>
     \/ e \in Times /\ \E tv \in Instants \cup {NULL} : at' = [at EXCEPT ![e] = tv]
        /\ UNCHANGED <<wants, enabled, destroy>>
     \/ e \in Defers /\ enabled' \in {enabled \cup {e}, enabled \ {e}}
        /\ UNCHANGED <<wants, at, destroy>>
     \/ destroy' = destroy \cup {e} /\ UNCHANGED <<wants, at, enabled>>
  /\ UNCHANGED <<life, told, ready, now, call>>

\* The destroy callback, if there is one, is called for a freed event, and
\* no other callback ever again.
Free(e) ==
  /\ life[e] = "live" /\ life' = [life EXCEPT ![e] = "freed"]
  /\ told' = told \cup (destroy \cap {e})
  /\ wants' = IF e \in Ios THEN [wants EXCEPT ![e] = {}] ELSE wants
  /\ at' = IF e \in Times THEN [at EXCEPT ![e] = NULL] ELSE at
  /\ enabled' = enabled \ {e}
  /\ UNCHANGED <<destroy, ready, now, call>>

\* An io event that is enabled is called with what its descriptor really is.
CallIo(e) ==
  /\ wants[e] # {} /\ call = NULL
  /\ \E flags \in (SUBSET ready[e]) \ {{}} : call' = <<e, flags>>
  /\ UNCHANGED <<life, destroy, told, wants, ready, at, enabled, now>>

\* A time event is called once for each restart, with the time of the last
\* one, and not before it.
CallTime(e) ==
  /\ at[e] \in 1 .. now /\ call = NULL
  /\ call' = <<e, at[e]>> /\ at' = [at EXCEPT ![e] = NULL]
  /\ UNCHANGED <<life, destroy, told, wants, ready, enabled, now>>

CallDefer(e) ==
  /\ e \in enabled /\ call = NULL
  /\ call' = <<e, NULL>>
  /\ UNCHANGED <<life, destroy, told, wants, ready, at, enabled, now>>

\* A callback has read or written what it may.
Returns ==
  /\ call # NULL /\ call' = NULL
  /\ ready' \in [Ios -> SUBSET Conditions]
  /\ \A i \in Ios : \/ ready'[i] = ready[i]
                    \/ call[1] \in {i} \cup Defers /\ ready'[i] \subseteq ready[i]
  /\ UNCHANGED <<life, destroy, told, wants, at, enabled, now>>

Environment ==
  /\ \/ now' \in Instants /\ now' > now /\ UNCHANGED ready
     \/ \E i \in Ios, c \in Conditions : ready' = [ready EXCEPT ![i] = @ \cup {c}]
        /\ UNCHANGED now
  /\ UNCHANGED <<life, destroy, told, wants, at, enabled, call>>

ApiNext ==
  \/ \E e \in Events : New(e) \/ Change(e) \/ Free(e)
  \/ \E e \in Ios : CallIo(e)
  \/ \E e \in Times : CallTime(e)
  \/ \E e \in Defers : CallDefer(e)
  \/ Returns \/ Environment

ApiSpec == ApiInit /\ [][ApiNext]_apiVars

Due(e) == at[e] \in 1 .. now
Asked(e) == wants[e] # {} /\ ready[e] \cap (wants[e] \cup {"hup"}) # {}
Calls(e) == call # NULL /\ call[1] = e

\* What is due, or in a condition that is asked for or that nobody has to ask
\* for, is called in the end, unless libpulse takes it back.
EachIsCalled ==
  /\ \A e \in Times : Due(e) ~> ~Due(e)
  /\ \A e \in Ios : Asked(e) ~> (Calls(e) \/ ~Asked(e))
=============================================================================
