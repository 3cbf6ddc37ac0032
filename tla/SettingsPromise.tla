-------------------------- MODULE SettingsPromise --------------------------
(***************************************************************************)
(* What the settings store promises the rest of the device, whatever the   *)
(* flash does underneath: a save takes effect as a whole or, when power    *)
(* is lost in the middle of it, the settings are lost; saving a form       *)
(* changes nothing in the running device; a restore of the defaults puts   *)
(* the default password in force before it saves, and leaves the rest of   *)
(* the running device alone; a start runs exactly what is stored.          *)
(***************************************************************************)
CONSTANTS
  Image,      \* settings
  EmptyStore,      \* the settings of an empty store
  Lost,       \* what is stored after a save was cut
  Off,        \* what runs while the device does not
  View(_),    \* the part of the settings that start-up puts in force
  Reverted(_) \* what is in force, with the default password

VARIABLES stored, running

promiseVars == <<stored, running>>

Init == stored = EmptyStore /\ running = Off

Save ==
  /\ running # Off
  /\ stored' \in Image
  /\ UNCHANGED running

\* A restore begins: its save, or the loss of power, is still to come.
Restore ==
  /\ running # Off
  /\ running' = Reverted(running)
  /\ UNCHANGED stored

\* Without settings the device starts on defaults, and stores them.
Start ==
  /\ running = Off
  /\ \/ /\ stored # Lost
        /\ UNCHANGED stored
        /\ running' = View(stored)
     \/ /\ stored \in {EmptyStore, Lost}
        /\ stored' \in Image
        /\ running' = View(stored')
     \/ /\ stored = Lost
        /\ UNCHANGED stored
        /\ running' # Off

\* Reset or loss of power.
Stop ==
  /\ running' = Off
  /\ stored' \in {stored, Lost}

Next == Save \/ Restore \/ Start \/ Stop

Spec == Init /\ [][Next]_promiseVars
=============================================================================
