------------------------------ MODULE Settings ------------------------------
(***************************************************************************)
(* The device's settings, from the browser's form to the flash page and    *)
(* back after a reset: src/code/config/config.c, src/code/nvram/nvram.c    *)
(* and the handlers of src/code/CustomHTTPApp.c.                           *)
(*                                                                         *)
(* The page is the packed config_t in the order its words are programmed,  *)
(* cut into N parts: the password (with the time zone), MyIPAddr (with the *)
(* other addresses), DefaultIPAddr, and the flags (with MAC and NTP name). *)
(* The main loop serves one connection at a time and eprom_write stalls    *)
(* the CPU, so a handler is one step up to its call of eprom_write; what   *)
(* can come between two words is only the loss of power.                   *)
(***************************************************************************)
EXTENDS Integers

CONSTANTS
  Conns,        \* HTTP connections
  Passwords,    \* passwords a form can hold
  Addresses,    \* addresses a form can hold
  Leases,       \* addresses a DHCP server can hand out
  DefaultPass,  \* "s3cr3t"
  RomAddr,      \* MY_DEFAULT_IP_ADDR
  ZeroAddr,     \* 0.0.0.0: a variable nobody has assigned
  Erased,       \* flash that reads 0xFF
  Garbage,      \* flash whose programming was cut by a loss of power
  Absent,       \* a form without this field
  Invalid,      \* a field the parser refuses
  None,         \* no image, no settings
  MaxToken,     \* bound on the tokens rendered between two resets
  MaxCuts       \* bound on the losses of power

ASSUME SettingsAssumption ==
  /\ MaxToken \in Nat /\ MaxCuts \in Nat
  /\ "boot" \notin Conns
  /\ Absent \notin Addresses \cup Passwords \cup {"yes", "no"}
  /\ Invalid \notin Addresses \cup Passwords \cup {"yes", "no"}
  /\ Erased \notin Addresses \cup Passwords \cup Leases
                   \cup {DefaultPass, RomAddr, ZeroAddr, Garbage, "yes", "no"}

VARIABLES
  page,      \* the flash page, part by part
  write,     \* eprom_write in progress, or None
  cpu,       \* "off", "run" (main loop) or "write" (stalled in eprom_write)
  config,    \* the global config
  app,       \* the global AppConfig: MyIPAddr, DefaultIPAddr, DHCP flag
  token,     \* the global token: how many were rendered since the reset
  restoring, \* connections with RESTORE_OK in curHTTP.data[0]
  cuts,      \* number of losses of power
  saved,     \* history: the settings last reported as saved
  cut        \* history: the image whose writing was cut, or None

flash == <<page, write>>
ram == <<config, app, token, restoring>>
history == <<cuts, saved, cut>>
vars == <<flash, cpu, ram, history>>

N == 4
Part == 1 .. N
Pass == 1
Ip == 2
Fallback == 3
Dhcp == 4

\* The contents a part can have.
Content == Passwords \cup Addresses \cup Leases \cup {"yes", "no"}
           \cup {DefaultPass, RomAddr, ZeroAddr, Erased, Garbage}
Image == [Part -> Content]

ASSUME NoneAssumption == None \notin Image \cup (Content \X Content \X Content)

Job == [by : Conns \cup {"boot"}, image : Image, promise : Image, next : 0 .. N + 1]

\* RAM as the C start-up leaves it.
ZeroConfig == [p \in Part |-> ZeroAddr]
ZeroApp == [ip |-> ZeroAddr, fallback |-> ZeroAddr, dhcp |-> "no"]

\* loadDefaultSettings: DefaultIPAddr is taken from AppConfig, not from the
\* configuration being filled in.
Defaults == [p \in Part |-> CASE p = Pass -> DefaultPass
                              [] p = Ip -> RomAddr
                              [] p = Fallback -> app.ip
                              [] p = Dhcp -> "yes"]

\* Mutant: the test inverted.
BlankInverted(image) == image[1] # Erased

\* CheckAndLoadDefaults takes a page of 0xFF as no configuration at all.
Blank(image) == \A p \in Part : image[p] = Erased

AppOf(image) == [ip |-> image[Ip], fallback |-> image[Fallback], dhcp |-> image[Dhcp]]

\* A field of a form: absent fields leave the value alone.
Field(value, old) == IF value = Absent THEN old ELSE value

-----------------------------------------------------------------------------
(* eprom_write. *)

\* promise is history: what a reader of the page may expect afterwards.
StartWrite(who, image, promise) ==
  /\ write' = [by |-> who, image |-> image, promise |-> promise, next |-> 0]
  /\ cpu' = "write"

\* Mutant: written over without erasing.
WriteNoErase ==
  /\ cpu = "write" /\ write.next = 0
  /\ write' = [write EXCEPT !.next = 1]
  /\ UNCHANGED <<page, cpu, ram, history>>

\* NVMErasePage.
WriteErase ==
  /\ cpu = "write" /\ write.next = 0
  /\ page' = [p \in Part |-> Erased]
  /\ write' = [write EXCEPT !.next = 1]
  /\ UNCHANGED <<cpu, ram, history>>

\* Mutant: the loop counter is not advanced.
WritePartForever ==
  /\ cpu = "write" /\ write.next \in Part
  /\ page' = [page EXCEPT ![write.next] = write.image[write.next]]
  /\ UNCHANGED <<write, cpu, ram, history>>

\* NVMWriteWord, one call per word of the part.
WritePart ==
  /\ cpu = "write" /\ write.next \in Part
  /\ page' = [page EXCEPT ![write.next] = write.image[write.next]]
  /\ write' = [write EXCEPT !.next = @ + 1]
  /\ UNCHANGED <<cpu, ram, history>>

\* Mutant: AppConfig is not filled in after the defaults were written.
WriteReturnNoCopy ==
  /\ cpu = "write" /\ write.next = N + 1
  /\ saved' = write.promise
  /\ cut' = None
  /\ write' = None
  /\ cpu' = "run"
  /\ UNCHANGED <<page, config, app, token, restoring, cuts>>

\* eprom_write returns to CheckAndLoadDefaults, which copies AppConfig, or
\* to the handler, which reports the settings as saved.
WriteReturn ==
  /\ cpu = "write" /\ write.next = N + 1
  /\ app' = IF write.by = "boot" THEN AppOf(config) ELSE app
  /\ saved' = write.promise
  /\ cut' = None
  /\ write' = None
  /\ cpu' = "run"
  /\ UNCHANGED <<page, config, token, restoring, cuts>>

WriteStep == WriteErase \/ WritePart \/ WriteReturn

-----------------------------------------------------------------------------
(* Power and reset. *)

LoseRam ==
  /\ cpu' = "off"
  /\ config' = ZeroConfig /\ app' = ZeroApp /\ token' = 0 /\ restoring' = {}
  /\ write' = None

\* Power fails: a part that was being programmed may be left half done.
PowerLoss ==
  /\ cuts < MaxCuts /\ cpu # "off"
  /\ LoseRam
  /\ cuts' = cuts + 1
  /\ IF cpu = "write" /\ write.next > 0
     THEN /\ cut' = write.image
          /\ \/ UNCHANGED page
             \/ write.next \in Part /\ page' = [page EXCEPT ![write.next] = Garbage]
     ELSE UNCHANGED <<page, cut>>
  /\ UNCHANGED saved

\* CheckAndLoadDefaults at start-up.
Boot ==
  /\ cpu = "off"
  /\ IF Blank(page)
     THEN /\ config' = Defaults
          /\ StartWrite("boot", Defaults, Defaults)
          /\ UNCHANGED app
     ELSE /\ config' = page
          /\ app' = AppOf(page)
          /\ cpu' = "run"
          /\ UNCHANGED write
  /\ UNCHANGED <<page, token, restoring, history>>

-----------------------------------------------------------------------------
(* The handlers of CustomHTTPApp.c. *)

Serving(c) == cpu = "run" /\ c \notin restoring

\* HTTPPrint_configToken: every rendering of a form makes a new token.
RenderForm ==
  /\ cpu = "run" /\ token < MaxToken
  /\ token' = token + 1
  /\ UNCHANGED <<flash, cpu, config, app, restoring, history>>

\* A form with a wrong token or a bad field is answered and changes nothing.
Refuse == UNCHANGED vars

\* Mutant: forms are laid over the configuration in RAM.
BaseInRam == config

\* Forms are laid over the flash page, read anew for every form.
Base == page

\* StringToIPAddress and the other parsers, or the tests for "yes" and "no".
Accepted(value) == value # Invalid

\* Promised is history: an edit of the page is an edit of what was saved,
\* unless a loss of power has set the two apart.
Promised(image, edited) == IF cut = None THEN edited ELSE image

SaveEdited(c, Edit(_)) ==
  /\ StartWrite(c, Edit(Base), Promised(Edit(Base), Edit(saved)))
  /\ UNCHANGED <<page, ram, history>>

\* HTTPPostConfig: an address sets DefaultIPAddr too.
PostConfig(c, t, ip, dhcp) ==
  /\ Serving(c)
  /\ LET Edit(image) == [image EXCEPT ![Ip] = Field(ip, @),
                                      ![Fallback] = Field(ip, @),
                                      ![Dhcp] = Field(dhcp, @)]
     IN IF t = token /\ Accepted(ip) /\ Accepted(dhcp)
        THEN SaveEdited(c, Edit)
        ELSE Refuse

\* HTTPPostPass: the old password is compared with the one in RAM.
PostPass(c, t, old, new) ==
  /\ Serving(c)
  /\ LET Edit(image) == [image EXCEPT ![Pass] = Field(new, @)]
     IN IF t = token /\ old = config[Pass] /\ Accepted(new)
        THEN SaveEdited(c, Edit)
        ELSE Refuse

\* HTTPExecuteGet for restore.cgi only checks the token ...
RestoreGet(c, t) ==
  /\ Serving(c) /\ t = token
  /\ restoring' = restoring \cup {c}
  /\ UNCHANGED <<flash, cpu, config, app, token, history>>

\* Mutant: the restored settings put into force at once.
RestorePrintLive(c) ==
  /\ cpu = "run" /\ c \in restoring
  /\ restoring' = restoring \ {c}
  /\ config' = Defaults
  /\ app' = AppOf(Defaults)
  /\ StartWrite(c, Defaults, Defaults)
  /\ UNCHANGED <<page, token, history>>

\* ... and HTTPPrint_restore acts when the response is rendered, with other
\* connections served in between.  config, with the password that is asked
\* for, is replaced before the page is; AppConfig is left as it is.
RestorePrint(c) ==
  /\ cpu = "run" /\ c \in restoring
  /\ restoring' = restoring \ {c}
  /\ config' = Defaults
  /\ StartWrite(c, Defaults, Defaults)
  /\ UNCHANGED <<page, app, token, history>>

\* Unless the browser goes away first.
RestoreDropped(c) ==
  /\ cpu = "run" /\ c \in restoring
  /\ restoring' = restoring \ {c}
  /\ UNCHANGED <<flash, cpu, config, app, token, history>>

\* HTTPPrint_reset.
ResetPage ==
  /\ cpu = "run"
  /\ LoseRam
  /\ UNCHANGED <<page, history>>

Http ==
  \/ RenderForm
  \/ ResetPage
  \/ \E c \in Conns :
       \/ RestorePrint(c)
       \/ RestoreDropped(c)
       \/ \E t \in (0 .. MaxToken) \cup {Absent} :
            \/ RestoreGet(c, t)
            \/ \E ip \in Addresses \cup {Absent, Invalid}, dhcp \in {"yes", "no", Absent, Invalid} :
                 PostConfig(c, t, ip, dhcp)
            \/ \E old \in Passwords, new \in Passwords \cup {Absent, Invalid} :
                 PostPass(c, t, old, new)

-----------------------------------------------------------------------------
(* The network stack's writes to AppConfig, as StackTask makes them. *)

\* A DHCP lease.  A flag of erased flash reads as set.
Lease(ip) ==
  /\ cpu = "run" /\ app.dhcp # "no"
  /\ app' = [app EXCEPT !.ip = ip]
  /\ UNCHANGED <<flash, cpu, config, token, restoring, history>>

\* The link is lost.
LinkLost ==
  /\ cpu = "run" /\ app.dhcp # "no"
  /\ app' = [app EXCEPT !.ip = app.fallback]
  /\ UNCHANGED <<flash, cpu, config, token, restoring, history>>

Stack == LinkLost \/ \E ip \in Leases : Lease(ip)

-----------------------------------------------------------------------------
\* A device fresh from the factory: blank page, no power.
Init ==
  /\ page = [p \in Part |-> Erased] /\ write = None
  /\ cpu = "off"
  /\ config = ZeroConfig /\ app = ZeroApp /\ token = 0 /\ restoring = {}
  /\ cuts = 0 /\ saved = page /\ cut = None

Next == WriteStep \/ PowerLoss \/ Boot \/ Http \/ Stack

\* The CPU goes on as long as it has power.
Spec == Init /\ [][Next]_vars /\ WF_vars(WriteStep) /\ WF_vars(Boot)

-----------------------------------------------------------------------------
(* Properties. *)

TypeOK ==
  /\ page \in Image /\ config \in Image
  /\ cpu \in {"off", "run", "write"}
  /\ IF cpu = "write" THEN write \in Job ELSE write = None
  /\ app \in [ip : Content, fallback : Content, dhcp : Content]
  /\ token \in 0 .. MaxToken
  /\ restoring \in SUBSET Conns
  /\ cuts \in 0 .. MaxCuts
  /\ saved \in Image /\ cut \in Image \cup {None}

\* Whatever forms, restores and resets follow one another on whatever
\* connections, the page holds every change that was reported as saved and
\* nothing else: a form never undoes another one's change.
SavedSurvives == cut = None /\ cpu # "write" => page = saved

\* Power lost in the middle of a save leaves the beginning of the new image,
\* one part half done at the most, and erased flash: the old settings and
\* the rest of the new ones are gone.
CutIsPrefix ==
  cut # None /\ cpu # "write" =>
    \E k \in 1 .. N + 1 : \A p \in Part :
      /\ p < k => page[p] = cut[p]
      /\ p = k => page[p] \in {Erased, Garbage}
      /\ p > k => page[p] = Erased

\* Start-up puts into force exactly what was reported as saved before it,
\* unless power was lost during a save.
BootRunsSaved ==
  [][/\ cpu = "off" \/ (cpu = "write" /\ write.by = "boot")
     /\ cpu' = "run"
     /\ cut' = None
     => app' = AppOf(saved')]_vars

\* "These settings are only used if data is not found": start-up replaces
\* the settings by the defaults only on an empty page, or after power was
\* lost in the middle of a save.
DefaultsOnlyWhenLost ==
  [][cpu = "off" /\ cpu' = "write" =>
       cut # None \/ saved = [p \in Part |-> Erased]]_vars

\* Whatever a loss of power leaves in the page, the device comes up again.
KeepsBooting == []<>(cpu = "run")

\* What of the settings is in force: HTTPCheckAuth and HTTPPostPass compare
\* with the password in config, the rest of the program reads AppConfig.
InForce == <<config[Pass], app.fallback, app.dhcp>>
InForceAfterStart(image) == <<image[Pass], image[Fallback], image[Dhcp]>>
DefaultPassInForce(inForce) == <<DefaultPass, inForce[2], inForce[3]>>

\* The abstract store: Lost stands for what a cut save leaves behind.
Promise == INSTANCE SettingsPromise WITH
  Image <- Image,
  EmptyStore <- [p \in Part |-> Erased],
  View <- InForceAfterStart,
  Reverted <- DefaultPassInForce,
  Lost <- None,
  Off <- None,
  stored <- IF cut = None THEN saved ELSE None,
  running <- IF cpu = "off" \/ (cpu = "write" /\ write.by = "boot")
             THEN None ELSE InForce

\* The page, the forms and the losses of power implement the abstract store:
\* a form that is saved changes nothing that is in force, a restore changes
\* the password at once and nothing else, and a start runs what is stored.
KeepsPromise == Promise!Spec
=============================================================================
