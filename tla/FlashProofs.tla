---------------------------- MODULE FlashProofs ----------------------------
(***************************************************************************)
(* Theorems about what the device keeps in flash, for every number of      *)
(* resets and losses of power: first the page of settings (Settings), for  *)
(* every set of connections, passwords and addresses; then the flash disk  *)
(* (FatFs), for every number of clusters, root sectors and bytes to a      *)
(* sector, every greeting and every line.                                  *)
(***************************************************************************)
EXTENDS Settings, FatFs, FiniteSetTheorems, SequenceTheorems, WellFoundedInduction, TLAPS

-----------------------------------------------------------------------------
(* Settings. *)

\* While eprom_write runs, the parts before the next one are written and the
\* others erased; what it writes is what the history promises.  At start-up it
\* writes the configuration in RAM, and only if there was none in the page.
WriteShape ==
  cpu = "write" =>
    /\ write.image = write.promise
    /\ write.by = "boot" => /\ config = write.image
                            /\ cut # None \/ saved = [p \in Part |-> Erased]
    /\ write.next > 0 => \A p \in Part : page[p] = IF p < write.next THEN write.image[p] ELSE Erased

\* Until eprom_write erases the page, a loss of power leaves it as it was.
UntouchedSaved == cut = None /\ (cpu = "write" => write.next = 0) => page = saved

\* The page begins with k - 1 parts of the image; the rest is erased, but for
\* the part that was being programmed.
PrefixOf(image, k) ==
  \A p \in Part : /\ p < k => page[p] = image[p]
                  /\ p = k => page[p] \in {Erased, Garbage}
                  /\ p > k => page[p] = Erased

UntouchedCut ==
  cut # None /\ (cpu = "write" => write.next = 0) => \E k \in 1 .. N + 1 : PrefixOf(cut, k)

Inv == TypeOK /\ WriteShape /\ UntouchedSaved /\ UntouchedCut

-----------------------------------------------------------------------------
\* loadDefaultSettings makes an image, whatever the live AppConfig is.
LEMMA DefaultsTyped == ASSUME TypeOK PROVE Defaults \in Image
  BY DEF TypeOK, Defaults, Image, Content, Pass, Ip, Fallback, Dhcp, Part, N

\* The device leaves the factory with typed state.
LEMMA TypeInit == Init => TypeOK
  BY SettingsAssumption DEF Init, TypeOK, Image, Content, ZeroConfig, ZeroApp

\* A form's edit of an image is an image.
LEMMA EditTyped ==
  ASSUME NEW image \in Image,
         NEW ip \in Addresses \cup {Absent}, NEW dhcp \in {"yes", "no", Absent},
         NEW pass \in Passwords \cup {Absent}
  PROVE  /\ [image EXCEPT ![Ip] = Field(ip, @), ![Fallback] = Field(ip, @), ![Dhcp] = Field(dhcp, @)] \in Image
         /\ [image EXCEPT ![Pass] = Field(pass, @)] \in Image
  BY DEF Image, Content, Field, Part, N, Ip, Fallback, Dhcp, Pass

\* A step that starts a write on behalf of who and changes nothing else.
Starts(who, image, promise) ==
  /\ cpu = "run"
  /\ image \in Image /\ promise \in Image
  /\ StartWrite(who, image, promise)
  /\ UNCHANGED <<page, ram, history>>

\* A form is refused, or starts a write of what it promises.
LEMMA SaveStep ==
  ASSUME TypeOK, cpu = "run", NEW c \in Conns,
         NEW image \in Image, NEW edited \in Image, page = saved => edited = image,
         StartWrite(c, image, Promised(image, edited)),
         UNCHANGED <<page, ram, history>>
  PROVE  \E written, promise :
            /\ Starts(c, written, promise)
            /\ (cut = None => page = saved) => promise = written
<1>1. Promised(image, edited) \in Image
  BY DEF Promised
<1>2. (cut = None => page = saved) => Promised(image, edited) = image
  BY DEF Promised
<1>3. Starts(c, image, Promised(image, edited))
  BY <1>1 DEF Starts
<1>4. QED
  BY <1>2, <1>3

\* What the device does with a form: nothing, or a write of what it promises.
Answers(c) ==
  \/ UNCHANGED vars
  \/ \E written, promise :
       /\ Starts(c, written, promise)
       /\ (cut = None => page = saved) => promise = written

\* A form leaves settings or a write in progress of the right type.
LEMMA FormStep ==
  ASSUME TypeOK, NEW c \in Conns, NEW t,
         \/ \E ip \in Addresses \cup {Absent, Invalid}, dhcp \in {"yes", "no", Absent, Invalid} :
              PostConfig(c, t, ip, dhcp)
         \/ \E old \in Passwords, new \in Passwords \cup {Absent, Invalid} :
              PostPass(c, t, old, new)
  PROVE  Answers(c)
<1>1. ASSUME NEW ip \in Addresses \cup {Absent, Invalid},
             NEW dhcp \in {"yes", "no", Absent, Invalid},
             PostConfig(c, t, ip, dhcp)
      PROVE  Answers(c)
  <2> DEFINE Edit(image) == [image EXCEPT ![Ip] = Field(ip, @), ![Fallback] = Field(ip, @), ![Dhcp] = Field(dhcp, @)]
  <2>1. CASE Refuse
    BY <2>1 DEF Answers, Refuse
  <2>2. CASE ip # Invalid /\ dhcp # Invalid /\ SaveEdited(c, Edit)
    <3>1. Edit(page) \in Image /\ Edit(saved) \in Image
      BY <2>2, EditTyped DEF TypeOK
    <3>2. /\ StartWrite(c, Edit(page), Promised(Edit(page), Edit(saved)))
          /\ UNCHANGED <<page, ram, history>>
      BY <2>2 DEF SaveEdited, Base
    <3>3. cpu = "run"
      BY <1>1 DEF PostConfig, Serving
    <3>4. page = saved => Edit(saved) = Edit(page)
      OBVIOUS
    <3> HIDE DEF Edit
    <3>5. QED
      BY <3>1, <3>2, <3>3, <3>4, SaveStep DEF Answers
  <2>3. QED
    BY <1>1, <2>1, <2>2 DEF PostConfig, Accepted
<1>2. ASSUME NEW old \in Passwords, NEW new \in Passwords \cup {Absent, Invalid},
             PostPass(c, t, old, new)
      PROVE  Answers(c)
  <2> DEFINE Edit(image) == [image EXCEPT ![Pass] = Field(new, @)]
  <2>1. CASE Refuse
    BY <2>1 DEF Answers, Refuse
  <2>2. CASE new # Invalid /\ SaveEdited(c, Edit)
    <3>1. Edit(page) \in Image /\ Edit(saved) \in Image
      BY <2>2, EditTyped DEF TypeOK
    <3>2. /\ StartWrite(c, Edit(page), Promised(Edit(page), Edit(saved)))
          /\ UNCHANGED <<page, ram, history>>
      BY <2>2 DEF SaveEdited, Base
    <3>3. cpu = "run"
      BY <1>2 DEF PostPass, Serving
    <3>4. page = saved => Edit(saved) = Edit(page)
      OBVIOUS
    <3> HIDE DEF Edit
    <3>5. QED
      BY <3>1, <3>2, <3>3, <3>4, SaveStep DEF Answers
  <2>3. QED
    BY <1>2, <2>1, <2>2 DEF PostPass, Accepted
<1>3. QED
  BY <1>1, <1>2

\* Every step, loss of power included, keeps the types.
LEMMA TypeStep == TypeOK /\ [Next]_vars => TypeOK'
<1> SUFFICES ASSUME TypeOK, [Next]_vars
             PROVE  TypeOK'
  OBVIOUS
<1> USE DEF flash, ram, history
<1>1. CASE WriteErase
  <2>1. page' \in Image
    BY <1>1 DEF WriteErase, Image, Content
  <2>2. write' \in Job
    BY <1>1 DEF WriteErase, TypeOK, Job, N
  <2>3. QED
    BY <1>1, <2>1, <2>2 DEF WriteErase, TypeOK
<1>2. CASE WritePart
  <2>1. page' \in Image
    BY <1>2 DEF WritePart, TypeOK, Image, Job
  <2>2. write' \in Job
    BY <1>2 DEF WritePart, TypeOK, Job, N, Part
  <2>3. QED
    BY <1>2, <2>1, <2>2 DEF WritePart, TypeOK
<1>3. CASE WriteReturn
  <2>1. AppOf(config) \in [ip : Content, fallback : Content, dhcp : Content]
    BY DEF AppOf, TypeOK, Image, Ip, Fallback, Dhcp, Part, N
  <2>2. write.promise \in Image
    BY <1>3 DEF WriteReturn, TypeOK, Job
  <2>3. QED
    BY <1>3, <2>1, <2>2 DEF WriteReturn, TypeOK
<1>4. CASE PowerLoss
  <2>1. page' \in Image
    BY <1>4 DEF PowerLoss, TypeOK, Image, Content
  <2>2. cut' \in Image \cup {None}
    BY <1>4 DEF PowerLoss, TypeOK, Job
  <2>3. cuts' \in 0 .. MaxCuts
    BY <1>4, SettingsAssumption DEF PowerLoss, TypeOK
  <2>4. QED
    BY <1>4, <2>1, <2>2, <2>3, SettingsAssumption
       DEF PowerLoss, LoseRam, TypeOK, ZeroConfig, ZeroApp, Image, Content
<1>5. CASE Boot
  <2>1. CASE Blank(page)
    BY <1>5, <2>1, DefaultsTyped DEF Boot, StartWrite, TypeOK, Job, N
  <2>2. CASE ~Blank(page)
    <3>1. AppOf(page) \in [ip : Content, fallback : Content, dhcp : Content]
      BY DEF AppOf, TypeOK, Image, Ip, Fallback, Dhcp, Part, N
    <3>2. QED
      BY <1>5, <2>2, <3>1 DEF Boot, TypeOK
  <2>3. QED
    BY <2>1, <2>2
<1>6. CASE RenderForm
  BY <1>6, SettingsAssumption DEF RenderForm, TypeOK
<1>7. CASE ResetPage
  BY <1>7, SettingsAssumption DEF ResetPage, LoseRam, TypeOK, ZeroConfig, ZeroApp, Image, Content
<1>8. ASSUME NEW c \in Conns, RestorePrint(c)
      PROVE  TypeOK'
  <2>1. write' \in Job
    BY <1>8, DefaultsTyped DEF RestorePrint, StartWrite, Job, N
  <2>2. restoring' \in SUBSET Conns
    BY <1>8 DEF RestorePrint, TypeOK
  <2>3. QED
    BY <1>8, <2>1, <2>2, DefaultsTyped DEF RestorePrint, StartWrite, TypeOK
<1>9. ASSUME NEW c \in Conns, RestoreDropped(c)
      PROVE  TypeOK'
  BY <1>9 DEF RestoreDropped, TypeOK
<1>10. ASSUME NEW c \in Conns, NEW t, RestoreGet(c, t)
       PROVE  TypeOK'
  BY <1>10 DEF RestoreGet, TypeOK
<1>11. ASSUME NEW c \in Conns, NEW image, NEW promise, Starts(c, image, promise)
       PROVE  TypeOK'
  <2>1. write' \in Job
    BY <1>11 DEF Starts, StartWrite, Job, N
  <2>2. QED
    BY <1>11, <2>1 DEF Starts, StartWrite, TypeOK
<1>12. CASE UNCHANGED vars
  BY <1>12 DEF vars, TypeOK
<1>13. ASSUME NEW c \in Conns, NEW t,
              \/ \E ip \in Addresses \cup {Absent, Invalid}, dhcp \in {"yes", "no", Absent, Invalid} :
                   PostConfig(c, t, ip, dhcp)
              \/ \E old \in Passwords, new \in Passwords \cup {Absent, Invalid} :
                   PostPass(c, t, old, new)
       PROVE  TypeOK'
  BY <1>11, <1>12, <1>13, FormStep DEF Answers
<1>14. CASE LinkLost
  BY <1>14 DEF LinkLost, TypeOK
<1>15. ASSUME NEW ip \in Leases, Lease(ip)
       PROVE  TypeOK'
  BY <1>15 DEF Lease, TypeOK, Content
<1>16. QED
  BY <1>1, <1>2, <1>3, <1>4, <1>5, <1>6, <1>7, <1>8, <1>9, <1>10, <1>12, <1>13, <1>14, <1>15
     DEF Next, WriteStep, Http, Stack

-----------------------------------------------------------------------------
(* The inductive invariant. *)

\* Nothing saved, nothing cut: the inductive invariant holds at first.
LEMMA InvInit == Init => Inv
<1> SUFFICES ASSUME Init PROVE Inv
  OBVIOUS
<1>1. TypeOK
  BY TypeInit
<1>2. WriteShape /\ UntouchedSaved /\ UntouchedCut
  BY DEF Init, WriteShape, UntouchedSaved, UntouchedCut
<1>3. QED
  BY <1>1, <1>2 DEF Inv

\* Where the page and its history stay and no write is under way after the
\* step, nor had one erased the page before it, the invariant stays.
LEMMA QuietStep ==
  ASSUME Inv, UNCHANGED <<page, saved, cut>>, cpu' # "write",
         cpu = "write" => write.next = 0
  PROVE  WriteShape' /\ UntouchedSaved' /\ UntouchedCut'
  BY DEF Inv, WriteShape, UntouchedSaved, UntouchedCut, PrefixOf

\* Where the step starts a write that keeps its promise, the invariant stays.
LEMMA StartStep ==
  ASSUME Inv, UNCHANGED <<page, saved, cut>>, cpu # "write",
         NEW who, NEW image, StartWrite(who, image, image),
         who = "boot" => /\ config' = image
                         /\ cut # None \/ saved = [p \in Part |-> Erased]
  PROVE  WriteShape' /\ UntouchedSaved' /\ UntouchedCut'
  BY DEF Inv, WriteShape, UntouchedSaved, UntouchedCut, PrefixOf, StartWrite

\* After the erase nothing is saved and the write stands at its first part.
LEMMA EraseStep ==
  ASSUME Inv, WriteErase
  PROVE  WriteShape' /\ UntouchedSaved' /\ UntouchedCut'
<1>1. write.next = 0 /\ write \in Job /\ cpu' = "write" /\ write' = [write EXCEPT !.next = 1]
  BY DEF WriteErase, Inv, TypeOK, ram
<1>2. /\ write'.next = 1
      /\ write'.by = write.by
      /\ write'.image = write.image
      /\ write'.promise = write.promise
  BY <1>1 DEF Job
<1>3. \A p \in Part : page'[p] = Erased /\ ~ p < 1
  BY DEF WriteErase, Part
<1>4. WriteShape'
  BY <1>2, <1>3 DEF WriteErase, Inv, WriteShape, ram, history
<1>5. QED
  BY <1>1, <1>2, <1>4 DEF UntouchedSaved, UntouchedCut

\* Programming the next part lengthens the prefix on the page by one.
LEMMA PartStep ==
  ASSUME Inv, WritePart
  PROVE  WriteShape' /\ UntouchedSaved' /\ UntouchedCut'
<1>1. write.next \in Part /\ write \in Job /\ cpu' = "write" /\ cpu = "write"
  BY DEF WritePart, Inv, TypeOK, ram
<1>2. /\ write'.next = write.next + 1
      /\ write'.by = write.by
      /\ write'.image = write.image
      /\ write'.promise = write.promise
  BY <1>1 DEF WritePart, Job
<1>3. write.next > 0 /\ write'.next # 0
  BY <1>1, <1>2 DEF Part
<1>4. ASSUME NEW p \in Part
      PROVE  page'[p] = IF p < write'.next THEN write'.image[p] ELSE Erased
  <2>1. page[p] = IF p < write.next THEN write.image[p] ELSE Erased
    BY <1>1, <1>3 DEF Inv, WriteShape
  <2>2. page'[p] = IF p = write.next THEN write.image[write.next] ELSE page[p]
    BY DEF WritePart, Inv, TypeOK, Image
  <2>3. p < write'.next <=> (p < write.next \/ p = write.next)
    BY <1>1, <1>2 DEF Part, N
  <2>4. QED
    BY <1>2, <2>1, <2>2, <2>3
<1>5. WriteShape'
  <2>1. UNCHANGED <<config, cut, saved>>
    BY DEF WritePart, ram, history
  <2>2. QED
    BY <1>1, <1>2, <1>4, <2>1 DEF Inv, WriteShape
<1>6. QED
  BY <1>1, <1>3, <1>5 DEF UntouchedSaved, UntouchedCut

\* What eprom_write has written when it returns is what was promised.
LEMMA Written ==
  ASSUME Inv, WriteReturn
  PROVE  page = write.promise
<1>1. /\ cpu = "write" /\ write \in Job /\ write.next = N + 1
      /\ page \in Image /\ write.image \in Image
  BY DEF WriteReturn, Inv, TypeOK, Job
<1>2. write.next > 0 /\ \A p \in Part : p < write.next
  BY <1>1 DEF Part, N
<1>3. \A p \in Part : page[p] = write.image[p]
  BY <1>1, <1>2 DEF Inv, WriteShape
<1>4. page = write.image
  BY <1>1, <1>3 DEF Image
<1>5. QED
  BY <1>1, <1>4 DEF Inv, WriteShape

\* When eprom_write returns, the page is the image that was to be saved.
LEMMA ReturnStep ==
  ASSUME Inv, WriteReturn
  PROVE  WriteShape' /\ UntouchedSaved' /\ UntouchedCut'
  BY Written DEF WriteReturn, WriteShape, UntouchedSaved, UntouchedCut

\* A loss of power leaves the page as it was or the beginning of the image.
LEMMA CutStep ==
  ASSUME Inv, PowerLoss
  PROVE  WriteShape' /\ UntouchedSaved' /\ UntouchedCut'
<1>1. CASE cpu = "write" /\ write.next > 0
  <2>1. write \in Job /\ write.next \in 1 .. N + 1 /\ cut' = write.image /\ write.image \in Image
    BY <1>1 DEF PowerLoss, Inv, TypeOK, Job, N
  <2>2. cut' # None /\ cpu' = "off"
    BY <2>1, NoneAssumption DEF PowerLoss, LoseRam
  <2>3. ASSUME NEW p \in Part
        PROVE  /\ p < write.next => page'[p] = write.image[p]
               /\ p = write.next => page'[p] \in {Erased, Garbage}
               /\ p > write.next => page'[p] = Erased
    <3>1. page[p] = IF p < write.next THEN write.image[p] ELSE Erased
      BY <1>1 DEF Inv, WriteShape
    <3>2. \/ page'[p] = page[p]
          \/ p = write.next /\ page'[p] = Garbage
      BY <1>1 DEF PowerLoss, Inv, TypeOK, Image
    <3>3. /\ p = write.next => ~ p < write.next
          /\ p > write.next => ~ p < write.next /\ p # write.next
          /\ p < write.next => p # write.next
      BY <2>1 DEF Part, N
    <3>4. QED
      BY <3>1, <3>2, <3>3
  <2>4. \E k \in 1 .. N + 1 : PrefixOf(cut, k)'
    BY <2>1, <2>3 DEF PrefixOf
  <2>5. QED
    BY <2>2, <2>4 DEF WriteShape, UntouchedSaved, UntouchedCut
<1>2. CASE ~ (cpu = "write" /\ write.next > 0)
  <2>1. cpu = "write" => write.next = 0
    BY <1>2 DEF Inv, TypeOK, Job, N
  <2>2. UNCHANGED <<page, saved, cut>> /\ cpu' # "write"
    BY <1>2 DEF PowerLoss, LoseRam
  <2>3. QED
    BY <2>1, <2>2, QuietStep
<1>3. QED
  BY <1>1, <1>2

\* Every step of forms, start-up, stack and power keeps the invariant.
LEMMA InvStep == Inv /\ [Next]_vars => Inv'
<1> SUFFICES ASSUME Inv, [Next]_vars
             PROVE  WriteShape' /\ UntouchedSaved' /\ UntouchedCut'
  BY TypeStep DEF Inv
<1> USE DEF flash, ram, history
<1>1. CASE WriteErase
  BY <1>1, EraseStep
<1>2. CASE WritePart
  BY <1>2, PartStep
<1>3. CASE WriteReturn
  BY <1>3, ReturnStep
<1>4. CASE PowerLoss
  BY <1>4, CutStep
<1>5. CASE Boot
  <2>1. UNCHANGED <<page, saved, cut>> /\ cpu # "write"
    BY <1>5 DEF Boot
  <2>2. StartWrite("boot", Defaults, Defaults) \/ cpu' # "write"
    BY <1>5 DEF Boot
  <2>3. CASE StartWrite("boot", Defaults, Defaults)
    <3>1. config' = Defaults /\ Blank(page)
      BY <1>5, <2>3 DEF Boot, StartWrite
    <3>2. cut = None => page = saved /\ page \in Image
      BY <2>1 DEF Inv, TypeOK, UntouchedSaved
    <3>3. cut # None \/ saved = [p \in Part |-> Erased]
      BY <3>1, <3>2 DEF Blank, Image
    <3>4. QED
      BY <2>1, <2>3, <3>1, <3>3, StartStep
  <2>4. CASE cpu' # "write"
    BY <2>1, <2>4, QuietStep
  <2>5. QED
    BY <2>2, <2>3, <2>4
<1>6. CASE RenderForm
  BY <1>6, QuietStep DEF RenderForm
<1>7. CASE ResetPage
  BY <1>7, QuietStep DEF ResetPage, LoseRam
<1>8. ASSUME NEW c \in Conns, RestorePrint(c)
      PROVE  WriteShape' /\ UntouchedSaved' /\ UntouchedCut'
  BY <1>8, StartStep, SettingsAssumption DEF RestorePrint
<1>9. ASSUME NEW c \in Conns, RestoreDropped(c)
      PROVE  WriteShape' /\ UntouchedSaved' /\ UntouchedCut'
  BY <1>9, QuietStep DEF RestoreDropped
<1>10. ASSUME NEW c \in Conns, NEW t, RestoreGet(c, t)
       PROVE  WriteShape' /\ UntouchedSaved' /\ UntouchedCut'
  BY <1>10, QuietStep DEF RestoreGet, Serving
<1>11. CASE UNCHANGED vars
  BY <1>11 DEF vars, Inv, WriteShape, UntouchedSaved, UntouchedCut, PrefixOf
<1>12. ASSUME NEW c \in Conns, NEW t,
              \/ \E ip \in Addresses \cup {Absent, Invalid}, dhcp \in {"yes", "no", Absent, Invalid} :
                   PostConfig(c, t, ip, dhcp)
              \/ \E old \in Passwords, new \in Passwords \cup {Absent, Invalid} :
                   PostPass(c, t, old, new)
       PROVE  WriteShape' /\ UntouchedSaved' /\ UntouchedCut'
  <2>1. TypeOK
    BY DEF Inv
  <2>2. Answers(c)
    BY <1>12, <2>1, FormStep
  <2>3. ASSUME NEW written, NEW promise, Starts(c, written, promise),
               (cut = None => page = saved) => promise = written
        PROVE  WriteShape' /\ UntouchedSaved' /\ UntouchedCut'
    <3>1. cpu = "run" /\ UNCHANGED <<page, saved, cut>>
      BY <2>3 DEF Starts
    <3>2. promise = written
      BY <2>3, <3>1 DEF Inv, UntouchedSaved
    <3>3. StartWrite(c, written, written)
      BY <2>3, <3>2 DEF Starts
    <3>4. QED
      BY <3>1, <3>3, StartStep, SettingsAssumption
  <2>4. QED
    BY <1>11, <2>2, <2>3 DEF Answers
<1>13. CASE LinkLost
  BY <1>13, QuietStep DEF LinkLost
<1>14. ASSUME NEW ip \in Leases, Lease(ip)
       PROVE  WriteShape' /\ UntouchedSaved' /\ UntouchedCut'
  BY <1>14, QuietStep DEF Lease
<1>15. QED
  BY <1>1, <1>2, <1>3, <1>4, <1>5, <1>6, <1>7, <1>8, <1>9, <1>10, <1>11, <1>12, <1>13, <1>14
     DEF Next, WriteStep, Http, Stack

\* The inductive invariant holds in every reachable state.
LEMMA Invariance == Spec => []Inv
<1>1. QED
  BY InvInit, InvStep, PTL DEF Spec

-----------------------------------------------------------------------------
(* The theorems. *)

\* The page, the RAM and eprom_write's progress are what their C types and
\* the handlers' checks allow, and their histories are images.
THEOREM SettingsTyped == Spec => []TypeOK
<1>1. Inv => TypeOK
  BY DEF Inv
<1>2. QED
  BY Invariance, <1>1, PTL

\* Whatever forms, restores, resets and harmless losses of power follow one
\* another, on however many connections: the page holds every change that
\* HTTPPostConfig, HTTPPostPass or HTTPPrint_restore reported as saved.
THEOREM NoSavedChangeLost == Spec => []SavedSurvives
<1>1. Inv => SavedSurvives
  BY DEF Inv, UntouchedSaved, SavedSurvives
<1>2. QED
  BY Invariance, <1>1, PTL

\* A save cut by a loss of power leaves a beginning of the new image in the
\* page, half a part at the most, and erased flash.
THEOREM CutShape == Spec => []CutIsPrefix
<1>1. Inv => CutIsPrefix
  BY DEF Inv, UntouchedCut, CutIsPrefix, PrefixOf
<1>2. QED
  BY Invariance, <1>1, PTL

\* CheckAndLoadDefaults puts in force what was reported as saved, whether it
\* finds it in the page or has just written it there.
THEOREM BootFaithful == Spec => BootRunsSaved
<1>1. Inv /\ [Next]_vars =>
        [/\ cpu = "off" \/ (cpu = "write" /\ write.by = "boot")
         /\ cpu' = "run"
         /\ cut' = None
         => app' = AppOf(saved')]_vars
  <2> SUFFICES ASSUME Inv, Next, cpu' = "run", cut' = None,
                      cpu = "off" \/ (cpu = "write" /\ write.by = "boot")
               PROVE  app' = AppOf(saved')
    OBVIOUS
  <2>1. Boot \/ WriteReturn
    BY DEF Next, WriteStep, WriteErase, WritePart, PowerLoss, LoseRam, Http, RenderForm, ResetPage,
           RestorePrint, RestoreDropped, RestoreGet, PostConfig, PostPass, Serving, Stack, LinkLost, Lease
  <2>2. CASE Boot
    <3>1. cpu = "off" /\ app' = AppOf(page) /\ saved' = saved /\ cut = None
      BY <2>2 DEF Boot, StartWrite, history
    <3>2. QED
      BY <3>1 DEF Inv, UntouchedSaved
  <2>3. CASE WriteReturn
    <3>1. cpu = "write" /\ app' = AppOf(config) /\ saved' = write.promise
      BY <2>3 DEF WriteReturn
    <3>2. config = write.promise
      BY <3>1 DEF Inv, WriteShape
    <3>3. QED
      BY <3>1, <3>2
  <2>4. QED
    BY <2>1, <2>2, <2>3
<1>2. QED
  BY Invariance, <1>1, PTL DEF Spec, BootRunsSaved

\* Start-up writes the defaults over the page only if nothing was ever saved
\* or a loss of power cut a save.
THEOREM DefaultsLast == Spec => DefaultsOnlyWhenLost
<1>1. Inv /\ [Next]_vars =>
        [cpu = "off" /\ cpu' = "write" =>
           cut # None \/ saved = [p \in Part |-> Erased]]_vars
  <2> SUFFICES ASSUME Inv, Next, cpu = "off", cpu' = "write", cut = None
               PROVE  saved = [p \in Part |-> Erased]
    OBVIOUS
  <2>1. Boot
    BY DEF Next, WriteStep, WriteErase, WritePart, WriteReturn, PowerLoss, LoseRam, Http, RenderForm,
           ResetPage, RestorePrint, RestoreDropped, RestoreGet, PostConfig, PostPass, Serving, Stack,
           LinkLost, Lease
  <2>2. Blank(page)
    BY <2>1 DEF Boot
  <2>3. page = saved /\ page \in Image
    BY DEF Inv, UntouchedSaved, TypeOK
  <2>4. QED
    BY <2>2, <2>3 DEF Blank, Image
<1>2. QED
  BY Invariance, <1>1, PTL DEF Spec, DefaultsOnlyWhenLost

-----------------------------------------------------------------------------
(* The settings implement the abstract store. *)

\* The abstract store's two variables.
Stored == IF cut = None THEN saved ELSE None
Starting == cpu = "off" \/ (cpu = "write" /\ write.by = "boot")
Running == IF Starting THEN None ELSE InForce

\* None, the abstract store's mark for nothing, is no image in force.
LEMMA RunningOrNot ==
  ASSUME TypeOK
  PROVE  InForce # None /\ (cut = None <=> Stored # None)
<1>1. InForce \in Content \X Content \X Content
  <2>1. config[Pass] \in Content
    BY DEF TypeOK, Image, Pass, Part, N
  <2>2. QED
    BY <2>1 DEF TypeOK, InForce
<1>2. saved # None
  BY NoneAssumption DEF TypeOK
<1>3. QED
  BY <1>1, <1>2, NoneAssumption DEF Stored

\* Steps the abstract store does not see.
LEMMA Unseen ==
  ASSUME UNCHANGED <<saved, cut>>, Starting' = Starting, Starting \/ InForce' = InForce
  PROVE  UNCHANGED <<Stored, Running>>
  BY DEF Stored, Running

\* Every step of the settings is a step of the abstract store or a stutter.
LEMMA PromiseStep ==
  Inv /\ Inv' /\ [Next]_vars => [Promise!Next]_<<Stored, Running>>
<1> SUFFICES ASSUME Inv, Inv', [Next]_vars
             PROVE  Promise!Next \/ UNCHANGED <<Stored, Running>>
  BY DEF Promise!Next, Promise!Save, Promise!Restore, Promise!Start, Promise!Stop, Stored, Running, Starting
<1> USE DEF flash, ram, history
<1>1. TypeOK /\ TypeOK'
  BY DEF Inv
<1>2. CASE WriteErase
  <2>1. cpu = "write" /\ cpu' = "write" /\ write'.by = write.by
    BY <1>1, <1>2 DEF WriteErase, TypeOK, Job
  <2>2. QED
    BY <1>2, <2>1, Unseen DEF WriteErase, Starting, InForce
<1>3. CASE WritePart
  <2>1. cpu = "write" /\ cpu' = "write" /\ write'.by = write.by
    BY <1>1, <1>3 DEF WritePart, TypeOK, Job
  <2>2. QED
    BY <1>3, <2>1, Unseen DEF WritePart, Starting, InForce
<1>4. CASE WriteReturn
  <2>1. Running' = InForce' /\ Stored' = saved' /\ saved' \in Image
    BY <1>1, <1>4 DEF WriteReturn, Running, Starting, Stored, TypeOK
  <2>2. CASE write.by = "boot"
    <3>1. Running = None /\ Stored \in {[p \in Part |-> Erased], None}
      BY <1>4, <2>2 DEF WriteReturn, Running, Starting, Stored, Inv, WriteShape
    <3>2. Running' = InForceAfterStart(saved')
      <4>1. app' = AppOf(saved') /\ config' = saved'
        BY <1>4, <2>2 DEF WriteReturn, Inv, WriteShape
      <4>2. QED
        BY <2>1, <4>1 DEF AppOf, InForce, InForceAfterStart
    <3>3. QED
      BY <2>1, <3>1, <3>2 DEF Promise!Next, Promise!Start, Running, Stored, Starting
  <2>3. CASE write.by # "boot"
    <3>1. Running = InForce /\ app' = app /\ config' = config
      BY <1>4, <2>3 DEF WriteReturn, Running, Starting
    <3>2. Running' = Running /\ Running # None
      BY <1>1, <2>1, <3>1, RunningOrNot DEF InForce
    <3>3. QED
      BY <2>1, <3>2 DEF Promise!Next, Promise!Save, Running, Stored, Starting
  <2>4. QED
    BY <2>2, <2>3
<1>5. CASE PowerLoss \/ ResetPage
  <2>1. Running' = None
    BY <1>5 DEF PowerLoss, ResetPage, LoseRam, Running, Starting
  <2>2. saved' = saved /\ (cut' = cut \/ cut' \in Image)
    BY <1>1, <1>5 DEF PowerLoss, ResetPage, TypeOK, Job
  <2>3. Stored' \in {Stored, None}
    BY <2>2, NoneAssumption DEF Stored
  <2>4. QED
    BY <2>1, <2>3 DEF Promise!Next, Promise!Stop, Running, Stored, Starting
<1>6. CASE Boot
  <2>1. UNCHANGED <<page, saved, cut>> /\ cpu = "off"
    BY <1>6 DEF Boot
  <2>2. CASE Blank(page)
    <3>1. Starting /\ Starting'
      BY <1>6, <2>1, <2>2 DEF Boot, StartWrite, Starting
    <3>2. QED
      BY <2>1, <3>1, Unseen
  <2>3. CASE ~ Blank(page)
    <3>1. cpu' = "run" /\ app' = AppOf(page) /\ config' = page
      BY <1>6, <2>3 DEF Boot
    <3>2. /\ Running = None
          /\ Running' = InForce' /\ Running' # None
          /\ Stored' = Stored
      <4>1. InForce' \in Content \X Content \X Content
        <5>1. config'[Pass] \in Content
          BY <1>1 DEF TypeOK, Image, Pass, Part, N
        <5>2. QED
          BY <1>1, <5>1 DEF TypeOK, InForce
      <4>2. QED
        BY <2>1, <3>1, <4>1, NoneAssumption DEF Running, Starting, Stored
    <3>3. cut = None => Stored # None /\ Running' = InForceAfterStart(Stored)
      <4>1. cut = None => page = saved
        BY <2>1 DEF Inv, UntouchedSaved
      <4>2. QED
        BY <1>1, <3>1, <3>2, <4>1, RunningOrNot DEF Stored, AppOf, InForce, InForceAfterStart
    <3>4. cut # None => Stored = None
      BY DEF Stored
    <3>5. QED
      BY <3>2, <3>3, <3>4 DEF Promise!Next, Promise!Start, Running, Stored, Starting
  <2>4. QED
    BY <2>2, <2>3
<1>7. ASSUME cpu = "run", cpu' = "run", UNCHANGED <<saved, cut>>, InForce' = InForce
      PROVE  UNCHANGED <<Stored, Running>>
  BY <1>7, Unseen DEF Starting
<1>8. ASSUME NEW who, who # "boot", NEW image, NEW promise,
             cpu = "run", StartWrite(who, image, promise), UNCHANGED <<saved, cut, app, config>>
      PROVE  UNCHANGED <<Stored, Running>>
  BY <1>8, Unseen DEF Starting, StartWrite, InForce
<1>9. CASE RenderForm
  BY <1>7, <1>9 DEF RenderForm, InForce
<1>10. ASSUME NEW c \in Conns, RestorePrint(c)
       PROVE  Promise!Next
  <2>1. /\ cpu = "run" /\ cpu' = "write" /\ write'.by = c /\ c # "boot"
        /\ UNCHANGED <<saved, cut, app>> /\ config' = Defaults
    BY <1>10, SettingsAssumption DEF RestorePrint, StartWrite
  <2>2. /\ Running = InForce /\ Running' = InForce' /\ Stored' = Stored
    BY <2>1 DEF Running, Starting, Stored
  <2>3. Running # None
    BY <1>1, <2>2, RunningOrNot
  <2>4. config'[Pass] = DefaultPass
    <3>1. Pass \in Part
      BY DEF Pass, Part, N
    <3>2. Defaults[Pass] = DefaultPass
      BY <3>1 DEF Defaults, Pass, Ip, Fallback, Dhcp
    <3>3. QED
      BY <2>1, <3>2
  <2>5. Running' = DefaultPassInForce(Running)
    BY <2>1, <2>2, <2>4 DEF InForce, DefaultPassInForce
  <2>6. QED
    BY <2>2, <2>3, <2>5 DEF Promise!Next, Promise!Restore, Running, Stored, Starting
<1>11. ASSUME NEW c \in Conns, NEW t, RestoreDropped(c) \/ RestoreGet(c, t)
       PROVE  UNCHANGED <<Stored, Running>>
  BY <1>7, <1>11 DEF RestoreDropped, RestoreGet, Serving, InForce
<1>12. ASSUME UNCHANGED vars
       PROVE  UNCHANGED <<Stored, Running>>
  BY <1>12, Unseen DEF vars, Starting, InForce
<1>13. ASSUME NEW c \in Conns, NEW t,
              \/ \E ip \in Addresses \cup {Absent, Invalid}, dhcp \in {"yes", "no", Absent, Invalid} :
                   PostConfig(c, t, ip, dhcp)
              \/ \E old \in Passwords, new \in Passwords \cup {Absent, Invalid} :
                   PostPass(c, t, old, new)
       PROVE  UNCHANGED <<Stored, Running>>
  <2>1. Answers(c)
    BY <1>1, <1>13, FormStep
  <2>2. ASSUME NEW written, NEW promise, Starts(c, written, promise)
        PROVE  UNCHANGED <<Stored, Running>>
    BY <1>8, <2>2, SettingsAssumption DEF Starts
  <2>3. CASE \E written, promise : Starts(c, written, promise)
    BY <2>2, <2>3
  <2>4. QED
    BY <1>12, <2>1, <2>3 DEF Answers
<1>14. CASE LinkLost
  <2>1. app'.fallback = app.fallback /\ app'.dhcp = app.dhcp
    BY <1>1, <1>14 DEF LinkLost, TypeOK
  <2>2. QED
    BY <1>7, <1>14, <2>1 DEF LinkLost, InForce
<1>15. ASSUME NEW ip \in Leases, Lease(ip)
       PROVE  UNCHANGED <<Stored, Running>>
  <2>1. app'.fallback = app.fallback /\ app'.dhcp = app.dhcp
    BY <1>1, <1>15 DEF Lease, TypeOK
  <2>2. QED
    BY <1>7, <1>15, <2>1 DEF Lease, InForce
<1>16. QED
  BY <1>2, <1>3, <1>4, <1>5, <1>6, <1>9, <1>10, <1>11, <1>12, <1>13, <1>14, <1>15
     DEF Next, WriteStep, Http, Stack

\* The page, the forms and the losses of power implement the abstract store:
\* a save takes effect as a whole or the settings are lost; a form that is
\* saved changes neither the password nor the addresses in force, a restore
\* changes the password at once and nothing else; and a start runs exactly
\* what is stored.
THEOREM ImplementsStore == Spec => KeepsPromise
<1>1. Init => Promise!Init
  BY DEF Init, Promise!Init
<1>2. Inv /\ Inv' /\ [Next]_vars => [Promise!Next]_Promise!promiseVars
  BY PromiseStep DEF Stored, Running, Starting, Promise!promiseVars
<1>3. QED
  BY Invariance, <1>1, <1>2, PTL DEF Spec, KeepsPromise, Promise!Spec

-----------------------------------------------------------------------------
(* Chains of clusters. *)

\* What a FAT entry holds.
Link == Cluster \cup {Free, Eoc}

\* A FAT whose links meet no free cluster and no other link.
Links(F) ==
  /\ F \in [Cluster -> Link]
  /\ \A c \in Cluster : F[c] \in Cluster =>
       /\ F[F[c]] # Free
       /\ \A d \in Cluster : F[d] = F[c] => d = c

\* From cluster a, n links lead to cluster c.
Leads(F, a, n, c) ==
  \E g \in [0 .. n -> Cluster] :
    /\ g[0] = a /\ g[n] = c
    /\ \A i \in 0 .. n - 1 : F[g[i]] = g[i + 1]

\* Cluster a begins a chain.
Heads(F, a) == a \in Cluster /\ F[a] # Free /\ \A c \in Cluster : F[c] # a

\* The clusters are numbers between the two values that mark the ends.
LEMMA ClusterNumbers ==
  /\ LastCluster \in Nat /\ LastCluster >= 2
  /\ SectorSize \in Nat /\ SectorSize >= 2
  /\ Eoc = LastCluster + 1 /\ Eoc \in Nat /\ Free = 0
  /\ \A c \in Cluster : c \in Nat /\ c >= 2 /\ c <= LastCluster /\ c # 0 /\ c # Eoc /\ c \in Link
  /\ 0 \notin Cluster /\ Eoc \notin Cluster /\ 1 \notin Cluster
  /\ \A e \in Link : e \in Nat /\ (e = 0 \/ e = Eoc \/ e \in Cluster)
  /\ 0 \in Link /\ Eoc \in Link
<1>1. Len(Greeting) >= 1 /\ Len(Line) >= 1 /\ Len(Greeting) \in Nat /\ Len(Line) \in Nat
  BY FatFsAssumption
<1> QED BY <1>1, FatFsAssumption DEF Cluster, Eoc, Free, Link

\* A set of natural numbers that is not empty has a least member.
LEMMA LeastNumber ==
  ASSUME NEW S \in SUBSET Nat, S # {}
  PROVE  \E x \in S : \A y \in S : x <= y
<1> DEFINE R == OpToRel(<, Nat)
<1>1. IsWellFoundedOn(R, Nat)
  BY NatLessThanWellFounded, Zenon
<1>2. \A x, y \in Nat : y < x => <<y, x>> \in R
  BY Zenon DEF OpToRel
<1> HIDE DEF R
<1>3. PICK x \in S : \A y \in S : ~ (<<y, x>> \in R)
  BY <1>1, WFMin
<1>4. \A y \in S : ~ (y < x)
  BY <1>2, <1>3
<1> QED BY <1>4

\* No link leads from a to itself only.
LEMMA LeadsZero ==
  ASSUME NEW F, NEW a, NEW c
  PROVE  Leads(F, a, 0, c) <=> a = c /\ a \in Cluster
<1>1. ASSUME Leads(F, a, 0, c) PROVE a = c /\ a \in Cluster
  BY <1>1 DEF Leads
<1>2. ASSUME a = c, a \in Cluster PROVE Leads(F, a, 0, c)
  <2> DEFINE g == [i \in 0 .. 0 |-> a]
  <2>1. g \in [0 .. 0 -> Cluster] /\ g[0] = a /\ g[0] = c
    BY <1>2
  <2>2. \A i \in 0 .. 0 - 1 : F[g[i]] = g[i + 1]
    OBVIOUS
  <2> HIDE DEF g
  <2> QED BY <2>1, <2>2 DEF Leads
<1> QED BY <1>1, <1>2

\* What is led to is a cluster, and so is the start.
LEMMA LeadsCluster ==
  ASSUME NEW F, NEW a, NEW n \in Nat, NEW c, Leads(F, a, n, c)
  PROVE  a \in Cluster /\ c \in Cluster
  BY DEF Leads

\* One link more.
LEMMA LeadsNext ==
  ASSUME NEW F, NEW a, NEW n \in Nat, NEW c, Leads(F, a, n, c), F[c] \in Cluster
  PROVE  Leads(F, a, n + 1, F[c])
<1>1. PICK g \in [0 .. n -> Cluster] : g[0] = a /\ g[n] = c /\ \A i \in 0 .. n - 1 : F[g[i]] = g[i + 1]
  BY DEF Leads
<1> DEFINE h == [i \in 0 .. n + 1 |-> IF i = n + 1 THEN F[c] ELSE g[i]]
<1>2. h \in [0 .. n + 1 -> Cluster]
  OBVIOUS
<1>3. h[0] = a /\ h[n + 1] = F[c]
  BY <1>1
<1>4. ASSUME NEW i \in 0 .. (n + 1) - 1 PROVE F[h[i]] = h[i + 1]
  BY <1>1
<1> HIDE DEF h
<1> QED BY <1>2, <1>3, <1>4 DEF Leads

\* The last link.
LEMMA LeadsPrevious ==
  ASSUME NEW F, NEW a, NEW n \in Nat, NEW c, Leads(F, a, n + 1, c)
  PROVE  \E d \in Cluster : Leads(F, a, n, d) /\ F[d] = c
<1>1. PICK g \in [0 .. n + 1 -> Cluster] : g[0] = a /\ g[n + 1] = c /\ \A i \in 0 .. (n + 1) - 1 : F[g[i]] = g[i + 1]
  BY DEF Leads
<1> DEFINE h == [i \in 0 .. n |-> g[i]]
<1>2. h \in [0 .. n -> Cluster] /\ h[0] = a /\ h[n] = g[n] /\ g[n] \in Cluster
  BY <1>1
<1>3. ASSUME NEW i \in 0 .. n - 1 PROVE F[h[i]] = h[i + 1]
  <2>1. i \in 0 .. n /\ i + 1 \in 0 .. n /\ i \in 0 .. (n + 1) - 1
    OBVIOUS
  <2> QED BY <1>1, <2>1
<1>4. F[g[n]] = c
  <2>1. n \in 0 .. (n + 1) - 1
    OBVIOUS
  <2> QED BY <1>1, <2>1
<1> HIDE DEF h
<1>5. Leads(F, a, n, g[n])
  BY <1>2, <1>3 DEF Leads
<1> QED BY <1>2, <1>4, <1>5

\* Every place before the last one is led to, and has its link.
LEMMA LeadsBefore ==
  ASSUME NEW F, NEW a, NEW n \in Nat, NEW c, Leads(F, a, n, c), NEW m \in Nat, m < n
  PROVE  \E d \in Cluster : Leads(F, a, m, d) /\ F[d] \in Cluster /\ Leads(F, a, m + 1, F[d])
<1>1. PICK g \in [0 .. n -> Cluster] : g[0] = a /\ g[n] = c /\ \A i \in 0 .. n - 1 : F[g[i]] = g[i + 1]
  BY DEF Leads
<1> DEFINE h == [i \in 0 .. m |-> g[i]]
<1>2. h \in [0 .. m -> Cluster] /\ h[0] = a /\ h[m] = g[m] /\ g[m] \in Cluster
  BY <1>1
<1>3. \A i \in 0 .. m - 1 : F[h[i]] = h[i + 1]
  BY <1>1
<1>4. F[g[m]] = g[m + 1] /\ g[m + 1] \in Cluster
  BY <1>1
<1> HIDE DEF h
<1>5. Leads(F, a, m, g[m])
  BY <1>2, <1>3 DEF Leads
<1> QED BY <1>2, <1>4, <1>5, LeadsNext

\* From one start, a number of links leads to one cluster only.
LEMMA LeadsTo ==
  ASSUME NEW F, NEW a, NEW n \in Nat, NEW c, NEW d, Leads(F, a, n, c), Leads(F, a, n, d)
  PROVE  c = d
<1>1. PICK g \in [0 .. n -> Cluster] : g[0] = a /\ g[n] = c /\ \A i \in 0 .. n - 1 : F[g[i]] = g[i + 1]
  BY DEF Leads
<1>2. PICK h \in [0 .. n -> Cluster] : h[0] = a /\ h[n] = d /\ \A i \in 0 .. n - 1 : F[h[i]] = h[i + 1]
  BY DEF Leads
<1> DEFINE Apart == {i \in 0 .. n : g[i] # h[i]}
<1>3. SUFFICES ASSUME Apart # {} PROVE FALSE
  BY <1>1, <1>2
<1>4. PICK i \in Apart : \A j \in Apart : i <= j
  <2>1. Apart \in SUBSET Nat
    OBVIOUS
  <2> HIDE DEF Apart
  <2> QED BY <1>3, <2>1, LeastNumber
<1>5. i # 0 /\ i \in 0 .. n
  BY <1>1, <1>2
<1>6. i - 1 \in 0 .. n - 1 /\ (i - 1) + 1 = i
  BY <1>5
<1>7. i - 1 \notin Apart
  <2> HIDE DEF Apart
  <2> QED BY <1>4, <1>6
<1>8. g[i - 1] = h[i - 1]
  BY <1>6, <1>7
<1>9. g[i] = h[i]
  BY <1>1, <1>2, <1>6, <1>8
<1> QED BY <1>4, <1>9

\* A chain that begins at a meets no cluster twice.
LEMMA LeadsOnce ==
  ASSUME NEW F, Links(F), NEW a, Heads(F, a),
         NEW n \in Nat, NEW m \in Nat, NEW c, Leads(F, a, n, c), Leads(F, a, m, c)
  PROVE  n = m
<1> DEFINE Meets(i) == \E j \in Nat, e \in Cluster : j > i /\ Leads(F, a, i, e) /\ Leads(F, a, j, e)
           Twice == {i \in Nat : Meets(i)}
<1>1. SUFFICES ASSUME Twice # {} PROVE FALSE
  <2>1. c \in Cluster
    BY LeadsCluster
  <2>2. n < m => Meets(n)
    BY <2>1
  <2>3. m < n => Meets(m)
    BY <2>1
  <2> HIDE DEF Meets
  <2> QED BY <2>2, <2>3
<1>2. PICK i \in Twice : \A k \in Twice : i <= k
  <2>1. Twice \in SUBSET Nat
    OBVIOUS
  <2> HIDE DEF Twice
  <2> QED BY <1>1, <2>1, LeastNumber
<1>3. PICK j \in Nat, e \in Cluster : j > i /\ Leads(F, a, i, e) /\ Leads(F, a, j, e)
  BY <1>2
<1>4. i \in Nat
  BY <1>2
<1>5. PICK p \in Nat : j = p + 1
  <2>1. j - 1 \in Nat /\ j = (j - 1) + 1
    BY <1>3, <1>4
  <2> QED BY <2>1
<1>6. PICK y \in Cluster : Leads(F, a, p, y) /\ F[y] = e
  BY <1>3, <1>5, LeadsPrevious
<1>7. CASE i = 0
  <2>1. e = a
    BY <1>3, <1>7, LeadsZero
  <2> QED BY <1>6, <2>1 DEF Heads
<1>8. CASE i # 0
  <2>1. PICK q \in Nat : i = q + 1
    <3>1. i - 1 \in Nat /\ i = (i - 1) + 1
      BY <1>4, <1>8
    <3> QED BY <3>1
  <2>2. PICK x \in Cluster : Leads(F, a, q, x) /\ F[x] = e
    BY <1>3, <2>1, LeadsPrevious
  <2>3. x = y
    BY <1>3, <1>6, <2>2 DEF Links
  <2>4. p > q
    BY <1>3, <1>5, <2>1
  <2>5. Meets(q)
    BY <1>6, <2>2, <2>3, <2>4
  <2>6. q \in Twice
    BY <2>5
  <2> HIDE DEF Twice
  <2> QED BY <1>2, <2>1, <2>6
<1> QED BY <1>7, <1>8

\* A chain has no more clusters than there are.
LEMMA LeadsShort ==
  ASSUME NEW F, Links(F), NEW a, Heads(F, a), NEW n \in Nat, NEW c, Leads(F, a, n, c)
  PROVE  n <= LastCluster - 2
<1>1. PICK g \in [0 .. n -> Cluster] : g[0] = a /\ g[n] = c /\ \A i \in 0 .. n - 1 : F[g[i]] = g[i + 1]
  BY DEF Leads
<1>2. ASSUME NEW m \in 0 .. n PROVE Leads(F, a, m, g[m])
  <2> DEFINE h == [i \in 0 .. m |-> g[i]]
  <2>1. h \in [0 .. m -> Cluster] /\ h[0] = a /\ h[m] = g[m]
    BY <1>1
  <2>2. \A i \in 0 .. m - 1 : F[h[i]] = h[i + 1]
    BY <1>1
  <2> HIDE DEF h
  <2> QED BY <2>1, <2>2 DEF Leads
<1>3. SUFFICES ASSUME ~ (n <= LastCluster - 2) PROVE FALSE
  OBVIOUS
<1>4. IsFiniteSet(0 .. n) /\ Cardinality(0 .. n) = n + 1
  BY FS_Interval
<1>5. IsFiniteSet(Cluster) /\ Cardinality(Cluster) = LastCluster - 1
  <2>1. LastCluster \in Nat /\ LastCluster >= 2
    BY ClusterNumbers
  <2>2. IsFiniteSet(2 .. LastCluster) /\ Cardinality(2 .. LastCluster) = IF 2 > LastCluster THEN 0 ELSE LastCluster - 2 + 1
    BY SMTT(40), <2>1, FS_Interval
  <2> QED BY <2>1, <2>2 DEF Cluster
<1>6. Cardinality(Cluster) < Cardinality(0 .. n)
  BY <1>3, <1>4, <1>5, ClusterNumbers
<1>7. PICK x, y \in 0 .. n : x # y /\ g[x] = g[y]
  BY <1>4, <1>5, <1>6, FS_PigeonHole
<1>8. Leads(F, a, x, g[x]) /\ Leads(F, a, y, g[x])
  BY <1>2, <1>7
<1>9. x \in Nat /\ y \in Nat
  OBVIOUS
<1> QED BY <1>7, <1>8, <1>9, LeadsOnce

\* A FAT with the free cluster n put behind cluster c, or with a chain of its
\* own when c is 0.
Stretched(F, n, c) ==
  LET marked == [F EXCEPT ![n] = Eoc]
  IN IF c = 0 THEN marked ELSE [marked EXCEPT ![c] = n]

\* n is free, and c is the end of a chain.
CanStretch(F, n, c) ==
  /\ Links(F) /\ n \in Cluster /\ F[n] = Free
  /\ c = 0 \/ (c \in Cluster /\ F[c] = Eoc)

\* What a stretched FAT holds.
LEMMA StretchedValues ==
  ASSUME NEW F, NEW n, NEW c, CanStretch(F, n, c)
  PROVE  /\ Stretched(F, n, c) \in [Cluster -> Link]
         /\ Stretched(F, n, c)[n] = Eoc
         /\ c # 0 => Stretched(F, n, c)[c] = n /\ c # n
         /\ \A d \in Cluster : d # n /\ d # c => Stretched(F, n, c)[d] = F[d]
         /\ \A d \in Cluster : F[d] # n
<1>1. F \in [Cluster -> Link] /\ Eoc \in Link /\ n \in Link /\ Eoc # Free /\ n # 0
  BY ClusterNumbers DEF CanStretch, Links
<1>2. \A d \in Cluster : F[d] # n
  BY DEF CanStretch, Links
<1>3. c # 0 => c \in Cluster /\ c # n
  BY <1>1 DEF CanStretch
<1> QED BY <1>1, <1>2, <1>3 DEF Stretched, CanStretch

\* It is a FAT without crossing links again.
LEMMA StretchedLinks ==
  ASSUME NEW F, NEW n, NEW c, CanStretch(F, n, c)
  PROVE  Links(Stretched(F, n, c))
<1> DEFINE G == Stretched(F, n, c)
<1>1. /\ G \in [Cluster -> Link] /\ G[n] = Eoc /\ (c # 0 => G[c] = n /\ c # n)
      /\ \A d \in Cluster : d # n /\ d # c => G[d] = F[d]
      /\ \A d \in Cluster : F[d] # n
  BY StretchedValues
<1>2. n \in Cluster /\ Eoc \notin Cluster /\ Eoc # Free /\ Links(F) /\ n # Free
  BY ClusterNumbers DEF CanStretch
<1> HIDE DEF G
<1>3. ASSUME NEW d \in Cluster, G[d] \in Cluster
      PROVE  G[G[d]] # Free /\ \A e \in Cluster : G[e] = G[d] => e = d
  <2>1. d # n
    BY <1>1, <1>2, <1>3
  <2>2. CASE d = c
    <3>1. c # 0 /\ G[d] = n
      BY <1>1, <2>2, ClusterNumbers
    <3> QED BY <1>1, <1>2, <2>2, <3>1
  <2>3. CASE d # c
    <3>1. G[d] = F[d] /\ F[d] # n
      BY <1>1, <2>1, <2>3
    <3>2. F[F[d]] # Free /\ \A e \in Cluster : F[e] = F[d] => e = d
      BY <1>2, <1>3, <3>1 DEF Links
    <3>3. G[F[d]] # Free
      BY <1>1, <1>2, <1>3, <3>1, <3>2, ClusterNumbers
    <3>4. ASSUME NEW e \in Cluster, G[e] = G[d] PROVE e = d
      <4>1. e # n
        BY <1>1, <1>2, <1>3, <3>4
      <4>2. e # c
        BY <1>1, <3>1, <3>4, ClusterNumbers
      <4> QED BY <1>1, <3>1, <3>2, <3>4, <4>1, <4>2
    <3> QED BY <3>1, <3>3, <3>4
  <2> QED BY <2>2, <2>3
<1>4. Links(G)
  BY <1>1, <1>3 DEF Links
<1> QED BY <1>4 DEF G

\* The chains that were there lead where they led.
LEMMA StretchedForward ==
  ASSUME NEW F, NEW n, NEW c, CanStretch(F, n, c), NEW a, NEW m \in Nat, NEW d, Leads(F, a, m, d)
  PROVE  Leads(Stretched(F, n, c), a, m, d)
<1>1. PICK g \in [0 .. m -> Cluster] : g[0] = a /\ g[m] = d /\ \A i \in 0 .. m - 1 : F[g[i]] = g[i + 1]
  BY DEF Leads
<1>2. ASSUME NEW i \in 0 .. m - 1 PROVE Stretched(F, n, c)[g[i]] = g[i + 1]
  <2>1. F[g[i]] = g[i + 1] /\ g[i] \in Cluster /\ g[i + 1] \in Cluster
    BY <1>1
  <2>2. g[i] # n /\ g[i] # c
    BY <2>1, ClusterNumbers DEF CanStretch
  <2> QED BY <2>1, <2>2, StretchedValues
<1> QED BY <1>1, <1>2 DEF Leads

\* They lead nowhere else but to the new cluster, behind c.
LEMMA StretchedBack ==
  ASSUME NEW F, NEW n, NEW c, CanStretch(F, n, c), NEW a, NEW m \in Nat, NEW d,
         Leads(Stretched(F, n, c), a, m, d), a # n
  PROVE  \/ Leads(F, a, m, d) /\ d # n
         \/ d = n /\ c # 0 /\ \E k \in Nat : m = k + 1 /\ Leads(F, a, k, c)
<1> DEFINE G == Stretched(F, n, c)
<1>1. PICK g \in [0 .. m -> Cluster] : g[0] = a /\ g[m] = d /\ \A i \in 0 .. m - 1 : G[g[i]] = g[i + 1]
  BY DEF Leads
<1>2. /\ G[n] = Eoc /\ (c # 0 => G[c] = n /\ c # n)
      /\ \A e \in Cluster : e # n /\ e # c => G[e] = F[e]
      /\ \A e \in Cluster : F[e] # n
      /\ n \in Cluster /\ Eoc \notin Cluster /\ 0 \notin Cluster
  BY StretchedValues, ClusterNumbers DEF CanStretch
<1> HIDE DEF G
<1>3. ASSUME NEW i \in 0 .. m - 1 PROVE i \in 0 .. m /\ i + 1 \in 0 .. m /\ g[i] # n /\ g[i] \in Cluster /\ g[i + 1] \in Cluster
  <2>1. i \in 0 .. m /\ i + 1 \in 0 .. m
    OBVIOUS
  <2> QED BY <1>1, <1>2, <2>1
<1>4. ASSUME NEW i \in 0 .. m - 1, g[i] = c PROVE i + 1 = m /\ d = n
  <2>1. g[i + 1] = n
    BY <1>1, <1>2, <1>3, <1>4
  <2>2. i + 1 \notin 0 .. m - 1
    BY <1>3, <2>1
  <2>3. i + 1 = m
    BY <2>2
  <2> QED BY <1>1, <2>1, <2>3
<1>5. ASSUME NEW i \in 0 .. m - 1, g[i] # c PROVE F[g[i]] = g[i + 1]
  BY <1>1, <1>2, <1>3, <1>5
<1>6. CASE d # n
  <2>1. \A i \in 0 .. m - 1 : F[g[i]] = g[i + 1]
    BY <1>4, <1>5, <1>6
  <2>2. Leads(F, a, m, d)
    BY <1>1, <2>1 DEF Leads
  <2> QED BY <1>6, <2>2
<1>7. CASE d = n
  <2>1. m # 0
    BY <1>1, <1>7
  <2>2. PICK k \in Nat : m = k + 1
    <3>1. m - 1 \in Nat /\ m = (m - 1) + 1
      BY <2>1
    <3> QED BY <3>1
  <2>3. k \in 0 .. m - 1
    BY <2>2
  <2>4. g[k + 1] = n
    BY <1>1, <1>7, <2>2
  <2>5. g[k] = c
    BY <1>2, <1>3, <1>5, <2>3, <2>4
  <2>6. c # 0
    BY <1>2, <1>3, <2>3, <2>5
  <2> DEFINE h == [i \in 0 .. k |-> g[i]]
  <2>7. h \in [0 .. k -> Cluster] /\ h[0] = a /\ h[k] = c
    BY <1>1, <2>2, <2>5
  <2>8. ASSUME NEW i \in 0 .. k - 1 PROVE F[h[i]] = h[i + 1]
    <3>1. i \in 0 .. m - 1 /\ i + 1 # m /\ h[i] = g[i] /\ h[i + 1] = g[i + 1]
      BY <2>2
    <3>2. g[i] # c
      BY <1>4, <3>1
    <3> QED BY <1>5, <3>1, <3>2
  <2> HIDE DEF h
  <2>9. Leads(F, a, k, c)
    BY <2>7, <2>8 DEF Leads
  <2> QED BY <1>7, <2>2, <2>6, <2>9
<1> QED BY <1>6, <1>7

\* The new cluster is behind c.
LEMMA StretchedEnd ==
  ASSUME NEW F, NEW n, NEW c, CanStretch(F, n, c), NEW a, NEW k \in Nat, Leads(F, a, k, c)
  PROVE  Leads(Stretched(F, n, c), a, k + 1, n)
<1>1. c \in Cluster /\ c # 0
  BY LeadsCluster, ClusterNumbers
<1>2. Stretched(F, n, c)[c] = n /\ n \in Cluster
  BY <1>1, StretchedValues DEF CanStretch
<1>3. Leads(Stretched(F, n, c), a, k, c)
  BY StretchedForward
<1> QED BY <1>2, <1>3, LeadsNext

\* What begins a chain still does.
LEMMA StretchedHeads ==
  ASSUME NEW F, NEW n, NEW c, CanStretch(F, n, c), NEW a, Heads(F, a)
  PROVE  Heads(Stretched(F, n, c), a) /\ a # n
<1>1. a \in Cluster /\ a # n /\ F[a] # Free
  BY DEF Heads, CanStretch
<1>2. Stretched(F, n, c)[a] # Free
  BY <1>1, StretchedValues, ClusterNumbers DEF CanStretch
<1>3. \A d \in Cluster : Stretched(F, n, c)[d] # a
  BY <1>1, StretchedValues, ClusterNumbers DEF CanStretch, Heads
<1> QED BY <1>1, <1>2, <1>3 DEF Heads

\* A cluster that nothing was put before begins a chain of itself alone.
LEMMA StretchedFirst ==
  ASSUME NEW F, NEW n, CanStretch(F, n, 0)
  PROVE  /\ Heads(Stretched(F, n, 0), n)
         /\ \A m \in Nat : \A d : Leads(Stretched(F, n, 0), n, m, d) => m = 0 /\ d = n
<1> DEFINE G == Stretched(F, n, 0)
<1>1. G[n] = Eoc /\ n \in Cluster /\ Eoc # Free /\ Eoc \notin Cluster /\ \A d \in Cluster : G[d] # n
  BY StretchedValues, ClusterNumbers DEF CanStretch
<1> HIDE DEF G
<1>2. Heads(G, n)
  BY <1>1 DEF Heads
<1>3. ASSUME NEW m \in Nat, NEW d, Leads(G, n, m, d) PROVE m = 0 /\ d = n
  <2>1. PICK g \in [0 .. m -> Cluster] : g[0] = n /\ g[m] = d /\ \A i \in 0 .. m - 1 : G[g[i]] = g[i + 1]
    BY <1>3 DEF Leads
  <2>2. m = 0
    <3>1. SUFFICES ASSUME m # 0 PROVE FALSE
      OBVIOUS
    <3>2. 0 \in 0 .. m - 1 /\ 0 + 1 \in 0 .. m
      BY <3>1
    <3>3. G[g[0]] = g[0 + 1] /\ g[0 + 1] \in Cluster
      BY <2>1, <3>2
    <3> QED BY <1>1, <2>1, <3>3
  <2> QED BY <2>1, <2>2
<1> QED BY <1>2, <1>3 DEF G

\* F is what a loss of power may leave of the FAT G: each link is there or
\* gone, and none is set free.
Shorn(F, G) == F \in [Cluster -> Link] /\ \A c \in Cluster : F[c] \in {G[c], Eoc}

\* What a loss of power leaves of the FAT leads nowhere the FAT did not.
LEMMA ShornLinks ==
  ASSUME NEW F, NEW G, Shorn(F, G), Links(G)
  PROVE  /\ Links(F)
         /\ \A a : Heads(G, a) => Heads(F, a)
         /\ \A a, c : \A n \in Nat : Leads(F, a, n, c) => Leads(G, a, n, c)
<1>1. Eoc \notin Cluster /\ Eoc # Free
  BY ClusterNumbers
<1>2. \A c \in Cluster : F[c] \in Cluster => F[c] = G[c]
  BY <1>1 DEF Shorn
<1>3. Links(F)
  BY <1>1, <1>2 DEF Shorn, Links
<1>4. ASSUME NEW a, Heads(G, a) PROVE Heads(F, a)
  BY <1>1, <1>2, <1>4 DEF Heads, Shorn
<1>5. ASSUME NEW a, NEW c, NEW n \in Nat, Leads(F, a, n, c) PROVE Leads(G, a, n, c)
  <2>1. PICK g \in [0 .. n -> Cluster] : g[0] = a /\ g[n] = c /\ \A i \in 0 .. n - 1 : F[g[i]] = g[i + 1]
    BY <1>5 DEF Leads
  <2>2. ASSUME NEW i \in 0 .. n - 1 PROVE G[g[i]] = g[i + 1]
    <3>1. i \in 0 .. n /\ i + 1 \in 0 .. n
      OBVIOUS
    <3>2. g[i] \in Cluster /\ g[i + 1] \in Cluster
      BY <2>1, <3>1
    <3> QED BY <1>2, <2>1, <3>2
  <2> QED BY <2>1, <2>2 DEF Leads
<1> QED BY <1>3, <1>4, <1>5

-----------------------------------------------------------------------------
(* Sectors. *)

Dirs == {Dir(k) : k \in 1 .. Root}
Stores == {Data(c) : c \in Cluster}

\* What the first entry of a directory sector may be.
EntryTyped(e) ==
  /\ e \in [kind : {"free", "file", "blank"}, clust : Link, size : Nat]
  /\ e.kind = "free" => e = EndOfTable
  /\ e.clust = Eoc => e.size = Huge

\* What the sectors of the volume's structure may hold.
SectorTyped(s, d) ==
  /\ s = Fat => Links(d.next) /\ d = Table(d.next)
  /\ s \in Dirs => EntryTyped(d)

DiskTyped(G) == G = [s \in Sector |-> G[s]] /\ \A s \in Sector : SectorTyped(s, G[s])

\* The disk G with the content d in sector s.
With(G, s, d) == [G EXCEPT ![s] = d]

\* Boot sectors, FAT, directory and data are distinct sectors.
LEMMA Sectors ==
  /\ Mbr \in Sector /\ Vbr \in Sector /\ Fat \in Sector
  /\ \A k \in 1 .. Root : Dir(k) \in Sector /\ Dir(k) \in Dirs
  /\ \A c \in Cluster : Data(c) \in Sector /\ Data(c) \in Stores
  /\ Mbr # Vbr /\ Fat # Mbr /\ Fat # Vbr
  /\ Mbr \notin Dirs /\ Vbr \notin Dirs /\ Fat \notin Dirs
  /\ Mbr \notin Stores /\ Vbr \notin Stores /\ Fat \notin Stores
  /\ \A s \in Dirs : s \notin Stores
  /\ \A c : Data(c) \notin Dirs /\ Data(c) # Fat /\ Data(c) # Mbr /\ Data(c) # Vbr
  /\ \A k : Dir(k) \notin Stores /\ Dir(k) # Fat /\ Dir(k) # Mbr /\ Dir(k) # Vbr
  /\ \A c, d : Data(c) = Data(d) => c = d
  /\ \A k, m : Dir(k) = Dir(m) => k = m
  /\ \A k, c : Dir(k) # Data(c)
  /\ \A s \in Sector : s \in {Mbr, Vbr, Fat} \/ s \in Dirs \/ s \in Stores
  /\ 1 \in 1 .. Root
<1>1. Mbr # Vbr /\ Fat # Mbr /\ Fat # Vbr
  BY DEF Mbr, Vbr, Fat
<1>2. /\ \A c : Data(c) # Fat /\ Data(c) # Mbr /\ Data(c) # Vbr
      /\ \A k : Dir(k) # Fat /\ Dir(k) # Mbr /\ Dir(k) # Vbr
  BY DEF Mbr, Vbr, Fat, Dir, Data
<1>3. /\ \A c, d : Data(c) = Data(d) => c = d
      /\ \A k, m : Dir(k) = Dir(m) => k = m
      /\ \A k, c : Dir(k) # Data(c)
  BY DEF Dir, Data
<1>4. 1 \in 1 .. Root
  BY FatFsAssumption
<1> QED BY <1>1, <1>2, <1>3, <1>4 DEF Sector, Dirs, Stores

\* Writing one sector.
LEMMA Writing ==
  ASSUME NEW G, DiskTyped(G), NEW s \in Sector, NEW d, SectorTyped(s, d)
  PROVE  /\ DiskTyped(With(G, s, d))
         /\ With(G, s, d)[s] = d
         /\ \A t \in Sector : t # s => With(G, s, d)[t] = G[t]
<1>1. With(G, s, d) = [t \in Sector |-> IF t = s THEN d ELSE G[t]]
  BY DEF DiskTyped, With
<1> DEFINE H == With(G, s, d)
<1>2. H[s] = d /\ \A t \in Sector : t # s => H[t] = G[t]
  BY <1>1
<1>3. H = [t \in Sector |-> H[t]]
  BY <1>1
<1> HIDE DEF H
<1>4. \A t \in Sector : SectorTyped(t, H[t])
  BY <1>2 DEF DiskTyped
<1>5. DiskTyped(H)
  BY <1>3, <1>4 DEF DiskTyped
<1> QED BY <1>2, <1>5 DEF H

\* Writing what is there changes nothing.
LEMMA WritingSame ==
  ASSUME NEW G, DiskTyped(G), NEW s \in Sector
  PROVE  With(G, s, G[s]) = G
  BY DEF DiskTyped, With

\* The second content is what stays.
LEMMA WritingTwice ==
  ASSUME NEW G, DiskTyped(G), NEW s \in Sector, NEW d, NEW e
  PROVE  With(With(G, s, d), s, e) = With(G, s, e)
  BY DEF DiskTyped, With

\* What is typed of a sector when it is read.
LEMMA Reading ==
  ASSUME NEW G, DiskTyped(G)
  PROVE  /\ Links(G[Fat].next) /\ G[Fat] = Table(G[Fat].next)
         /\ G[Fat].next \in [Cluster -> Link]
         /\ \A k \in 1 .. Root : EntryTyped(G[Dir(k)])
         /\ \A s \in Sector : SectorTyped(s, G[s])
  BY Sectors DEF DiskTyped, SectorTyped, Links

\* An erased sector.
LEMMA WipedValues ==
  /\ Wiped(Fat) = Table([c \in Cluster |-> Eoc])
  /\ \A k : Wiped(Dir(k)) = NoEntry
  /\ \A s \in Sector : SectorTyped(s, Wiped(s))
<1>1. Wiped(Fat) = Table([c \in Cluster |-> Eoc])
  BY DEF Wiped, Mbr, Vbr, Fat
<1>2. ASSUME NEW k PROVE Wiped(Dir(k)) = NoEntry
  BY Sectors DEF Wiped, Mbr, Vbr, Fat, Dir
<1>3. SectorTyped(Fat, Wiped(Fat))
  <2>1. Links([c \in Cluster |-> Eoc])
    BY ClusterNumbers DEF Links
  <2> QED BY <1>1, <2>1, Sectors DEF SectorTyped, Table
<1>4. EntryTyped(NoEntry)
  <2>1. Huge \in Nat
    <3>1. SectorSize \in Nat /\ LastCluster - 1 \in Nat
      BY ClusterNumbers
    <3>2. SectorSize * (LastCluster - 1) \in Nat
      BY <3>1
    <3> QED BY <3>2 DEF Huge
  <2> QED BY <2>1, ClusterNumbers DEF EntryTyped, NoEntry, Entry
<1>5. ASSUME NEW s \in Sector PROVE SectorTyped(s, Wiped(s))
  <2>1. CASE s = Fat
    BY <1>3, <2>1
  <2>2. CASE s \in Dirs
    BY <1>2, <1>4, <2>2, Sectors DEF SectorTyped, Dirs
  <2>3. CASE s # Fat /\ s \notin Dirs
    BY <2>3 DEF SectorTyped
  <2> QED BY <2>1, <2>2, <2>3
<1> QED BY <1>1, <1>2, <1>5

\* What a loss of power leaves of a directory sector and of the FAT.
LEMMA RemainsOfDir ==
  ASSUME NEW k, NEW d, NEW r \in Remains(Dir(k), d)
  PROVE  \/ r = NoEntry \/ r = d
         \/ d.kind = "file" /\ (r = Entry("file", Eoc, Huge) \/ r = Entry("file", d.clust, Huge))
<1>1. Remains(Dir(k), d) = 
         {NoEntry, d} \cup
         (IF d.kind = "file"
          THEN {Entry("file", Eoc, Huge), Entry("file", d.clust, Huge)}
          ELSE {})
  BY DEF Remains, Mbr, Vbr, Fat, Dir
<1> QED BY <1>1

\* A cut of the FAT leaves links and ends of chains.
LEMMA RemainsOfFat ==
  ASSUME NEW d, Links(d.next), NEW r \in Remains(Fat, d)
  PROVE  r = Table(r.next) /\ Shorn(r.next, d.next)
<1>1. Remains(Fat, d) = 
         {Table([c \in Cluster |-> IF c < n THEN d.next[c] ELSE Eoc]) : n \in 2 .. LastCluster + 1}
  BY DEF Remains, Mbr, Vbr, Fat, Dir
<1>2. PICK n \in 2 .. LastCluster + 1 : r = Table([c \in Cluster |-> IF c < n THEN d.next[c] ELSE Eoc])
  BY <1>1
<1>3. r.next = [c \in Cluster |-> IF c < n THEN d.next[c] ELSE Eoc]
  BY <1>2 DEF Table
<1>4. Shorn(r.next, d.next)
  BY <1>3, ClusterNumbers DEF Shorn, Links
<1> QED BY <1>2, <1>3, <1>4

\* An erased size is a number.
LEMMA HugeNumber == Huge \in Nat /\ Huge > 0
<1>1. SectorSize \in Nat /\ LastCluster - 1 \in Nat
  BY ClusterNumbers
<1>2. SectorSize * (LastCluster - 1) \in Nat
  BY <1>1
<1> QED BY <1>2 DEF Huge

\* A cut leaves content of the sector's kind.
LEMMA RemainsTyped ==
  ASSUME NEW s \in Sector, NEW d, SectorTyped(s, d), NEW r \in Remains(s, d)
  PROVE  SectorTyped(s, r)
<1>1. CASE s = Fat
  <2>1. Links(d.next)
    BY <1>1 DEF SectorTyped
  <2>2. r = Table(r.next) /\ Shorn(r.next, d.next)
    BY <1>1, <2>1, RemainsOfFat
  <2>3. Links(r.next)
    BY <2>1, <2>2, ShornLinks
  <2> QED BY <1>1, <2>2, <2>3, Sectors DEF SectorTyped
<1>2. CASE s \in Dirs
  <2>1. PICK k \in 1 .. Root : s = Dir(k)
    BY <1>2 DEF Dirs
  <2>2. EntryTyped(d) /\ EntryTyped(NoEntry)
    BY <1>2, <2>1, WipedValues DEF SectorTyped
  <2>3. /\ EntryTyped(Entry("file", Eoc, Huge))
        /\ EntryTyped(Entry("file", d.clust, Huge))
    BY <2>2, HugeNumber, ClusterNumbers DEF EntryTyped, Entry
  <2>4. EntryTyped(r)
    BY <2>1, <2>2, <2>3, RemainsOfDir
  <2> QED BY <1>2, <2>4, Sectors DEF SectorTyped
<1>3. CASE s # Fat /\ s \notin Dirs
  BY <1>3 DEF SectorTyped
<1> QED BY <1>1, <1>2, <1>3

-----------------------------------------------------------------------------
(* What holds of the FAT and the directory whatever was cut. *)

\* Where a byte lies that is the i-th of the n-th cluster of a chain.
Upto(n, i) == n * SectorSize + i

\* The chain from a has no recorded byte at or beyond z.  kp is the history
\* kept.
Bounded(F, kp, a, z) ==
  \A n \in Nat, c \in Cluster : Leads(F, a, n, c) /\ kp[c] > 0 => Upto(n, kp[c]) <= z

\* An entry with start a and size z, on the FAT F: of a file without
\* clusters, one that was cut, or one whose recorded bytes lie within it.
EntryFits(F, kp, a, z) ==
  \/ a = 0 /\ z \in {0, Huge}
  \/ a = Eoc /\ z = Huge
  \/ z \in Nat /\ z > 0 /\ Heads(F, a) /\ Bounded(F, kp, a, z)

\* A cluster with recorded bytes is never free.
RecordedTaken(F, kp) == \A c \in Cluster : kp[c] > 0 => F[c] # Free

\* No valid entry comes before that of the file.
DirOrdered(G) ==
  \A k \in 1 .. Root : G[Dir(k)].kind = "file" =>
    \A j \in 1 .. Root : j < k => G[Dir(j)].kind = "blank"

Coherent(G, kp) ==
  /\ DirOrdered(G)
  /\ RecordedTaken(G[Fat].next, kp)
  /\ \A k \in 1 .. Root : G[Dir(k)].kind = "file" =>
       EntryFits(G[Fat].next, kp, G[Dir(k)].clust, G[Dir(k)].size)

\* The history kept counts the bytes of a sector.
KeptTyped(kp) == kp \in [Cluster -> 0 .. SectorSize]

\* Positions in a file are numbers, and grow.
LEMMA UptoNumber ==
  ASSUME NEW n \in Nat, NEW i \in Nat
  PROVE  /\ Upto(n, i) \in Nat /\ Upto(n, i) >= i
         /\ \A j \in Nat : i <= j => Upto(n, i) <= Upto(n, j)
         /\ Upto(n, i) = Upto(n, 0) + i
         /\ Upto(n + 1, 0) = Upto(n, 0) + SectorSize
<1>1. PICK p \in Nat : p = n * SectorSize
  <2>1. SectorSize \in Nat
    BY ClusterNumbers
  <2> QED BY <2>1
<1>2. (n + 1) * SectorSize = p + SectorSize /\ SectorSize \in Nat
  BY <1>1, ClusterNumbers
<1>3. \A j \in Nat : Upto(n, j) = p + j
  BY <1>1 DEF Upto
<1>4. Upto(n + 1, 0) = p + SectorSize
  BY <1>2 DEF Upto
<1> QED BY ONLY <1>3, <1>4, p \in Nat, i \in Nat, <1>2

\* A later cluster lies behind all of an earlier one.
LEMMA UptoOrder ==
  ASSUME NEW n \in Nat, NEW m \in Nat, n < m
  PROVE  Upto(n, 0) + SectorSize <= Upto(m, 0)
<1>1. SectorSize \in Nat
  BY ClusterNumbers
<1>2. PICK k \in Nat : m = n + 1 + k
  <2>1. m - (n + 1) \in Nat /\ m = n + 1 + (m - (n + 1))
    OBVIOUS
  <2> QED BY <2>1
<1>3. m * SectorSize = n * SectorSize + SectorSize + k * SectorSize
  BY <1>1, <1>2
<1>4. PICK p \in Nat : p = n * SectorSize
  BY <1>1
<1>5. PICK q \in Nat : q = k * SectorSize
  BY <1>1
<1>6. Upto(n, 0) = p /\ Upto(m, 0) = p + SectorSize + q
  BY <1>1, <1>3, <1>4, <1>5 DEF Upto
<1> QED BY ONLY <1>1, <1>6, p \in Nat, q \in Nat

\* Links that lead on are the links of the stretched FAT.
LEMMA BoundedStretched ==
  ASSUME NEW F, NEW n, NEW c, CanStretch(F, n, c), NEW kp, KeptTyped(kp), RecordedTaken(F, kp),
         NEW a, a # n, NEW z, Bounded(F, kp, a, z)
  PROVE  Bounded(Stretched(F, n, c), kp, a, z)
<1>1. SUFFICES ASSUME NEW m \in Nat, NEW d \in Cluster, Leads(Stretched(F, n, c), a, m, d), kp[d] > 0
      PROVE  Upto(m, kp[d]) <= z
  BY DEF Bounded
<1>2. d # n
  BY <1>1 DEF RecordedTaken, CanStretch
<1>3. \/ Leads(F, a, m, d) /\ d # n
      \/ d = n /\ c # 0 /\ \E k \in Nat : m = k + 1 /\ Leads(F, a, k, c)
  BY <1>1, StretchedBack
<1>4. Leads(F, a, m, d)
  BY <1>2, <1>3
<1> QED BY <1>1, <1>4 DEF Bounded

\* An entry that fits a FAT fits it when a chain is stretched.
LEMMA FitsStretched ==
  ASSUME NEW F, NEW n, NEW c, CanStretch(F, n, c), NEW kp, KeptTyped(kp), RecordedTaken(F, kp),
         NEW a, NEW z, EntryFits(F, kp, a, z)
  PROVE  EntryFits(Stretched(F, n, c), kp, a, z)
<1>1. CASE z \in Nat /\ z > 0 /\ Heads(F, a) /\ Bounded(F, kp, a, z)
  BY <1>1, StretchedHeads, BoundedStretched DEF EntryFits
<1> QED BY <1>1 DEF EntryFits

\* A cluster without a chain before it has no recorded bytes.
LEMMA FitsFirst ==
  ASSUME NEW F, NEW n, CanStretch(F, n, 0), NEW kp, KeptTyped(kp), RecordedTaken(F, kp),
         NEW z \in Nat, z > 0
  PROVE  EntryFits(Stretched(F, n, 0), kp, n, z)
<1>1. Heads(Stretched(F, n, 0), n)
  BY StretchedFirst
<1>2. Bounded(Stretched(F, n, 0), kp, n, z)
  <2>1. \A m \in Nat, d \in Cluster : Leads(Stretched(F, n, 0), n, m, d) => d = n
    BY StretchedFirst
  <2>2. ~ (kp[n] > 0)
    BY DEF RecordedTaken, CanStretch
  <2> QED BY <2>1, <2>2 DEF Bounded
<1> QED BY <1>1, <1>2 DEF EntryFits

\* Stretching a chain frees no cluster.
LEMMA TakenStretched ==
  ASSUME NEW F, NEW n, NEW c, CanStretch(F, n, c), NEW kp, RecordedTaken(F, kp)
  PROVE  RecordedTaken(Stretched(F, n, c), kp)
<1>1. n \in Cluster /\ Eoc # Free /\ n # Free
  BY ClusterNumbers DEF CanStretch
<1>2. SUFFICES ASSUME NEW d \in Cluster, kp[d] > 0 PROVE Stretched(F, n, c)[d] # Free
  BY DEF RecordedTaken
<1>3. CASE d = c
  BY <1>1, <1>3, StretchedValues, ClusterNumbers
<1>4. CASE d # c
  BY <1>1, <1>2, <1>4, StretchedValues DEF RecordedTaken
<1> QED BY <1>3, <1>4

\* An entry that fits a FAT fits what a cut leaves of it.
LEMMA FitsShorn ==
  ASSUME NEW F, NEW G, Shorn(F, G), Links(G), NEW kp, NEW a, NEW z, EntryFits(G, kp, a, z)
  PROVE  EntryFits(F, kp, a, z)
<1>1. CASE z \in Nat /\ z > 0 /\ Heads(G, a) /\ Bounded(G, kp, a, z)
  <2>1. Heads(F, a) /\ \A n \in Nat : \A c : Leads(F, a, n, c) => Leads(G, a, n, c)
    BY <1>1, ShornLinks
  <2>2. Bounded(F, kp, a, z)
    BY <1>1, <2>1 DEF Bounded
  <2> QED BY <1>1, <2>1, <2>2 DEF EntryFits
<1> QED BY <1>1 DEF EntryFits

\* An entry fits with a larger size.
LEMMA FitsLonger ==
  ASSUME NEW F, NEW kp, KeptTyped(kp), NEW a \in Cluster, NEW z, EntryFits(F, kp, a, z), NEW y \in Nat, z <= y
  PROVE  EntryFits(F, kp, a, y)
<1>1. z \in Nat /\ z > 0 /\ Heads(F, a) /\ Bounded(F, kp, a, z)
  BY ClusterNumbers DEF EntryFits
<1>2. Bounded(F, kp, a, y)
  <2>1. SUFFICES ASSUME NEW n \in Nat, NEW c \in Cluster, Leads(F, a, n, c), kp[c] > 0
        PROVE  Upto(n, kp[c]) <= y
    BY DEF Bounded
  <2>2. Upto(n, kp[c]) <= z
    BY <1>1, <2>1 DEF Bounded
  <2>3. Upto(n, kp[c]) \in Nat
    <3>1. kp[c] \in Nat
      BY ClusterNumbers DEF KeptTyped
    <3> QED BY <3>1, UptoNumber
  <2> QED BY <1>1, <2>2, <2>3
<1> QED BY <1>1, <1>2 DEF EntryFits

\* A size that was cut is larger than every chain.
LEMMA FitsHuge ==
  ASSUME NEW F, Links(F), NEW kp, KeptTyped(kp), NEW a, NEW z, EntryFits(F, kp, a, z)
  PROVE  EntryFits(F, kp, a, Huge)
<1>1. CASE Heads(F, a)
  <2>1. ASSUME NEW n \in Nat, NEW c \in Cluster, Leads(F, a, n, c) PROVE Upto(n, kp[c]) <= Huge
    <3>1. n <= LastCluster - 2
      BY <1>1, <2>1, LeadsShort
    <3>2. LastCluster - 2 \in Nat /\ LastCluster - 1 \in Nat /\ n < LastCluster - 1
      BY <3>1, ClusterNumbers
    <3>3. Upto(n, 0) + SectorSize <= Upto(LastCluster - 1, 0)
      BY <3>2, UptoOrder
    <3>4. Huge = Upto(LastCluster - 1, 0) + 1
      BY <3>2, ClusterNumbers DEF Huge, Upto
    <3>5. Upto(n, kp[c]) = Upto(n, 0) + kp[c] /\ kp[c] <= SectorSize /\ kp[c] \in Nat
      <4>1. kp[c] <= SectorSize /\ kp[c] \in Nat
        BY ClusterNumbers DEF KeptTyped
      <4> QED BY <4>1, UptoNumber
    <3>6. Upto(n, 0) \in Nat /\ Upto(LastCluster - 1, 0) \in Nat /\ SectorSize \in Nat
      BY <3>2, UptoNumber, ClusterNumbers
    <3> QED BY <3>3, <3>4, <3>5, <3>6
  <2>2. Bounded(F, kp, a, Huge)
    BY <2>1 DEF Bounded
  <2> QED BY <1>1, <2>2, HugeNumber DEF EntryFits
<1>2. CASE ~ Heads(F, a)
  BY <1>2 DEF EntryFits
<1> QED BY <1>1, <1>2

\* A data sector, or one of the boot sectors, is no part of it.
LEMMA CoherentElsewhere ==
  ASSUME NEW G, NEW kp, Coherent(G, kp), NEW H,
         H[Fat] = G[Fat], \A k \in 1 .. Root : H[Dir(k)] = G[Dir(k)]
  PROVE  Coherent(H, kp)
  BY DEF Coherent, DirOrdered

\* The FAT is stretched.
LEMMA CoherentStretched ==
  ASSUME NEW G, DiskTyped(G), NEW kp, KeptTyped(kp), Coherent(G, kp),
         NEW n, NEW c, CanStretch(G[Fat].next, n, c)
  PROVE  /\ DiskTyped(With(G, Fat, Table(Stretched(G[Fat].next, n, c))))
         /\ Coherent(With(G, Fat, Table(Stretched(G[Fat].next, n, c))), kp)
<1> DEFINE F == G[Fat].next
           H == With(G, Fat, Table(Stretched(F, n, c)))
<1>1. Links(Stretched(F, n, c)) /\ Table(Stretched(F, n, c)).next = Stretched(F, n, c)
  BY StretchedLinks DEF Table
<1>2. SectorTyped(Fat, Table(Stretched(F, n, c)))
  BY <1>1, Sectors DEF SectorTyped
<1>3. DiskTyped(H) /\ H[Fat].next = Stretched(F, n, c) /\ \A k \in 1 .. Root : H[Dir(k)] = G[Dir(k)]
  BY <1>1, <1>2, Writing, Sectors
<1> HIDE DEF H, F
<1>4. RecordedTaken(Stretched(F, n, c), kp)
  BY TakenStretched DEF Coherent, F
<1>5. ASSUME NEW k \in 1 .. Root, G[Dir(k)].kind = "file"
      PROVE  EntryFits(Stretched(F, n, c), kp, G[Dir(k)].clust, G[Dir(k)].size)
  BY <1>5, FitsStretched DEF Coherent, F
<1>6. Coherent(H, kp)
  BY <1>3, <1>4, <1>5 DEF Coherent, DirOrdered
<1> QED BY <1>3, <1>6 DEF H, F

\* The first entry is written.
LEMMA CoherentEntry ==
  ASSUME NEW G, DiskTyped(G), NEW kp, Coherent(G, kp), NEW k \in 1 .. Root,
         G[Dir(k)].kind # "blank", \A j \in 1 .. Root : j < k => G[Dir(j)].kind = "blank",
         NEW e, EntryTyped(e), e.kind = "file", EntryFits(G[Fat].next, kp, e.clust, e.size)
  PROVE  /\ DiskTyped(With(G, Dir(k), e))
         /\ Coherent(With(G, Dir(k), e), kp)
<1> DEFINE H == With(G, Dir(k), e)
<1>1. SectorTyped(Dir(k), e)
  BY Sectors DEF SectorTyped
<1>2. /\ DiskTyped(H) /\ H[Dir(k)] = e /\ H[Fat] = G[Fat]
      /\ \A m \in 1 .. Root : m # k => H[Dir(m)] = G[Dir(m)]
  BY <1>1, Writing, Sectors
<1> HIDE DEF H
<1>3. DirOrdered(H)
  <2>1. ASSUME NEW m \in 1 .. Root, m > k PROVE G[Dir(m)].kind # "file"
    BY <2>1 DEF Coherent, DirOrdered
  <2>2. SUFFICES ASSUME NEW m \in 1 .. Root, H[Dir(m)].kind = "file", NEW j \in 1 .. Root, j < m
        PROVE  H[Dir(j)].kind = "blank"
    BY DEF DirOrdered
  <2>3. CASE m = k
    BY <1>2, <2>2, <2>3
  <2>4. CASE m # k
    <3>1. ~ (m > k) /\ H[Dir(m)] = G[Dir(m)]
      BY <1>2, <2>1, <2>2, <2>4
    <3>2. j # k
      BY <2>2, <2>4, <3>1
    <3> QED BY <1>2, <2>2, <3>1, <3>2 DEF Coherent, DirOrdered
  <2> QED BY <2>3, <2>4
<1>4. Coherent(H, kp)
  BY <1>2, <1>3 DEF Coherent
<1> QED BY <1>2, <1>4 DEF H

\* When there is a file, the entries before it are not valid.
LEMMA BeforeFile ==
  ASSUME NEW G, DirOrdered(G), NEW k \in 1 .. Root, G[Dir(k)].kind = "file"
  PROVE  /\ \A j \in 1 .. Root : j < k => G[Dir(j)].kind = "blank"
         /\ \A j \in 1 .. Root : G[Dir(j)].kind = "file" => j = k
<1>1. ASSUME NEW j \in 1 .. Root, j < k PROVE G[Dir(j)].kind = "blank"
  BY <1>1 DEF DirOrdered
<1>2. ASSUME NEW j \in 1 .. Root, G[Dir(j)].kind = "file" PROVE j = k
  <2>1. ~ (j < k)
    BY <1>1, <1>2
  <2>2. ~ (k < j)
    BY <1>2 DEF DirOrdered
  <2> QED BY <2>1, <2>2
<1> QED BY <1>1, <1>2

\* Power is lost while a sector is programmed.
LEMMA CoherentCut ==
  ASSUME NEW G, DiskTyped(G), NEW kp, KeptTyped(kp), Coherent(G, kp),
         NEW s \in Sector, NEW r \in Remains(s, G[s])
  PROVE  Coherent(With(G, s, r), kp)
<1> DEFINE H == With(G, s, r)
<1>1. SectorTyped(s, r)
  BY Reading, RemainsTyped
<1>2. /\ H[s] = r
      /\ \A t \in Sector : t # s => H[t] = G[t]
  BY <1>1, Writing
<1> HIDE DEF H
<1>3. CASE s = Fat
  <2>1. Shorn(r.next, G[Fat].next) /\ Links(G[Fat].next)
    BY <1>3, Reading, RemainsOfFat
  <2>2. \A k \in 1 .. Root : H[Dir(k)] = G[Dir(k)]
    BY <1>2, <1>3, Sectors
  <2>3. RecordedTaken(r.next, kp)
    BY <2>1, ClusterNumbers DEF Shorn, RecordedTaken, Coherent
  <2>4. ASSUME NEW k \in 1 .. Root, G[Dir(k)].kind = "file"
        PROVE  EntryFits(r.next, kp, G[Dir(k)].clust, G[Dir(k)].size)
    BY <2>1, <2>4, FitsShorn DEF Coherent
  <2> QED BY <1>2, <1>3, <2>2, <2>3, <2>4 DEF Coherent, DirOrdered, H
<1>4. CASE s \in Dirs
  <2>1. PICK k \in 1 .. Root : s = Dir(k)
    BY <1>4 DEF Dirs
  <2>2. /\ H[Dir(k)] = r /\ H[Fat] = G[Fat]
        /\ \A m \in 1 .. Root : m # k => H[Dir(m)] = G[Dir(m)]
    BY <1>2, <2>1, Sectors
  <2>3. r \in Remains(Dir(k), G[Dir(k)])
    BY <2>1
  <2>4. CASE r = NoEntry
    <3>1. r.kind = "blank"
      BY <2>4 DEF NoEntry, Entry
    <3>2. ASSUME NEW m \in 1 .. Root
          PROVE  (m = k /\ H[Dir(m)].kind = "blank") \/ (m # k /\ H[Dir(m)] = G[Dir(m)])
      <4>1. CASE m = k
        <5>1. H[Dir(m)] = r
          BY <2>2, <4>1
        <5> QED BY <3>1, <4>1, <5>1
      <4>2. CASE m # k
        BY <2>2, <4>2
      <4> QED BY <4>1, <4>2
    <3>3. DirOrdered(H)
      BY <3>2 DEF Coherent, DirOrdered
    <3> QED BY <2>2, <3>2, <3>3 DEF Coherent, H
  <2>5. CASE r = G[Dir(k)]
    <3>1. \A m \in 1 .. Root : H[Dir(m)] = G[Dir(m)]
      BY <2>2, <2>5
    <3> QED BY <2>2, <3>1, CoherentElsewhere DEF H
  <2>6. CASE G[Dir(k)].kind = "file" /\ (r = Entry("file", Eoc, Huge) \/ r = Entry("file", G[Dir(k)].clust, Huge))
    <3>1. r.kind = "file" /\ r.size = Huge /\ r.clust \in {Eoc, G[Dir(k)].clust}
      BY <2>6 DEF Entry
    <3>2. EntryFits(G[Fat].next, kp, G[Dir(k)].clust, G[Dir(k)].size) /\ Links(G[Fat].next)
      BY <2>6, Reading DEF Coherent
    <3>3. EntryFits(G[Fat].next, kp, G[Dir(k)].clust, Huge)
      BY <3>2, FitsHuge
    <3>4. EntryFits(G[Fat].next, kp, Eoc, Huge)
      BY DEF EntryFits
    <3>5. DirOrdered(H)
      <4>1. \A m \in 1 .. Root : H[Dir(m)].kind = G[Dir(m)].kind
        BY <2>2, <2>6, <3>1
      <4> QED BY <4>1 DEF Coherent, DirOrdered
    <3> QED BY <2>2, <3>1, <3>3, <3>4, <3>5 DEF Coherent, H
  <2> QED BY <2>3, <2>4, <2>5, <2>6, RemainsOfDir
<1>5. CASE s # Fat /\ s \notin Dirs
  <2>1. H[Fat] = G[Fat] /\ \A k \in 1 .. Root : H[Dir(k)] = G[Dir(k)]
    BY <1>2, <1>5, Sectors
  <2> QED BY <2>1, CoherentElsewhere DEF H
<1> QED BY <1>3, <1>4, <1>5

-----------------------------------------------------------------------------
(* What is on the disk: the recursive function Chained. *)

\* The entry of the file.
LEMMA RecordedEntry ==
  ASSUME DiskTyped(chip)
  PROVE  /\ EntryTyped(Recorded)
         /\ \A k \in 1 .. Root : chip[Dir(k)].kind # "blank" /\ (\A j \in 1 .. Root : j < k => chip[Dir(j)].kind = "blank")
              => Recorded = chip[Dir(k)]
         /\ Recorded.kind # "blank"
         /\ Recorded = EndOfTable \/ \E k \in 1 .. Root : Recorded = chip[Dir(k)] /\ chip[Dir(k)].kind # "blank"
<1>1. OnDisk \in SUBSET Nat /\ OnDisk \in SUBSET (1 .. Root)
  BY FatFsAssumption DEF OnDisk
<1>2. \A k \in 1 .. Root : EntryTyped(chip[Dir(k)])
  BY Reading
<1>3. EntryTyped(EndOfTable) /\ EndOfTable.kind # "blank"
  BY ClusterNumbers DEF EntryTyped, EndOfTable, Entry
<1>4. CASE OnDisk = {}
  <2>1. Recorded = EndOfTable
    BY <1>4 DEF Recorded
  <2> QED BY <1>3, <1>4, <2>1 DEF OnDisk
<1>5. CASE OnDisk # {}
  <2> DEFINE f == CHOOSE k \in OnDisk : \A j \in OnDisk : k <= j
  <2>1. \E k \in OnDisk : \A j \in OnDisk : k <= j
    BY <1>1, <1>5, LeastNumber
  <2>2. f \in OnDisk /\ \A j \in OnDisk : f <= j
    <3> HIDE DEF f
    <3>1. f = CHOOSE k \in OnDisk : \A j \in OnDisk : k <= j
      BY DEF f
    <3> QED BY <2>1, <3>1
  <2>3. Recorded = chip[Dir(f)]
    BY <1>5 DEF Recorded
  <2> HIDE DEF f
  <2>4. f \in 1 .. Root /\ chip[Dir(f)].kind # "blank"
    BY <2>2 DEF OnDisk
  <2>5. ASSUME NEW k \in 1 .. Root, chip[Dir(k)].kind # "blank",
               \A j \in 1 .. Root : j < k => chip[Dir(j)].kind = "blank"
        PROVE  k = f
    <3>1. k \in OnDisk
      BY <2>5 DEF OnDisk
    <3>2. f <= k
      BY <2>2, <3>1
    <3>3. ~ (f < k)
      BY <2>4, <2>5
    <3> QED BY <2>4, <3>2, <3>3
  <2> QED BY <1>2, <2>3, <2>4, <2>5
<1> QED BY <1>4, <1>5

\* The first m entries of Chained.
Walk(f, m, a, next) ==
  f = [n \in 0 .. m |-> IF n = 0 THEN a ELSE next[f[n - 1]]]

\* Any number of entries can be followed.
LEMMA WalkExists ==
  ASSUME NEW a, NEW next, NEW m \in Nat
  PROVE  \E f : Walk(f, m, a, next)
<1> DEFINE Bad == {n \in Nat : ~ \E f : Walk(f, n, a, next)}
<1>1. SUFFICES ASSUME Bad # {} PROVE FALSE
  OBVIOUS
<1>2. PICK n \in Bad : \A k \in Bad : n <= k
  <2> HIDE DEF Bad
  <2>1. Bad \in SUBSET Nat
    BY DEF Bad
  <2> QED BY <1>1, <2>1, LeastNumber
<1>3. n # 0
  <2>1. SUFFICES ASSUME n = 0 PROVE \E f : Walk(f, 0, a, next)
    BY <1>2
  <2> DEFINE f == [i \in 0 .. 0 |-> a]
  <2>2. f = [i \in 0 .. 0 |-> IF i = 0 THEN a ELSE next[f[i - 1]]]
    OBVIOUS
  <2> HIDE DEF f
  <2> QED BY <2>2 DEF Walk
<1>4. PICK p \in Nat : n = p + 1
  <2>1. n - 1 \in Nat /\ n = (n - 1) + 1
    BY <1>2, <1>3
  <2> QED BY <2>1
<1>5. p \notin Bad
  <2> HIDE DEF Bad
  <2> QED BY <1>2, <1>4
<1>6. PICK f : Walk(f, p, a, next)
  BY <1>5
<1> DEFINE g == [i \in 0 .. p + 1 |-> IF i = p + 1 THEN next[f[p]] ELSE f[i]]
<1>7. f = [i \in 0 .. p |-> IF i = 0 THEN a ELSE next[f[i - 1]]]
  BY <1>6 DEF Walk
<1>8. ASSUME NEW i \in 0 .. p + 1 PROVE g[i] = IF i = 0 THEN a ELSE next[g[i - 1]]
  <2>1. CASE i = p + 1
    <3>1. g[i] = next[f[p]] /\ i # 0 /\ i - 1 = p /\ p \in 0 .. p + 1 /\ p # p + 1
      BY <2>1
    <3>2. g[p] = f[p]
      BY <3>1
    <3> QED BY <3>1, <3>2
  <2>2. CASE i # p + 1
    <3>1. i \in 0 .. p /\ g[i] = f[i]
      BY <2>2
    <3>2. i # 0 => i - 1 \in 0 .. p + 1 /\ i - 1 # p + 1 /\ g[i - 1] = f[i - 1]
      BY <3>1
    <3>3. f[i] = IF i = 0 THEN a ELSE next[f[i - 1]]
      BY <1>7, <3>1
    <3> QED BY <3>1, <3>2, <3>3
  <2> QED BY <2>1, <2>2
<1>9. g = [i \in 0 .. p + 1 |-> g[i]]
  OBVIOUS
<1> HIDE DEF g
<1>10. g = [i \in 0 .. p + 1 |-> IF i = 0 THEN a ELSE next[g[i - 1]]]
  BY <1>8, <1>9
<1>11. Walk(g, n, a, next)
  BY <1>4, <1>10 DEF Walk
<1> QED BY <1>2, <1>11

\* Chained is defined for every index.
LEMMA ChainedWalk ==
  /\ Chained[0] = Recorded.clust
  /\ \A n \in 1 .. LastCluster : Chained[n] = After[Chained[n - 1]]
<1>1. LastCluster \in Nat
  BY ClusterNumbers
<1>2. PICK f : Walk(f, LastCluster, Recorded.clust, After)
  BY <1>1, WalkExists
<1>3. f = [n \in 0 .. LastCluster |-> IF n = 0 THEN Recorded.clust ELSE After[f[n - 1]]]
  BY <1>2 DEF Walk
<1>4. Chained = [n \in 0 .. LastCluster |-> IF n = 0 THEN Recorded.clust ELSE After[Chained[n - 1]]]
  <2>1. Chained = CHOOSE g : g = [n \in 0 .. LastCluster |-> IF n = 0 THEN Recorded.clust ELSE After[g[n - 1]]]
    BY DEF Chained
  <2> QED BY <1>3, <2>1
<1> HIDE DEF Chained
<1> QED BY <1>1, <1>4

\* Chained follows the links of the FAT from the start of the entry.
LEMMA ChainedLeads ==
  ASSUME DiskTyped(chip), NEW n \in 0 .. LastCluster
  PROVE  /\ Chained[n] \in Link
         /\ \A c \in Cluster : Chained[n] = c <=> Leads(chip[Fat].next, Recorded.clust, n, c)
<1> DEFINE F == chip[Fat].next
           a == Recorded.clust
           Right(m) == /\ Chained[m] \in Link
                       /\ \A c \in Cluster : Chained[m] = c <=> Leads(F, a, m, c)
           Wrong == {m \in 0 .. LastCluster : ~ Right(m)}
<1>1. SUFFICES ASSUME Wrong # {} PROVE FALSE
  OBVIOUS
<1>2. PICK m \in Wrong : \A k \in Wrong : m <= k
  <2> HIDE DEF Wrong
  <2>1. Wrong \in SUBSET Nat
    BY ClusterNumbers DEF Wrong
  <2> QED BY <1>1, <2>1, LeastNumber
<1>3. m \in 0 .. LastCluster /\ ~ Right(m)
  BY <1>2
<1>4. a \in Link
  BY RecordedEntry DEF EntryTyped
<1>5. F \in [Cluster -> Link]
  BY Reading
<1>6. \A d \in Cluster : After[d] = F[d]
  BY DEF After
<1>7. After[0] = Eoc /\ After[Eoc] = Eoc
  BY ClusterNumbers DEF After
<1> HIDE DEF F, a
<1>8. m # 0
  <2>1. Chained[0] = a
    BY ChainedWalk DEF a
  <2>2. Right(0)
    BY <1>4, <2>1, LeadsZero
  <2> QED BY <1>3, <2>2
<1>9. PICK p \in Nat : m = p + 1 /\ p \in 0 .. LastCluster
  <2>1. m - 1 \in Nat /\ m = (m - 1) + 1 /\ m - 1 \in 0 .. LastCluster
    BY <1>3, <1>8, ClusterNumbers
  <2> QED BY <2>1
<1>10. Right(p)
  <2>1. p \notin Wrong
    <3> HIDE DEF Wrong
    <3> QED BY <1>2, <1>9, <1>3
  <2> QED BY <1>9, <2>1
<1>11. Chained[p + 1] = After[Chained[p]]
  <2>1. m \in 1 .. LastCluster /\ m - 1 = p
    BY <1>3, <1>9
  <2>2. Chained[m] = After[Chained[m - 1]]
    BY <2>1, ChainedWalk
  <2> QED BY <1>9, <2>1, <2>2
<1>12. ASSUME NEW c \in Cluster, Leads(F, a, p + 1, c) PROVE Chained[p + 1] = c
  <2>1. PICK d \in Cluster : Leads(F, a, p, d) /\ F[d] = c
    BY <1>12, LeadsPrevious
  <2>2. Chained[p] = d
    BY <1>10, <2>1
  <2> QED BY <1>6, <1>11, <2>1, <2>2
<1>13. ASSUME NEW c \in Cluster, Chained[p + 1] = c PROVE Leads(F, a, p + 1, c)
  <2>1. Chained[p] \in Cluster
    <3>1. Chained[p] = 0 \/ Chained[p] = Eoc \/ Chained[p] \in Cluster
      BY <1>10, ClusterNumbers
    <3>2. c # Eoc
      BY ClusterNumbers
    <3> QED BY <1>7, <1>11, <1>13, <3>1, <3>2
  <2>2. Leads(F, a, p, Chained[p])
    BY <1>10, <2>1
  <2>3. F[Chained[p]] = c
    BY <1>6, <1>11, <1>13, <2>1
  <2> QED BY <2>2, <2>3, LeadsNext
<1>14. Chained[p + 1] \in Link
  <2>1. Chained[p] = 0 \/ Chained[p] = Eoc \/ Chained[p] \in Cluster
    BY <1>10, ClusterNumbers
  <2> QED BY <1>5, <1>6, <1>7, <1>11, <2>1, ClusterNumbers
<1>15. Right(p + 1)
  BY <1>12, <1>13, <1>14
<1> HIDE DEF Right
<1> QED BY <1>3, <1>9, <1>15

\* A cluster of a chain is not free.
LEMMA LeadsTaken ==
  ASSUME NEW F, Links(F), NEW a, Heads(F, a), NEW n \in Nat, NEW c, Leads(F, a, n, c)
  PROVE  F[c] # Free
<1>1. CASE n = 0
  BY <1>1, LeadsZero DEF Heads
<1>2. CASE n # 0
  <2>1. PICK p \in Nat : n = p + 1
    <3>1. n - 1 \in Nat /\ n = (n - 1) + 1
      BY <1>2
    <3> QED BY <3>1
  <2>2. PICK d \in Cluster : F[d] = c
    BY <2>1, LeadsPrevious
  <2>3. c \in Cluster
    BY LeadsCluster
  <2> QED BY <2>2, <2>3 DEF Links
<1> QED BY <1>1, <1>2

\* How much of a cluster that n links lead to belongs to a file of z bytes.
Clip(n, z) == IF z <= Upto(n, 0) THEN 0 ELSE Shorter(SectorSize, z - Upto(n, 0))

\* The bytes of a cluster in the file end where the file does.
LEMMA ClipBounds ==
  ASSUME NEW n \in Nat, NEW z \in Nat
  PROVE  /\ Clip(n, z) \in 0 .. SectorSize
         /\ Clip(n, z) > 0 => Upto(n, Clip(n, z)) <= z
         /\ \A i \in 1 .. SectorSize : i <= Clip(n, z) <=> Upto(n, i) <= z
<1>1. PICK p \in Nat : Upto(n, 0) = p /\ \A i \in Nat : Upto(n, i) = p + i
  <2>1. Upto(n, 0) \in Nat
    BY UptoNumber
  <2>2. \A i \in Nat : Upto(n, i) = Upto(n, 0) + i
    BY UptoNumber
  <2> HIDE DEF Upto
  <2> QED BY <2>1, <2>2
<1>2. SectorSize \in Nat
  BY ClusterNumbers
<1>3. Clip(n, z) \in 0 .. SectorSize /\ Clip(n, z) \in Nat /\ Clip(n, z) = IF z <= p THEN 0 ELSE IF SectorSize < z - p THEN SectorSize ELSE z - p
  BY <1>1, <1>2 DEF Clip, Shorter
<1>4. \A i \in 1 .. SectorSize : i \in Nat /\ Upto(n, i) = p + i
  BY <1>1, <1>2
<1>5. Upto(n, Clip(n, z)) = p + Clip(n, z)
  BY <1>1, <1>3
<1> QED BY <1>2, <1>3, <1>4, <1>5

\* The place of a cluster of the file, and its bytes that belong to it.
LEMMA InFileLeads ==
  ASSUME DiskTyped(chip), Heads(chip[Fat].next, Recorded.clust),
         NEW c \in Cluster, NEW n \in Nat, Leads(chip[Fat].next, Recorded.clust, n, c)
  PROVE  Place(c) = {n} /\ n \in 0 .. LastCluster /\ InFile(c) = Clip(n, Recorded.size)
<1>1. Links(chip[Fat].next)
  BY Reading
<1>2. n \in 0 .. LastCluster
  BY <1>1, LeadsShort, ClusterNumbers
<1>3. \A m \in 0 .. LastCluster : Chained[m] = c <=> m = n
  BY <1>1, <1>2, ChainedLeads, LeadsOnce
<1>4. Place(c) = {n}
  BY <1>2, <1>3 DEF Place
<1>5. Min({n}) = n
  BY DEF Min
<1>6. SectorSize * n = Upto(n, 0)
  BY <1>2, ClusterNumbers DEF Upto
<1>7. InFile(c) = Clip(n, Recorded.size)
  BY <1>4, <1>5, <1>6 DEF InFile, Clip
<1> QED BY <1>2, <1>4, <1>7

\* A cluster off the chain holds no bytes of the file.
LEMMA InFileNot ==
  ASSUME DiskTyped(chip), NEW c \in Cluster,
         \A n \in Nat : ~ Leads(chip[Fat].next, Recorded.clust, n, c)
  PROVE  Place(c) = {} /\ InFile(c) = 0
<1>1. \A m \in 0 .. LastCluster : m \in Nat
  BY ClusterNumbers
<1>2. \A m \in 0 .. LastCluster : Chained[m] # c
  BY <1>1, ChainedLeads
<1>3. Place(c) = {}
  BY <1>2 DEF Place
<1> QED BY <1>3 DEF InFile

\* What a close records lies within the file.
LEMMA CoherentKept ==
  ASSUME DiskTyped(chip), KeptTyped(kept), Coherent(chip, kept),
         NEW kp, kp = [c \in Cluster |-> Longest(kept[c], InFile(c))]
  PROVE  KeptTyped(kp) /\ Coherent(chip, kp)
<1> DEFINE F == chip[Fat].next
           a == Recorded.clust
           z == Recorded.size
<1>1. EntryTyped(Recorded) /\ Links(F)
  BY RecordedEntry, Reading
<1>2. ASSUME ~ Heads(F, a), Recorded = EndOfTable \/ a \notin Cluster PROVE kp = kept
  <2>1. a \notin Cluster
    BY <1>2, ClusterNumbers DEF EndOfTable, Entry
  <2>2. \A c \in Cluster : InFile(c) = 0
    <3>1. \A c \in Cluster : \A n \in Nat : ~ Leads(F, a, n, c)
      BY <2>1, LeadsCluster
    <3> QED BY <3>1, InFileNot
  <2>3. kept = [c \in Cluster |-> kept[c]] /\ \A c \in Cluster : kept[c] \in Nat
    BY ClusterNumbers DEF KeptTyped
  <2>4. \A c \in Cluster : Longest(kept[c], InFile(c)) = kept[c]
    BY <2>2, <2>3 DEF Longest
  <2> QED BY <2>3, <2>4
<1>3. CASE Heads(F, a)
  <2>1. PICK k \in 1 .. Root : Recorded = chip[Dir(k)] /\ chip[Dir(k)].kind # "blank"
    <3>1. Recorded # EndOfTable
      BY <1>3, ClusterNumbers DEF EndOfTable, Entry, Heads
    <3> QED BY <3>1, RecordedEntry
  <2>2. chip[Dir(k)].kind = "file"
    <3>1. EntryTyped(chip[Dir(k)]) /\ chip[Dir(k)] # EndOfTable
      BY <1>1, <1>3, <2>1, ClusterNumbers DEF EndOfTable, Entry, Heads
    <3> QED BY <2>1, <3>1 DEF EntryTyped
  <2>3. EntryFits(F, kept, a, z)
    BY <2>1, <2>2 DEF Coherent
  <2>4. z \in Nat /\ z > 0 /\ Bounded(F, kept, a, z) /\ a \in Cluster
    BY <1>3, <2>3, ClusterNumbers DEF EntryFits, Heads
  <2>5. ASSUME NEW c \in Cluster
        PROVE  /\ kp[c] = kept[c] \/ \E n \in Nat : Leads(F, a, n, c) /\ kp[c] = Clip(n, z)
               /\ kp[c] \in 0 .. SectorSize
    <3>1. kept[c] \in 0 .. SectorSize /\ kept[c] \in Nat
      BY ClusterNumbers DEF KeptTyped
    <3>2. CASE \E n \in Nat : Leads(F, a, n, c)
      <4>1. PICK n \in Nat : Leads(F, a, n, c)
        BY <3>2
      <4>2. InFile(c) = Clip(n, z)
        BY <1>3, <4>1, InFileLeads
      <4>3. kp[c] = Longest(kept[c], Clip(n, z))
        BY <4>2
      <4>4. Clip(n, z) \in 0 .. SectorSize
        BY <2>4, ClipBounds
      <4> QED BY <3>1, <4>1, <4>3, <4>4 DEF Longest
    <3>3. CASE \A n \in Nat : ~ Leads(F, a, n, c)
      <4>1. InFile(c) = 0
        BY <3>3, InFileNot
      <4>2. kp[c] = Longest(kept[c], 0)
        BY <4>1
      <4> QED BY <3>1, <4>2 DEF Longest
    <3> QED BY <3>2, <3>3
  <2>6. KeptTyped(kp)
    BY <2>5 DEF KeptTyped
  <2> HIDE DEF F, a, z
  <2>7. RecordedTaken(F, kp)
    <3>1. SUFFICES ASSUME NEW c \in Cluster, kp[c] > 0 PROVE F[c] # Free
      BY DEF RecordedTaken
    <3>2. CASE kp[c] = kept[c]
      BY <3>1, <3>2 DEF Coherent, RecordedTaken, F
    <3>3. CASE \E n \in Nat : Leads(F, a, n, c)
      BY <1>1, <1>3, <3>3, LeadsTaken
    <3> QED BY <2>5, <3>2, <3>3
  <2>8. Bounded(F, kp, a, z)
    <3>1. SUFFICES ASSUME NEW n \in Nat, NEW c \in Cluster, Leads(F, a, n, c), kp[c] > 0
          PROVE  Upto(n, kp[c]) <= z
      BY DEF Bounded
    <3>2. CASE kp[c] = kept[c]
      BY <2>4, <3>1, <3>2 DEF Bounded
    <3>3. ASSUME NEW m \in Nat, Leads(F, a, m, c), kp[c] = Clip(m, z) PROVE Upto(n, kp[c]) <= z
      <4>1. m = n
        BY <1>1, <1>3, <3>1, <3>3, LeadsOnce
      <4> QED BY <2>4, <3>1, <3>3, <4>1, ClipBounds
    <3> QED BY <2>5, <3>2, <3>3
  <2>9. EntryFits(F, kp, a, z)
    BY <1>3, <2>4, <2>8 DEF EntryFits
  <2>10. DirOrdered(chip)
    BY DEF Coherent
  <2>11. \A j \in 1 .. Root : chip[Dir(j)].kind = "file" => j = k
    BY <2>2, <2>10, BeforeFile
  <2> QED BY <2>1, <2>6, <2>7, <2>9, <2>10, <2>11 DEF Coherent, F, a, z
<1>4. CASE ~ Heads(F, a)
  <2>1. CASE Recorded = EndOfTable
    BY <1>2, <1>4, <2>1
  <2>2. CASE Recorded # EndOfTable
    <3>1. PICK k \in 1 .. Root : Recorded = chip[Dir(k)] /\ chip[Dir(k)].kind # "blank"
      BY <2>2, RecordedEntry
    <3>2. chip[Dir(k)].kind = "file"
      BY <1>1, <2>2, <3>1 DEF EntryTyped
    <3>3. EntryFits(F, kept, a, z)
      BY <3>1, <3>2 DEF Coherent
    <3>4. a \notin Cluster
      BY <1>4, <3>3, ClusterNumbers DEF EntryFits
    <3> QED BY <1>2, <1>4, <3>4
  <2> QED BY <2>1, <2>2
<1> QED BY <1>3, <1>4

-----------------------------------------------------------------------------
(* create_chain. *)

\* The search for a free cluster finds one.
LEMMA NextFreeIsFree ==
  ASSUME NEW F, FreeIn(F) # {}, NEW s \in 1 .. LastCluster
  PROVE  NextFree(F, s) \in FreeIn(F)
<1> DEFINE D == {Behind(s, n) : n \in FreeIn(F)}
<1>1. \A n \in FreeIn(F) : Behind(s, n) \in Nat
  <2>1. \A n \in FreeIn(F) : n \in Nat /\ n >= 2 /\ n <= LastCluster
    BY ClusterNumbers DEF FreeIn
  <2>2. s \in Nat /\ s <= LastCluster /\ LastCluster \in Nat
    BY ClusterNumbers
  <2> QED BY <2>1, <2>2 DEF Behind
<1>2. D \in SUBSET Nat /\ D # {}
  BY <1>1
<1>3. PICK d \in D : \A e \in D : d <= e
  <2> HIDE DEF D
  <2> QED BY <1>2, LeastNumber
<1>4. \E n \in FreeIn(F) : \A m \in FreeIn(F) : Behind(s, n) <= Behind(s, m)
  BY <1>3
<1> QED BY <1>4 DEF NextFree

\* What create_chain does behind the end of a chain, or for a new one.
LEMMA AllocatedStretches ==
  ASSUME NEW F, Links(F), FreeIn(F) # {}, NEW recent, NEW c, c = 0 \/ (c \in Cluster /\ F[c] = Eoc),
         NEW r, r = Allocated(F, recent, c)
  PROVE  CanStretch(F, r.clust, c) /\ r.fat = Stretched(F, r.clust, c)
<1> DEFINE n == Chosen(F, recent, c)
           follower == IF c = LastCluster THEN 2 ELSE c + 1
           start == IF recent \in Cluster THEN recent ELSE IF c = 0 THEN 1 ELSE c
<1>1. start \in 1 .. LastCluster
  BY ClusterNumbers
<1>2. NextFree(F, start) \in FreeIn(F)
  BY <1>1, NextFreeIsFree
<1>3. c # 0 => follower \in Cluster
  <2>1. SUFFICES ASSUME c \in Cluster PROVE follower \in Cluster
    BY ClusterNumbers
  <2> QED BY <2>1, FatFsAssumption DEF Cluster
<1>4. n = IF c # 0 /\ F[follower] = Free THEN follower ELSE NextFree(F, start)
  BY DEF Chosen
<1>5. n \in Cluster /\ F[n] = Free
  BY <1>2, <1>3, <1>4 DEF FreeIn
<1>6. r.clust = n /\ r.fat = Stretched(F, n, c)
  BY DEF Allocated, Chain, Stretched
<1> HIDE DEF n
<1> QED BY <1>5, <1>6 DEF CanStretch

\* create_chain finds the disk full, follows the chain, or stretches it.
LEMMA ChainSteps ==
  ASSUME NEW F, Links(F), NEW recent, NEW c, c = 0 \/ (c \in Cluster /\ F[c] # Free),
         NEW r, r = CreateChain(F, recent, c)
  PROVE  \/ r.clust = 0 /\ r.fat = F /\ FreeIn(F) = {} /\ (c # 0 => F[c] = Eoc)
         \/ c # 0 /\ F[c] \in Cluster /\ r.clust = F[c] /\ r.fat = F
         \/ CanStretch(F, r.clust, c) /\ r.fat = Stretched(F, r.clust, c)
<1>1. c # 0 => c \in Cluster /\ F[c] # Free /\ (F[c] = Eoc \/ F[c] \in Cluster)
  BY ClusterNumbers DEF Links
<1>2. CASE c # 0 /\ F[c] \in Cluster
  <2>1. r = Chain(F[c], F, recent)
    BY <1>1, <1>2 DEF CreateChain
  <2> QED BY <1>2, <2>1 DEF Chain
<1>3. CASE c = 0 \/ F[c] = Eoc
  <2>1. ~ (c # 0 /\ F[c] \in Cluster) /\ ~ (c # 0 /\ (c \notin Cluster \/ F[c] = Free))
    BY <1>1, <1>3, ClusterNumbers
  <2>2. CASE FreeIn(F) = {}
    <3>1. r = Chain(0, F, recent)
      BY <2>1, <2>2 DEF CreateChain
    <3> QED BY <1>3, <2>2, <3>1 DEF Chain
  <2>3. CASE FreeIn(F) # {}
    <3>1. r = Allocated(F, recent, c)
      BY <2>1, <2>3 DEF CreateChain
    <3> QED BY <1>1, <1>3, <2>3, <3>1, AllocatedStretches
  <2> QED BY <2>2, <2>3
<1> QED BY <1>1, <1>2, <1>3

\* What is no chain.
LEMMA ChainFails ==
  ASSUME NEW F, NEW recent, NEW c, c # 0, c \notin Cluster \/ F[c] = Free, NEW r, r = CreateChain(F, recent, c)
  PROVE  r.clust = 1 /\ r.fat = F
  BY DEF CreateChain, Chain

-----------------------------------------------------------------------------
(* The invariant. *)

\* The disk when the sector that waits to be written is, and when then the
\* window is written back as well.
Done == IF queue = <<>> THEN chip ELSE With(chip, Head(queue).sect, Head(queue).content)
Ram == IF wflag THEN With(Done, winsect, win) ELSE Done

System == Dirs \cup {Fat}

\* usb_write puts strings, or is about to write what it put.
WritesFile(p, f) == p = "put" \/ (p = "close" /\ f.modified)

FileTyped(f) ==
  /\ f = [dirSect |-> f.dirSect, sclust |-> f.sclust, size |-> f.size, fptr |-> f.fptr,
          clust |-> f.clust, sect |-> f.sect, buf |-> f.buf, dirty |-> f.dirty,
          modified |-> f.modified]
  /\ f.dirSect \in Sector /\ f.sclust \in Link /\ f.clust \in Link /\ f.sect \in Cluster \cup {0}
  /\ f.size \in Nat /\ f.fptr \in Nat
  /\ f.dirty \in BOOLEAN /\ f.modified \in BOOLEAN
  /\ f.dirty => f.sect \in Cluster

SeekTyped(f) ==
  /\ f.dirSect \in Dirs /\ f.size > 0
  /\ ~ f.dirty /\ ~ f.modified /\ f.sect = 0
  /\ f.clust = 0 => f.fptr = 0
  /\ f.clust = Eoc => f.fptr = 0 /\ f.size = Huge
  /\ f.sclust = Eoc => f.size = Huge
  /\ f.clust \in Cluster => f.sclust \in Cluster

PutTyped(f) ==
  /\ f.dirSect \in Dirs
  /\ f.clust # Eoc /\ f.sclust # Eoc
  /\ f.clust = 0 <=> f.fptr = 0

Typed ==
  /\ DiskTyped(chip) /\ DiskTyped(Done) /\ DiskTyped(Ram)
  /\ queue # <<>> => Head(queue).sect \in Sector
  /\ erased \in BOOLEAN /\ mounted \in BOOLEAN /\ wflag \in BOOLEAN /\ formatting \in BOOLEAN
  /\ erased => queue # <<>>
  /\ winsect \in Sector
  /\ FileTyped(file)
  /\ pc = "seek" => SeekTyped(file)
  /\ WritesFile(pc, file) => PutTyped(file)
  /\ left \in Seq(Seq(STRING) \ {<<>>})
  /\ KeptTyped(kept) /\ early \in Nat

\* The window holds its sector, with the changes that are not written.
Windowed ==
  /\ wflag => mounted /\ winsect \in System
  /\ mounted /\ winsect \in System => win = Ram[winsect]

\* A change of the window that usb_write would leave behind goes with a
\* cluster it has taken.
Fruitful == file.clust \in Cluster /\ Ram[Fat].next[file.clust] # Free

Phased ==
  /\ pc \in {"idle", "open", "seek", "put", "close", "closed", "format"}
  /\ pc # "format" => queue = <<>> \/ queue = <<Write(Head(queue).sect, Head(queue).content)>>
  /\ pc \in {"idle", "open"} => queue = <<>>
  /\ pc \in {"open", "seek", "put", "close", "closed"} => mounted
  /\ pc \in {"idle", "open", "closed", "format"} => ~ wflag
  /\ pc = "seek" => left # <<>> /\ (wflag => Fruitful)
  /\ pc = "put" => (wflag /\ ~ file.modified => left # <<>> /\ Fruitful)
  /\ pc = "close" => (wflag => file.modified)

\* f_mkfs.
Fresh(s) == IF s = Fat THEN EmptyFat ELSE IF s \in Dirs THEN EndOfTable ELSE "valid"
FreshSectors == {Mbr, Vbr} \cup System
FreshWrites == {Write(s, Fresh(s)) : s \in FreshSectors}
Formatted ==
  pc = "format" =>
    /\ formatting /\ ~ mounted
    /\ \A c \in Cluster : kept[c] = 0
    /\ queue \in Seq(FreshWrites)
    /\ \A s \in FreshSectors : chip[s] = Fresh(s) \/ \E i \in 1 .. Len(queue) : queue[i].sect = s

\* f_lseek: n links from the start of the file.
SeekAt(G, f, kp) ==
  /\ \E k \in 1 .. Root : /\ f.dirSect = Dir(k) /\ G[Dir(k)].kind = "file"
                          /\ G[Dir(k)].size = f.size
                          /\ f.clust = 0 => f.sclust = G[Dir(k)].clust
  /\ f.clust \in Cluster =>
       /\ EntryFits(G[Fat].next, kp, f.sclust, f.size)
       /\ \E n \in Nat : f.fptr = Upto(n, 0) /\ f.fptr < f.size /\ Leads(G[Fat].next, f.sclust, n, f.clust)

\* The file is at its end, with the last sector in the buffer unless it is
\* full; or the disk was full before f_lseek got there.
AtEnd(F, f) ==
  /\ f.fptr = f.size
  /\ \/ f.size = 0 /\ f.clust = 0 /\ f.sclust = 0 /\ f.sect = 0
     \/ \E n \in Nat, r \in 1 .. SectorSize :
          /\ f.fptr = Upto(n, r) /\ Leads(F, f.sclust, n, f.clust)
          /\ r < SectorSize => f.sect = f.clust
NoRoom(F, f) ==
  /\ FreeIn(F) = {} /\ f.sect = 0
  /\ \/ f.fptr = 0 /\ f.clust = 0 /\ f.sclust = 0
     \/ f.clust \in Cluster /\ F[f.clust] = Eoc /\ \E n \in Nat : f.fptr = Upto(n + 1, 0)

\* The buffer has the recorded bytes of its sector.
Buffered(G, f, kp) ==
  f.sect # 0 => /\ f.sect = f.clust
                /\ \A i \in 1 .. kp[f.sect] : f.buf[i] = G[Data(f.sect)][i]
                /\ ~ f.dirty => f.buf = G[Data(f.sect)]

PutAt(G, f, kp) ==
  /\ \E k \in 1 .. Root : f.dirSect = Dir(k) /\ G[Dir(k)].kind = "file"
  /\ EntryFits(G[Fat].next, kp, f.sclust, f.size)
  /\ AtEnd(G[Fat].next, f) \/ NoRoom(G[Fat].next, f)
  /\ Buffered(G, f, kp)

\* The structure of the volume, on the disk and in what is to be written.
Coherence ==
  ~ formatting =>
    /\ ~ erased => Coherent(chip, kept)
    /\ Coherent(Done, kept)
    /\ Coherent(Ram, kept)
    /\ pc = "seek" => SeekAt(Ram, file, kept)
    /\ WritesFile(pc, file) => PutAt(Ram, file, kept)

FatInv ==
  Typed /\ Windowed /\ Phased /\ Formatted /\ Coherence /\ TextNotOverwritten

\* f_mkfs writes content of each sector's kind.
LEMMA FreshTyped ==
  /\ \A s \in FreshSectors : s \in Sector /\ SectorTyped(s, Fresh(s))
  /\ Links([c \in Cluster |-> Free])
<1>1. Links([c \in Cluster |-> Free])
  BY ClusterNumbers DEF Links
<1>2. SectorTyped(Fat, EmptyFat)
  BY <1>1, Sectors DEF SectorTyped, EmptyFat, Table
<1>3. EntryTyped(EndOfTable)
  BY ClusterNumbers DEF EntryTyped, EndOfTable, Entry
<1>4. ASSUME NEW s \in FreshSectors PROVE s \in Sector /\ SectorTyped(s, Fresh(s))
  <2>1. CASE s = Fat
    BY <1>2, <2>1, Sectors DEF Fresh
  <2>2. CASE s \in Dirs
    BY <1>3, <2>2, Sectors DEF Fresh, SectorTyped, Dirs
  <2>3. CASE s \in {Mbr, Vbr}
    BY <2>3, Sectors DEF SectorTyped
  <2> QED BY <2>1, <2>2, <2>3 DEF FreshSectors, System
<1> QED BY <1>1, <1>4

\* A chip that was never written.
LEMMA FatInvInit == FatInit => FatInv
<1> SUFFICES ASSUME FatInit PROVE FatInv
  OBVIOUS
<1>1. chip = [s \in Sector |-> Wiped(s)] /\ Done = chip /\ Ram = chip
  BY DEF FatInit, Done, Ram
<1>2. DiskTyped(chip)
  BY <1>1, WipedValues DEF DiskTyped
<1>3. FileTyped(NoFile)
  BY Sectors, ClusterNumbers DEF FileTyped, NoFile
<1>4. KeptTyped(kept)
  BY ClusterNumbers DEF FatInit, KeptTyped
<1>5. Typed
  <2>1. left \in Seq(Seq(STRING) \ {<<>>})
    BY DEF FatInit
  <2>2. pc = "idle" /\ queue = <<>> /\ winsect \in Sector /\ early \in Nat
    BY Sectors DEF FatInit
  <2>3. FileTyped(file)
    BY <1>3 DEF FatInit
  <2>4. erased = FALSE /\ mounted = FALSE /\ wflag = FALSE /\ formatting = TRUE
    BY DEF FatInit
  <2> QED BY <1>1, <1>2, <1>4, <2>1, <2>2, <2>3, <2>4 DEF Typed, WritesFile
<1>6. Windowed
  BY DEF FatInit, Windowed
<1>7. Phased /\ Formatted
  BY DEF FatInit, Phased, Formatted
<1>8. Coherence /\ TextNotOverwritten
  BY DEF FatInit, Coherence, TextNotOverwritten
<1> QED BY <1>5, <1>6, <1>7, <1>8 DEF FatInv

-----------------------------------------------------------------------------
(* The steps of the disk, and of power. *)

\* Steps that change nothing but what is written already.
LEMMA CoherenceKept ==
  ASSUME FatInv, Ram' = Ram, UNCHANGED <<file, kept, pc, formatting>>,
         ~ formatting => (~ erased' => Coherent(chip', kept)) /\ Coherent(Done', kept)
  PROVE  Coherence'
<1>1. Coherence
  BY DEF FatInv
<1>2. SUFFICES ASSUME ~ formatting PROVE
        /\ ~ erased' => Coherent(chip', kept')
        /\ Coherent(Done', kept')
        /\ Coherent(Ram', kept')
        /\ pc' = "seek" => SeekAt(Ram', file', kept')
        /\ WritesFile(pc', file') => PutAt(Ram', file', kept')
  BY DEF Coherence
<1> QED BY <1>1, <1>2 DEF Coherence

\* What the program is about to do, when only the queue moves on.
LEMMA PhasedKept ==
  ASSUME FatInv, Ram' = Ram, UNCHANGED <<file, pc, left, mounted>>, wflag' => wflag,
         pc # "format" => queue' = <<>> \/ queue' = <<Write(Head(queue').sect, Head(queue').content)>>,
         pc \in {"idle", "open"} => queue' = <<>>
  PROVE  Phased'
<1>1. Phased
  BY DEF FatInv
<1>2. Fruitful => Fruitful'
  BY DEF Fruitful
<1> QED BY <1>1, <1>2 DEF Phased

\* The sector that waits is typed.
LEMMA HeadTyped ==
  ASSUME Typed, queue # <<>>
  PROVE  /\ Head(queue).sect \in Sector
         /\ Done = With(chip, Head(queue).sect, Head(queue).content)
         /\ SectorTyped(Head(queue).sect, Head(queue).content)
         /\ Done[Head(queue).sect] = Head(queue).content
         /\ \A s \in Sector : s # Head(queue).sect => Done[s] = chip[s]
<1> DEFINE s == Head(queue).sect
           d == Head(queue).content
<1>1. s \in Sector /\ DiskTyped(chip) /\ DiskTyped(Done) /\ Done = With(chip, s, d)
  BY DEF Typed, Done
<1> HIDE DEF s, d
<1>2. chip = [t \in Sector |-> chip[t]]
  BY <1>1 DEF DiskTyped
<1>3. Done[s] = d /\ \A t \in Sector : t # s => Done[t] = chip[t]
  BY <1>1, <1>2 DEF With
<1>4. SectorTyped(s, d)
  BY <1>1, <1>3 DEF DiskTyped
<1> QED BY <1>1, <1>3, <1>4 DEF s, d

\* disk_write: the sector is erased.
LEMMA EraseSectorStep == ASSUME FatInv, Erase PROVE FatInv'
<1> DEFINE s == Head(queue).sect
           d == Head(queue).content
<1>1. /\ Typed /\ Windowed /\ Phased /\ Formatted /\ Coherence
  BY DEF FatInv
<1>2. /\ queue # <<>> /\ ~ erased /\ chip' = With(chip, s, Wiped(s)) /\ erased' = TRUE
      /\ UNCHANGED <<queue, pc, mounted, last, winsect, win, wflag, file, left, formatting, kept, early>>
  BY DEF Erase, With, fs, memory
<1>3. s \in Sector /\ Done = With(chip, s, d)
  BY <1>1, <1>2, HeadTyped
<1>4. Done' = With(chip', s, d)
  BY <1>2 DEF Done
<1> HIDE DEF s, d
<1>5. DiskTyped(chip') /\ chip'[s] = Wiped(s) /\ \A t \in Sector : t # s => chip'[t] = chip[t]
  BY SMTT(40), <1>1, <1>2, <1>3, Writing, WipedValues DEF Typed
<1>6. Done' = Done
  BY <1>1, <1>2, <1>3, <1>4, WritingTwice DEF Typed
<1>7. Ram' = Ram
  BY <1>2, <1>6 DEF Ram
<1>8. Typed'
  BY <1>1, <1>2, <1>5, <1>6, <1>7 DEF Typed
<1>9. Windowed'
  BY <1>1, <1>2, <1>7 DEF Windowed
<1>10. Phased'
  BY <1>1, <1>2, <1>7, PhasedKept DEF Phased
<1>11. Coherence'
  BY <1>1, <1>2, <1>6, <1>7, CoherenceKept DEF Coherence
<1>12. Formatted'
  <2>1. SUFFICES ASSUME pc = "format", NEW t \in FreshSectors
        PROVE  chip'[t] = Fresh(t) \/ \E i \in 1 .. Len(queue) : queue[i].sect = t
    BY <1>1, <1>2 DEF Formatted
  <2>2. CASE t = s
    <3>1. queue \in Seq(FreshWrites)
      BY <1>1, <2>1 DEF Formatted
    <3>2. 1 \in 1 .. Len(queue) /\ queue[1].sect = s
      BY <1>2, <3>1 DEF s
    <3> QED BY <2>2, <3>2
  <2>3. CASE t # s
    <3>1. chip'[t] = chip[t]
      BY <1>5, <2>3, FreshTyped
    <3> QED BY <1>1, <2>1, <3>1 DEF Formatted
  <2> QED BY <2>2, <2>3
<1>13. TextNotOverwritten'
  BY <1>2 DEF TextNotOverwritten
<1> QED BY <1>8, <1>9, <1>10, <1>11, <1>12, <1>13 DEF FatInv

\* disk_write: the sector is programmed.
LEMMA ProgramStep == ASSUME FatInv, Program PROVE FatInv'
<1> DEFINE s == Head(queue).sect
           d == Head(queue).content
<1>1. /\ Typed /\ Windowed /\ Phased /\ Formatted /\ Coherence
  BY DEF FatInv
<1>2. /\ queue # <<>> /\ chip' = With(chip, s, d) /\ erased' = FALSE /\ queue' = Tail(queue)
      /\ UNCHANGED <<pc, mounted, last, winsect, win, wflag, file, left, formatting, kept, early>>
  BY DEF Program, With, fs, memory
<1>3. chip' = Done /\ s \in Sector /\ SectorTyped(s, d) /\ Done[s] = d /\ \A t \in Sector : t # s => Done[t] = chip[t]
  BY <1>1, <1>2, HeadTyped
<1>4. CASE pc # "format"
  <2>1. queue' = <<>>
    <3>1. queue = <<Write(s, d)>>
      BY <1>1, <1>2, <1>4 DEF Phased
    <3> HIDE DEF s, d
    <3> QED BY <1>2, <3>1
  <2>2. Done' = Done
    BY <1>3, <2>1 DEF Done
  <2>3. Ram' = Ram
    BY <1>2, <2>2 DEF Ram
  <2> HIDE DEF s, d
  <2>4. Typed'
    BY <1>1, <1>2, <1>3, <2>1, <2>2, <2>3 DEF Typed
  <2>5. Windowed'
    BY <1>1, <1>2, <2>3 DEF Windowed
  <2>6. Phased'
    BY <1>1, <1>2, <2>1, <2>3, PhasedKept DEF Phased
  <2>7. Coherence'
    BY <1>1, <1>2, <1>3, <2>2, <2>3, CoherenceKept DEF Coherence
  <2>8. Formatted'
    BY <1>2, <1>4 DEF Formatted
  <2>9. TextNotOverwritten'
    BY <2>1 DEF TextNotOverwritten
  <2> QED BY <2>4, <2>5, <2>6, <2>7, <2>8, <2>9 DEF FatInv
<1>5. CASE pc = "format"
  <2>1. /\ formatting /\ ~ mounted /\ ~ wflag /\ queue \in Seq(FreshWrites)
        /\ \A c \in Cluster : kept[c] = 0
        /\ \A t \in FreshSectors : chip[t] = Fresh(t) \/ \E i \in 1 .. Len(queue) : queue[i].sect = t
    BY <1>1, <1>5 DEF Formatted, Phased
  <2>2. queue' \in Seq(FreshWrites) /\ Head(queue) \in FreshWrites
    BY <1>2, <2>1
  <2>3. \A w \in FreshWrites : w.sect \in FreshSectors /\ w.content = Fresh(w.sect) /\ w.sect \in Sector /\ SectorTyped(w.sect, w.content)
    BY FreshTyped DEF FreshWrites, Write
  <2>4. queue' # <<>> => Head(queue') \in FreshWrites
    BY <2>2
  <2>5. DiskTyped(chip')
    BY <1>1, <1>3 DEF Typed
  <2>6. queue' # <<>> => Head(queue').sect \in Sector /\ SectorTyped(Head(queue').sect, Head(queue').content)
    BY <2>3, <2>4
  <2>7. Done' = IF queue' = <<>> THEN chip' ELSE With(chip', Head(queue').sect, Head(queue').content)
    BY DEF Done
  <2>8. DiskTyped(Done')
    BY <2>5, <2>6, <2>7, Writing
  <2>9. Ram' = Done'
    BY <1>2, <2>1 DEF Ram
  <2>10. Typed'
    <3> HIDE DEF s, d
    <3> QED BY <1>1, <1>2, <2>5, <2>6, <2>8, <2>9 DEF Typed
  <2>11. Windowed'
    BY <1>2, <2>1 DEF Windowed
  <2>12. Phased'
    BY <1>2, <1>5, <2>1 DEF Phased
  <2>13. Coherence' /\ TextNotOverwritten'
    BY <1>2, <2>1 DEF Coherence, TextNotOverwritten
  <2>14. Formatted'
    <3>1. SUFFICES ASSUME NEW t \in FreshSectors
          PROVE  chip'[t] = Fresh(t) \/ \E i \in 1 .. Len(queue') : queue'[i].sect = t
      BY <1>2, <2>1, <2>2 DEF Formatted
    <3>2. CASE t = s
      <4>1. d = Fresh(s)
        BY <2>2, <2>3
      <4> QED BY <1>3, <3>2, <4>1
    <3>3. CASE t # s
      <4>1. chip'[t] = chip[t]
        BY <1>3, <3>3, FreshTyped
      <4>2. CASE \E i \in 1 .. Len(queue) : queue[i].sect = t
        <5>1. PICK i \in 1 .. Len(queue) : queue[i].sect = t
          BY <4>2
        <5>2. i # 1
          BY <1>2, <2>1, <3>3, <5>1
        <5>3. i - 1 \in 1 .. Len(queue') /\ queue'[i - 1] = queue[i]
          BY <1>2, <2>1, <5>1, <5>2
        <5> QED BY <5>1, <5>3
      <4> QED BY <2>1, <4>1, <4>2
    <3> QED BY <3>2, <3>3
  <2> QED BY <2>10, <2>11, <2>12, <2>13, <2>14 DEF FatInv
<1> QED BY <1>4, <1>5

\* What the loss of power leaves in RAM is what the start-up makes of it.
LEMMA OutageStep == ASSUME FatInv, Outage PROVE FatInv'
<1> DEFINE s == Head(queue).sect
           d == Head(queue).content
<1>1. /\ Typed /\ Coherence
  BY DEF FatInv
<1>2. /\ queue' = <<>> /\ erased' = FALSE /\ pc' = "idle" /\ mounted' = FALSE
      /\ winsect' = Mbr /\ wflag' = FALSE /\ file' = NoFile /\ left' = <<>>
      /\ early' = EarlyNow /\ UNCHANGED <<formatting, kept>>
      /\ (chip' = chip /\ ~ erased) \/ (erased /\ \E r \in Remains(s, d) : chip' = With(chip, s, r))
  BY <1>1 DEF Outage, With, Typed
<1>3. Done' = chip' /\ Ram' = chip'
  BY <1>2 DEF Done, Ram
<1>4. DiskTyped(chip') /\ (~ formatting => Coherent(chip', kept))
  <2>1. CASE chip' = chip /\ ~ erased
    BY <1>1, <2>1 DEF Typed, Coherence
  <2>2. CASE erased /\ \E r \in Remains(s, d) : chip' = With(chip, s, r)
    <3>1. PICK r \in Remains(s, d) : chip' = With(chip, s, r)
      BY <2>2
    <3>2. s \in Sector /\ Done = With(chip, s, d) /\ SectorTyped(s, d) /\ Done[s] = d
      BY <1>1, <2>2, HeadTyped DEF Typed
    <3> HIDE DEF s, d
    <3>3. chip' = With(Done, s, r)
      BY <1>1, <3>1, <3>2, WritingTwice DEF Typed
    <3>4. DiskTyped(Done) /\ KeptTyped(kept)
      BY <1>1 DEF Typed
    <3>5. SectorTyped(s, r)
      BY <3>2, RemainsTyped
    <3>6. DiskTyped(chip')
      BY <3>2, <3>3, <3>4, <3>5, Writing
    <3>7. ~ formatting => Coherent(With(Done, s, r), kept)
      BY <1>1, <3>2, <3>4, CoherentCut DEF Coherence
    <3> QED BY <3>3, <3>6, <3>7
  <2> QED BY <1>2, <2>1, <2>2
<1> HIDE DEF s, d
<1>5. FileTyped(NoFile)
  BY Sectors, ClusterNumbers DEF FileTyped, NoFile
<1>6. EarlyNow \in Nat
  BY <1>1 DEF EarlyNow, Typed
<1>7. Typed'
  <2>1. left' \in Seq(Seq(STRING) \ {<<>>})
    BY <1>2
  <2>2. KeptTyped(kept') /\ formatting' \in BOOLEAN /\ early' \in Nat
    BY <1>1, <1>2, <1>6 DEF Typed
  <2> QED BY <1>2, <1>3, <1>4, <1>5, <2>1, <2>2, Sectors DEF Typed, WritesFile
<1>8. Windowed' /\ Phased' /\ Formatted' /\ TextNotOverwritten'
  BY <1>2 DEF Windowed, Phased, Formatted, TextNotOverwritten
<1>9. Coherence'
  BY <1>2, <1>3, <1>4 DEF Coherence, WritesFile
<1> QED BY <1>7, <1>8, <1>9 DEF FatInv

\* move_window writes the changed window or reads another sector.
LEMMA MoveWindowStep ==
  ASSUME FatInv, NEW s \in Sector, MoveWindow(s), pc \in {"open", "seek", "put", "close"}
  PROVE  FatInv'
<1>1. /\ Typed /\ Windowed /\ Phased /\ Formatted /\ Coherence
  BY DEF FatInv
<1>2. /\ queue = <<>> /\ UNCHANGED <<chip, erased, pc, mounted, last, file, left, formatting, kept, early>>
      /\ \/ wflag /\ queue' = <<Write(winsect, win)>> /\ wflag' = FALSE /\ UNCHANGED <<winsect, win>>
         \/ ~ wflag /\ winsect' = s /\ win' = chip[s] /\ UNCHANGED <<queue, wflag>>
  BY <1>1 DEF MoveWindow, memory, Typed
<1>3. Done = chip /\ ~ erased /\ formatting \in BOOLEAN
  BY <1>1, <1>2 DEF Done, Typed
<1>4. CASE wflag /\ queue' = <<Write(winsect, win)>> /\ wflag' = FALSE /\ UNCHANGED <<winsect, win>>
  <2>1. mounted /\ winsect \in System /\ win = Ram[winsect] /\ winsect \in Sector
    BY <1>1, <1>4 DEF Windowed, Typed
  <2>2. Head(queue').sect = winsect /\ Head(queue').content = win /\ queue' # <<>>
    BY <1>4 DEF Write
  <2>3. Done' = With(chip, winsect, win) /\ Ram = With(chip, winsect, win)
    BY <1>2, <1>3, <1>4, <2>2 DEF Done, Ram
  <2>4. Done' = Ram /\ Ram' = Ram
    BY <1>4, <2>3 DEF Ram
  <2>5. Typed'
    BY <1>1, <1>2, <1>3, <1>4, <2>1, <2>2, <2>4 DEF Typed
  <2>6. Windowed'
    BY <1>1, <1>2, <1>4, <2>1, <2>4 DEF Windowed
  <2>7. Phased'
    <3>1. pc # "open" /\ pc # "idle"
      BY <1>1, <1>4 DEF Phased
    <3>2. queue' = <<Write(Head(queue').sect, Head(queue').content)>>
      BY <1>4, <2>2
    <3> QED BY <1>1, <1>2, <1>4, <2>4, <3>1, <3>2, PhasedKept
  <2>8. Coherence'
    BY <1>1, <1>2, <1>3, <2>4, CoherenceKept DEF Coherence
  <2>9. TextNotOverwritten'
    <3>1. \A c \in Cluster : Head(queue').sect # Data(c)
      BY <2>1, <2>2, Sectors DEF System
    <3> QED BY <3>1 DEF TextNotOverwritten
  <2>10. Formatted'
    BY <1>2 DEF Formatted
  <2> QED BY <2>5, <2>6, <2>7, <2>8, <2>9, <2>10 DEF FatInv
<1>5. CASE ~ wflag /\ winsect' = s /\ win' = chip[s] /\ UNCHANGED <<queue, wflag>>
  <2>1. Done' = Done /\ Ram' = Ram /\ Ram = chip
    BY <1>2, <1>3, <1>5 DEF Done, Ram
  <2>2. Typed'
    BY <1>1, <1>2, <1>5, <2>1 DEF Typed
  <2>3. Windowed'
    BY <1>5, <2>1 DEF Windowed
  <2>4. Phased'
    BY <1>1, <1>2, <1>5, <2>1, PhasedKept
  <2>5. Coherence'
    BY <1>1, <1>2, <1>3, <2>1, CoherenceKept DEF Coherence
  <2>6. TextNotOverwritten' /\ Formatted'
    BY <1>2, <1>5 DEF TextNotOverwritten, Formatted
  <2> QED BY <2>2, <2>3, <2>4, <2>5, <2>6 DEF FatInv
<1> QED BY <1>2, <1>4, <1>5

-----------------------------------------------------------------------------
(* The steps of usb_write. *)

\* What a step of the program has to show that leaves the chip alone.
LEMMA ProgramSteps ==
  ASSUME FatInv, UNCHANGED <<chip, erased, formatting, kept, early>>, ~ erased,
         pc' # "format",
         mounted' \in BOOLEAN, wflag' \in BOOLEAN, winsect' \in Sector,
         FileTyped(file'), left' \in Seq(Seq(STRING) \ {<<>>}),
         queue' # <<>> => Head(queue').sect \in Sector,
         DiskTyped(Done'), DiskTyped(Ram'),
         ~ formatting => Coherent(Done', kept) /\ Coherent(Ram', kept),
         pc' = "seek" => SeekTyped(file') /\ (~ formatting => SeekAt(Ram', file', kept)),
         WritesFile(pc', file') => PutTyped(file') /\ (~ formatting => PutAt(Ram', file', kept)),
         Windowed', Phased', TextNotOverwritten'
  PROVE  FatInv'
<1>1. Typed /\ Coherence
  BY DEF FatInv
<1>2. Typed'
  BY <1>1 DEF Typed
<1>3. Coherence'
  BY <1>1 DEF Coherence
<1>4. Formatted'
  BY DEF Formatted
<1> QED BY <1>2, <1>3, <1>4 DEF FatInv

\* The same, when nothing is to be written and the disk in RAM is the same.
LEMMA QuietSteps ==
  ASSUME FatInv, UNCHANGED <<chip, erased, formatting, kept, early>>, queue = <<>>, queue' = <<>>,
         Ram' = Ram, pc' # "format",
         mounted' \in BOOLEAN, wflag' \in BOOLEAN, winsect' \in Sector,
         FileTyped(file'), left' \in Seq(Seq(STRING) \ {<<>>}),
         pc' = "seek" => SeekTyped(file') /\ (~ formatting => SeekAt(Ram, file', kept)),
         WritesFile(pc', file') => PutTyped(file') /\ (~ formatting => PutAt(Ram, file', kept)),
         Windowed', Phased'
  PROVE  FatInv'
<1>1. Typed /\ Coherence /\ ~ erased
  BY DEF FatInv, Typed
<1>2. Done' = Done
  BY DEF Done
<1>3. DiskTyped(Done') /\ DiskTyped(Ram') /\ (~ formatting => Coherent(Done', kept) /\ Coherent(Ram', kept))
  BY <1>1, <1>2 DEF Typed, Coherence
<1>4. TextNotOverwritten'
  BY DEF TextNotOverwritten
<1> QED BY <1>1, <1>3, <1>4, ProgramSteps

\* The timer of the main loop: f_open begins.
LEMMA UsbWriteStep == ASSUME FatInv, UsbWrite PROVE FatInv'
<1>1. /\ Typed /\ Windowed /\ Phased /\ Formatted
  BY DEF FatInv
<1>2. /\ pc = "idle" /\ queue = <<>> /\ queue' = queue /\ ~ wflag
      /\ UNCHANGED <<chip, erased, file, left, formatting, kept, early>>
  BY <1>1 DEF UsbWrite, disk, memory, Phased
<1>3. \/ pc' = pc /\ UNCHANGED <<mounted, winsect, win, wflag>>
      \/ pc' = "open" /\ mounted /\ UNCHANGED <<mounted, winsect, win, wflag>>
      \/ pc' = "open" /\ mounted' = TRUE /\ winsect' = Vbr /\ wflag' = FALSE
  BY DEF UsbWrite, Mount, fs
<1>4. Ram' = Ram /\ wflag' = FALSE
  BY <1>1, <1>2, <1>3 DEF Ram, Done, Typed
<1>5. winsect' \in Sector /\ mounted' \in BOOLEAN /\ FileTyped(file') /\ left' \in Seq(Seq(STRING) \ {<<>>})
  BY <1>1, <1>2, <1>3, Sectors DEF Typed
<1>6. Windowed'
  <2>1. Vbr \notin System
    BY Sectors DEF System
  <2> QED BY <1>1, <1>3, <1>4, <2>1 DEF Windowed
<1>7. Phased'
  BY <1>1, <1>2, <1>3, <1>4 DEF Phased
<1> QED BY <1>2, <1>3, <1>4, <1>5, <1>6, <1>7, QuietSteps DEF WritesFile

\* What the program reads of the directory is what it is in RAM.
LEMMA OpenReads ==
  ASSUME FatInv, Find
  PROVE  /\ pc = "open" /\ queue = <<>> /\ ~ wflag /\ mounted /\ Ram = chip /\ Done = chip /\ ~ erased
         /\ winsect = Dir(1) /\ DiskTyped(chip)
         /\ \A k \in 1 .. Root : Lookup(k) = chip[Dir(k)] /\ EntryTyped(chip[Dir(k)])
         /\ Used # {} => /\ First \in 1 .. Root /\ Lookup(First).kind # "blank"
                         /\ \A j \in 1 .. Root : j < First => chip[Dir(j)].kind = "blank"
<1>1. /\ Typed /\ Windowed /\ Phased
  BY DEF FatInv
<1>2. pc = "open" /\ queue = <<>> /\ ~ wflag /\ mounted /\ winsect = Dir(1)
  BY <1>1 DEF Find, Phased
<1>3. Ram = chip /\ Done = chip /\ ~ erased /\ DiskTyped(chip)
  BY <1>1, <1>2 DEF Ram, Done, Typed
<1>4. ASSUME NEW k \in 1 .. Root PROVE Lookup(k) = chip[Dir(k)] /\ EntryTyped(chip[Dir(k)])
  <2>1. Dir(k) \in System
    BY Sectors DEF System
  <2>2. Lookup(k) = chip[Dir(k)]
    BY <1>1, <1>2, <1>3, <2>1 DEF Lookup, Windowed
  <2> QED BY <1>3, <2>2, Reading
<1>5. ASSUME Used # {}
      PROVE  /\ First \in 1 .. Root /\ Lookup(First).kind # "blank"
             /\ \A j \in 1 .. Root : j < First => chip[Dir(j)].kind = "blank"
  <2>1. Used \in SUBSET Nat /\ Used \subseteq 1 .. Root
    BY DEF Used
  <2>2. \E k \in Used : \A j \in Used : k <= j
    BY <1>5, <2>1, LeastNumber
  <2>3. First \in Used /\ \A j \in Used : First <= j
    BY <2>2 DEF First
  <2>4. \A j \in 1 .. Root : Lookup(j).kind # "blank" => j \in Used
    BY DEF Used
  <2>5. First \in 1 .. Root /\ Lookup(First).kind # "blank"
    BY <2>3 DEF Used
  <2>6. ASSUME NEW j \in 1 .. Root, j < First PROVE chip[Dir(j)].kind = "blank"
    <3>1. j \notin Used
      BY <2>3, <2>5, <2>6
    <3> QED BY <1>4, <2>4, <3>1
  <2> QED BY <2>5, <2>6
<1> QED BY <1>2, <1>3, <1>4, <1>5

\* f_open finds no free entry.
LEMMA OpenDeniedStep == ASSUME FatInv, OpenDenied PROVE FatInv'
<1>1. /\ Typed /\ Windowed /\ Phased
  BY DEF FatInv
<1>2. /\ pc' = "idle" /\ winsect' = Dir(Root) /\ win' = Lookup(Root)
      /\ UNCHANGED <<chip, queue, erased, mounted, wflag, file, left, formatting, kept, early>> /\ Find
  BY DEF OpenDenied, disk, memory
<1>3. pc = "open" /\ queue = <<>> /\ ~ wflag /\ mounted /\ Ram = chip /\ Done = chip
  BY <1>2, OpenReads
<1>4. Root \in 1 .. Root
  BY FatFsAssumption
<1>5. Ram' = Ram
  BY <1>2, <1>3 DEF Ram, Done
<1>6. win' = Ram[winsect'] /\ winsect' \in Sector
  BY <1>2, <1>3, <1>4, OpenReads, Sectors
<1>7. Windowed'
  BY <1>2, <1>3, <1>5, <1>6 DEF Windowed
<1>8. Phased'
  BY <1>1, <1>2, <1>3 DEF Phased
<1>9. FileTyped(file') /\ left' \in Seq(Seq(STRING) \ {<<>>}) /\ mounted' \in BOOLEAN /\ wflag' \in BOOLEAN
  BY <1>1, <1>2 DEF Typed
<1> QED BY <1>2, <1>3, <1>5, <1>6, <1>7, <1>8, <1>9, QuietSteps DEF WritesFile

\* The strings of usb_write.
LEMMA Strings ==
  /\ <<Line>> \in Seq(Seq(STRING) \ {<<>>}) /\ <<Line>> # <<>>
  /\ <<Greeting, Line>> \in Seq(Seq(STRING) \ {<<>>}) /\ <<Greeting, Line>> # <<>>
<1>1. Greeting \in Seq(STRING) \ {<<>>} /\ Line \in Seq(STRING) \ {<<>>}
  BY FatFsAssumption
<1> DEFINE Nonempty == Seq(STRING) \ {<<>>}
<1> HIDE DEF Nonempty
<1>2. Greeting \in Nonempty /\ Line \in Nonempty
  BY <1>1 DEF Nonempty
<1>3. <<Line>> \in Seq(Nonempty) /\ <<Greeting, Line>> \in Seq(Nonempty)
  BY <1>2
<1> QED BY <1>3 DEF Nonempty

\* f_open makes a new entry.
LEMMA OpenNewStep == ASSUME FatInv, OpenNew PROVE FatInv'
<1>1. /\ Typed /\ Windowed /\ Phased /\ Coherence
  BY DEF FatInv
<1> DEFINE e == Entry("file", 0, 0)
<1>2. /\ Find /\ Used # {} /\ Lookup(First).kind = "free"
      /\ winsect' = Dir(First) /\ win' = e /\ wflag' = TRUE
      /\ file' = [NoFile EXCEPT !.dirSect = Dir(First), !.modified = TRUE]
      /\ pc' = "put" /\ left' = <<Greeting, Line>>
      /\ UNCHANGED <<chip, queue, erased, mounted, formatting, kept, early>>
  BY DEF OpenNew, disk, memory
<1>3. pc = "open" /\ queue = <<>> /\ ~ wflag /\ mounted /\ Ram = chip /\ Done = chip /\ ~ erased /\ DiskTyped(chip)
  BY <1>2, OpenReads
<1>4. PICK k \in 1 .. Root : /\ k = First /\ chip[Dir(k)].kind = "free"
                             /\ \A j \in 1 .. Root : j < k => chip[Dir(j)].kind = "blank"
  BY <1>2, OpenReads
<1>5. e = [kind |-> "file", clust |-> 0, size |-> 0] /\ EntryTyped(e) /\ e.kind = "file" /\ e.clust = 0 /\ e.size = 0
  BY ClusterNumbers DEF Entry, EntryTyped
<1>6. file' = [dirSect |-> Dir(k), sclust |-> 0, size |-> 0, fptr |-> 0, clust |-> 0, sect |-> 0,
               buf |-> Bytes("zero"), dirty |-> FALSE, modified |-> TRUE]
  BY <1>2, <1>4 DEF NoFile
<1> HIDE DEF e
<1>7. Done' = chip /\ Ram' = With(chip, Dir(k), e)
  BY <1>2, <1>3, <1>4 DEF Done, Ram
<1>8. Dir(k) \in Sector /\ Dir(k) \in Dirs /\ Dir(k) # Fat
  BY Sectors
<1>9. SectorTyped(Dir(k), e)
  BY <1>5, <1>8 DEF SectorTyped
<1>10. DiskTyped(Ram') /\ Ram'[Dir(k)] = e /\ \A t \in Sector : t # Dir(k) => Ram'[t] = chip[t]
  BY <1>3, <1>7, <1>8, <1>9, Writing
<1>11. \A F : EntryFits(F, kept, 0, 0)
  BY DEF EntryFits
<1>12. ~ formatting => Coherent(chip, kept) /\ Coherent(Ram', kept)
  <2>1. SUFFICES ASSUME ~ formatting PROVE Coherent(chip, kept) /\ Coherent(Ram', kept)
    OBVIOUS
  <2>2. Coherent(chip, kept)
    BY <1>1, <1>3, <2>1 DEF Coherence
  <2>3. chip[Dir(k)].kind # "blank"
    BY <1>4
  <2>4. EntryFits(chip[Fat].next, kept, e.clust, e.size)
    BY <1>5, <1>11
  <2>5. Coherent(With(chip, Dir(k), e), kept)
    BY <1>3, <1>4, <1>5, <2>2, <2>3, <2>4, CoherentEntry
  <2> QED BY <1>7, <2>2, <2>5
<1>13. FileTyped(file') /\ PutTyped(file')
  BY <1>6, <1>8, ClusterNumbers DEF FileTyped, PutTyped
<1>14. PutAt(Ram', file', kept)
  <2>1. file'.dirSect = Dir(k) /\ Ram'[Dir(k)].kind = "file"
    BY <1>5, <1>6, <1>10
  <2>2. file'.sclust = 0 /\ file'.size = 0 /\ file'.sect = 0 /\ file'.fptr = 0 /\ file'.clust = 0
    BY <1>6
  <2>3. AtEnd(Ram'[Fat].next, file') /\ Buffered(Ram', file', kept)
    BY <2>2 DEF AtEnd, Buffered
  <2>4. EntryFits(Ram'[Fat].next, kept, file'.sclust, file'.size)
    BY <1>11, <2>2
  <2> QED BY <2>1, <2>3, <2>4 DEF PutAt
<1>15. Windowed'
  <2>1. Dir(k) \in System
    BY <1>8 DEF System
  <2> QED BY <1>2, <1>3, <1>4, <1>10, <2>1 DEF Windowed
<1>16. Phased'
  <2>1. file'.modified = TRUE
    BY <1>6
  <2> QED BY <1>2, <1>3, <2>1 DEF Phased
<1>17. TextNotOverwritten' /\ mounted' \in BOOLEAN /\ wflag' \in BOOLEAN /\ winsect' \in Sector /\ queue' = <<>>
  BY <1>1, <1>2, <1>3, <1>4, <1>8 DEF TextNotOverwritten, Typed
<1>18. left' \in Seq(Seq(STRING) \ {<<>>})
  BY <1>2, Strings
<1>19. pc' # "format" /\ pc' # "seek" /\ Done' = chip
  BY <1>2, <1>7
<1> QED BY <1>2, <1>3, <1>10, <1>12, <1>13, <1>14, <1>15, <1>16, <1>17, <1>18, <1>19, ProgramSteps

\* f_open finds the file.
LEMMA OpenOldStep == ASSUME FatInv, OpenOld PROVE FatInv'
<1>1. /\ Typed /\ Windowed /\ Phased /\ Coherence
  BY DEF FatInv
<1>2. /\ Find /\ Used # {} /\ Lookup(First).kind = "file"
      /\ winsect' = Dir(First) /\ win' = Lookup(First)
      /\ file' = [NoFile EXCEPT !.dirSect = Dir(First), !.sclust = win'.clust, !.size = win'.size]
      /\ \/ file'.size = 0 /\ pc' = "put" /\ left' = <<Greeting, Line>>
         \/ file'.size # 0 /\ pc' = "seek" /\ left' = <<Line>>
      /\ UNCHANGED <<chip, queue, erased, mounted, wflag, formatting, kept, early>>
  BY DEF OpenOld, disk, memory
<1>3. pc = "open" /\ queue = <<>> /\ ~ wflag /\ mounted /\ Ram = chip /\ Done = chip /\ ~ erased /\ DiskTyped(chip)
  BY <1>2, OpenReads
<1>4. PICK k \in 1 .. Root : /\ k = First /\ Lookup(k) = chip[Dir(k)] /\ chip[Dir(k)].kind = "file"
                             /\ EntryTyped(chip[Dir(k)])
  BY <1>2, OpenReads
<1>5. PICK e : e = chip[Dir(k)]
  OBVIOUS
<1>6. e.clust \in Link /\ e.size \in Nat /\ (e.clust = Eoc => e.size = Huge)
  BY <1>4, <1>5 DEF EntryTyped
<1>7. file' = [dirSect |-> Dir(k), sclust |-> e.clust, size |-> e.size, fptr |-> 0, clust |-> 0, sect |-> 0,
               buf |-> Bytes("zero"), dirty |-> FALSE, modified |-> FALSE]
  BY <1>2, <1>4, <1>5 DEF NoFile
<1>20. file'.size = e.size /\ file'.modified = FALSE
  BY <1>7
<1>21. \/ file'.size = 0 /\ pc' = "put"
       \/ file'.size # 0 /\ pc' = "seek"
  BY <1>2
<1>8. Dir(k) \in Sector /\ Dir(k) \in Dirs /\ Dir(k) # Fat
  BY Sectors
<1>9. Ram' = Ram
  BY <1>2, <1>3 DEF Ram, Done
<1>10. FileTyped(file')
  BY <1>6, <1>7, <1>8, ClusterNumbers DEF FileTyped
<1>11. EntryFits(Ram[Fat].next, kept, e.clust, e.size) \/ formatting
  BY <1>1, <1>3, <1>4, <1>5 DEF Coherence, Coherent
<1>12. pc' = "seek" => SeekTyped(file') /\ (~ formatting => SeekAt(Ram, file', kept))
  <2>1. SUFFICES ASSUME pc' = "seek" PROVE SeekTyped(file') /\ (~ formatting => SeekAt(Ram, file', kept))
    OBVIOUS
  <2>2. e.size > 0
    BY <1>6, <1>20, <1>21, <2>1
  <2>3. SeekTyped(file')
    BY <1>6, <1>7, <1>8, <2>2, ClusterNumbers DEF SeekTyped
  <2>4. SeekAt(Ram, file', kept)
    BY <1>3, <1>4, <1>5, <1>7, ClusterNumbers DEF SeekAt
  <2> QED BY <2>3, <2>4
<1>13. WritesFile(pc', file') => PutTyped(file') /\ (~ formatting => PutAt(Ram, file', kept))
  <2>1. SUFFICES ASSUME WritesFile(pc', file') PROVE PutTyped(file') /\ (~ formatting => PutAt(Ram, file', kept))
    OBVIOUS
  <2>2. e.size = 0 /\ pc' = "put"
    BY <1>20, <1>21, <2>1 DEF WritesFile
  <2>3. e.clust # Eoc
    BY <1>6, <2>2, HugeNumber
  <2>4. PutTyped(file')
    BY <1>7, <1>8, <2>3, ClusterNumbers DEF PutTyped
  <2>5. ASSUME ~ formatting PROVE PutAt(Ram, file', kept)
    <3>1. EntryFits(Ram[Fat].next, kept, e.clust, 0)
      BY <1>11, <2>2, <2>5
    <3>2. e.clust = 0
      BY <3>1, HugeNumber DEF EntryFits
    <3>3. file'.sclust = 0 /\ file'.size = 0 /\ file'.sect = 0 /\ file'.fptr = 0 /\ file'.clust = 0 /\ file'.dirSect = Dir(k)
      BY <1>7, <2>2, <3>2
    <3>4. AtEnd(Ram[Fat].next, file') /\ Buffered(Ram, file', kept)
      BY <3>3 DEF AtEnd, Buffered
    <3>5. EntryFits(Ram[Fat].next, kept, file'.sclust, file'.size)
      BY <3>1, <3>2, <3>3
    <3> QED BY <1>3, <1>4, <3>3, <3>4, <3>5 DEF PutAt
  <2> QED BY <2>4, <2>5
<1>14. Windowed'
  <2>1. Dir(k) \in System
    BY <1>8 DEF System
  <2>2. win' = Ram[winsect']
    BY <1>2, <1>3, <1>4
  <2> QED BY <1>2, <1>3, <1>9, <2>1, <2>2 DEF Windowed
<1>15. Phased'
  BY <1>2, <1>3, Strings DEF Phased
<1>16. left' \in Seq(Seq(STRING) \ {<<>>}) /\ mounted' \in BOOLEAN /\ wflag' \in BOOLEAN /\ winsect' \in Sector
  BY <1>1, <1>2, <1>4, <1>8, Strings DEF Typed
<1>17. queue' = <<>> /\ pc' # "format"
  BY <1>2, <1>3
<1> QED BY <1>2, <1>3, <1>9, <1>10, <1>12, <1>13, <1>14, <1>15, <1>16, <1>17, QuietSteps

\* The FAT in the window, before and after create_chain.
LEMMA FatInWindow ==
  ASSUME Typed, Windowed, mounted, winsect = Fat, queue = <<>>, UNCHANGED <<chip, winsect, mounted>>,
         NEW r, TakeFat(TRUE, r), Links(r.fat),
         DiskTyped(Done'), Done'[Fat] = Done[Fat]
  PROVE  /\ FatNow = Ram[Fat].next /\ Links(Ram[Fat].next)
         /\ Ram' = With(Done', Fat, Table(r.fat))
         /\ DiskTyped(Ram') /\ Ram'[Fat].next = r.fat
         /\ \A t \in Sector : t # Fat => Ram[t] = Done[t] /\ Ram'[t] = Done'[t]
         /\ r.fat = Ram[Fat].next => wflag' = wflag
         /\ wflag' \in BOOLEAN /\ Windowed'
<1>1. Fat \in Sector /\ Fat \in System
  BY Sectors DEF System
<1>2. win = Ram[Fat] /\ DiskTyped(Ram) /\ DiskTyped(Done) /\ wflag \in BOOLEAN
  BY <1>1 DEF Windowed, Typed
<1>3. win = Table(Ram[Fat].next) /\ Links(Ram[Fat].next) /\ FatNow = Ram[Fat].next
  BY <1>2, Reading DEF FatNow
<1>4. win' = Table(r.fat) /\ wflag' = (wflag \/ win' # win)
  BY DEF TakeFat
<1>5. r.fat = Ram[Fat].next => wflag' = wflag
  BY <1>2, <1>3, <1>4
<1>6. Ram' = With(Done', Fat, Table(r.fat))
  <2>1. CASE wflag'
    BY <1>4, <2>1 DEF Ram
  <2>2. CASE ~ wflag'
    <3>1. ~ wflag /\ win' = win
      BY <1>4, <2>2
    <3>2. Ram = Done /\ Ram' = Done'
      BY <2>2, <3>1 DEF Ram
    <3>3. Table(r.fat) = Done'[Fat]
      BY <1>2, <1>4, <3>1, <3>2
    <3> QED BY <1>1, <3>2, <3>3, WritingSame
  <2> QED BY <2>1, <2>2
<1>7. SectorTyped(Fat, Table(r.fat)) /\ Table(r.fat).next = r.fat
  BY Sectors DEF SectorTyped, Table
<1>8. /\ DiskTyped(Ram') /\ Ram'[Fat] = Table(r.fat)
      /\ \A t \in Sector : t # Fat => Ram'[t] = Done'[t]
  BY <1>1, <1>6, <1>7, Writing
<1>9. ASSUME NEW t \in Sector, t # Fat PROVE Ram[t] = Done[t]
  <2>1. Ram = Done \/ Ram = With(Done, Fat, win)
    BY DEF Ram
  <2> QED BY <1>1, <1>2, <2>1, <1>9 DEF DiskTyped, With
<1>10. Windowed'
  BY <1>1, <1>4, <1>8 DEF Windowed
<1> QED BY <1>3, <1>4, <1>5, <1>6, <1>7, <1>8, <1>9, <1>10, <1>2

\* The same, when nothing else is to be written.
LEMMA FatTaken ==
  ASSUME FatInv, mounted, winsect = Fat, queue = <<>>, queue' = <<>>, UNCHANGED <<chip, winsect, mounted>>,
         NEW r, TakeFat(TRUE, r), Links(r.fat)
  PROVE  /\ FatNow = Ram[Fat].next /\ Links(Ram[Fat].next)
         /\ Ram' = With(Ram, Fat, Table(r.fat))
         /\ DiskTyped(Ram') /\ Ram'[Fat].next = r.fat
         /\ \A t \in Sector : t # Fat => Ram'[t] = Ram[t]
         /\ r.fat = Ram[Fat].next => wflag' = wflag /\ Ram' = Ram
         /\ wflag' \in BOOLEAN /\ Windowed'
         /\ DiskTyped(Done') /\ (~ formatting => Coherent(Done', kept) /\ Coherent(Ram, kept))
<1>1. Typed /\ Windowed /\ Coherence
  BY DEF FatInv
<1>2. Done' = Done /\ DiskTyped(Done') /\ DiskTyped(Ram) /\ wflag \in BOOLEAN
  BY <1>1 DEF Done, Typed
<1>3. /\ FatNow = Ram[Fat].next /\ Links(Ram[Fat].next)
      /\ Ram' = With(Done', Fat, Table(r.fat))
      /\ DiskTyped(Ram') /\ Ram'[Fat].next = r.fat
      /\ \A t \in Sector : t # Fat => Ram[t] = Done[t] /\ Ram'[t] = Done'[t]
      /\ r.fat = Ram[Fat].next => wflag' = wflag
      /\ wflag' \in BOOLEAN /\ Windowed'
  BY <1>1, <1>2, FatInWindow
<1>4. Fat \in Sector
  BY Sectors
<1>5. Ram' = With(Ram, Fat, Table(r.fat))
  <2>1. CASE wflag
    <3>1. Ram = With(Done, Fat, win)
      BY <2>1 DEF Ram
    <3> QED BY <1>2, <1>3, <1>4, <3>1, WritingTwice
  <2>2. CASE ~ wflag
    <3>1. Ram = Done
      BY <2>2 DEF Ram
    <3> QED BY <1>2, <1>3, <3>1
  <2> QED BY <2>1, <2>2
<1>6. r.fat = Ram[Fat].next => Ram' = Ram
  BY <1>2, <1>4, <1>5, WritingSame, Reading
<1>7. ~ formatting => Coherent(Done', kept) /\ Coherent(Ram, kept)
  BY <1>1, <1>2 DEF Coherence
<1> QED BY <1>2, <1>3, <1>5, <1>6, <1>7

\* Nothing moved: the window is what it was.
LEMMA WindowKept ==
  ASSUME FatInv, UNCHANGED <<chip, queue, mounted, winsect, win, wflag>>
  PROVE  Ram' = Ram /\ Windowed' /\ mounted' \in BOOLEAN /\ wflag' \in BOOLEAN /\ winsect' \in Sector
<1>1. Typed /\ Windowed
  BY DEF FatInv
<1>2. Done' = Done
  BY DEF Done
<1>3. Ram' = Ram
  BY <1>2 DEF Ram
<1> QED BY <1>1, <1>3 DEF Windowed, Typed

\* The file begins at 0.
LEMMA UptoZero == Upto(0, 0) = 0
<1>1. \A q \in Nat : 0 * q + 0 = 0
  OBVIOUS
<1> QED BY <1>1, ClusterNumbers DEF Upto

\* f_lseek takes the first cluster, or allocates one.
LEMMA SeekFirstStep == ASSUME FatInv, SeekFirst PROVE FatInv'
<1>1. /\ Typed /\ Windowed /\ Phased /\ Coherence
  BY DEF FatInv
<1> DEFINE F == Ram[Fat].next
<1>2. /\ pc = "seek" /\ queue = <<>> /\ queue' = <<>> /\ file.clust = 0 /\ left' = left
      /\ UNCHANGED <<chip, erased, mounted, winsect, left, formatting, kept, early>>
  BY DEF SeekFirst, disk, memory
<1>3. /\ mounted /\ ~ erased /\ left # <<>> /\ left \in Seq(Seq(STRING) \ {<<>>})
      /\ FileTyped(file) /\ SeekTyped(file) /\ DiskTyped(Ram) /\ KeptTyped(kept) /\ winsect \in Sector
      /\ mounted \in BOOLEAN /\ wflag \in BOOLEAN
  BY <1>1, <1>2 DEF Phased, Typed
<1>4. file.fptr = 0 /\ file.size > 0 /\ file.sect = 0 /\ ~ file.modified /\ ~ file.dirty /\ file.dirSect \in Dirs
  BY <1>2, <1>3 DEF SeekTyped
<1>5. ~ wflag
  BY <1>1, <1>2, ClusterNumbers DEF Phased, Fruitful
<1>6. SeekNeedsFat <=> file.sclust = 0
  BY <1>2 DEF SeekNeedsFat, Ahead
<1>7. ~ formatting => SeekAt(Ram, file, kept) /\ Coherent(Ram, kept)
  BY <1>1, <1>2 DEF Coherence
<1>8. CASE file.sclust # 0
  <2>1. /\ file' = [file EXCEPT !.sclust = file.sclust, !.clust = file.sclust]
        /\ pc' = "seek" /\ UNCHANGED <<win, wflag>>
    BY <1>2, <1>6, <1>8 DEF SeekFirst, Chain, TakeFat
  <2>2. Ram' = Ram /\ Windowed' /\ mounted' \in BOOLEAN /\ wflag' \in BOOLEAN /\ winsect' \in Sector
    BY <1>2, <2>1, WindowKept
  <2>3. file' = [dirSect |-> file.dirSect, sclust |-> file.sclust, size |-> file.size, fptr |-> 0,
                 clust |-> file.sclust, sect |-> 0, buf |-> file.buf, dirty |-> FALSE, modified |-> FALSE]
    BY <1>3, <1>4, <2>1 DEF FileTyped
  <2>4. FileTyped(file') /\ SeekTyped(file')
    BY <1>3, <1>4, <1>8, <2>3, ClusterNumbers DEF FileTyped, SeekTyped
  <2>5. ASSUME ~ formatting PROVE SeekAt(Ram, file', kept)
    <3>1. PICK k \in 1 .. Root : /\ file.dirSect = Dir(k) /\ Ram[Dir(k)].kind = "file"
                                 /\ Ram[Dir(k)].size = file.size /\ file.sclust = Ram[Dir(k)].clust
      BY <1>2, <1>7, <2>5 DEF SeekAt
    <3>2. EntryFits(F, kept, file.sclust, file.size)
      BY <1>7, <2>5, <3>1 DEF Coherent
    <3>3. file.sclust \in Cluster => Upto(0, 0) = 0 /\ 0 < file.size /\ Leads(F, file.sclust, 0, file.sclust)
      BY <1>3, <1>4, LeadsZero, UptoZero
    <3>4. \E j \in 1 .. Root : /\ file'.dirSect = Dir(j) /\ Ram[Dir(j)].kind = "file" /\ Ram[Dir(j)].size = file'.size
                               /\ file'.clust = 0 => file'.sclust = Ram[Dir(j)].clust
      BY <1>8, <2>3, <3>1
    <3>5. file'.clust \in Cluster => /\ EntryFits(F, kept, file'.sclust, file'.size)
            /\ \E n \in Nat : file'.fptr = Upto(n, 0) /\ file'.fptr < file'.size /\ Leads(F, file'.sclust, n, file'.clust)
      BY <2>3, <3>2, <3>3
    <3> QED BY <3>4, <3>5 DEF SeekAt
  <2>6. Phased'
    BY <1>2, <1>3, <1>5, <2>1 DEF Phased
  <2>7. ~ WritesFile(pc', file')
    BY <2>1 DEF WritesFile
  <2> QED BY <1>2, <1>3, <2>1, <2>2, <2>4, <2>5, <2>6, <2>7, QuietSteps
<1>9. CASE file.sclust = 0
  <2>1. PICK r : /\ r = CreateChain(FatNow, last, 0) /\ winsect = Fat /\ TakeFat(TRUE, r)
                 /\ file' = [file EXCEPT !.sclust = r.clust, !.clust = r.clust]
                 /\ pc' = (IF r.clust = 0 THEN "put" ELSE pc)
    BY <1>6, <1>9 DEF SeekFirst
  <2>2. Fat \in System /\ Fat \in Sector
    BY Sectors DEF System
  <2>3. FatNow = F /\ Links(F)
    BY <1>1, <1>3, <2>1, <2>2, Reading DEF FatNow, Windowed
  <2>4. \/ r.clust = 0 /\ r.fat = F /\ FreeIn(F) = {}
        \/ CanStretch(F, r.clust, 0) /\ r.fat = Stretched(F, r.clust, 0)
    BY <2>1, <2>3, ChainSteps
  <2>5. Links(r.fat)
    BY <2>3, <2>4, StretchedLinks
  <2>6. /\ Ram' = With(Ram, Fat, Table(r.fat))
        /\ DiskTyped(Ram') /\ Ram'[Fat].next = r.fat
        /\ \A t \in Sector : t # Fat => Ram'[t] = Ram[t]
        /\ r.fat = F => wflag' = wflag /\ Ram' = Ram
        /\ wflag' \in BOOLEAN /\ Windowed'
        /\ DiskTyped(Done') /\ (~ formatting => Coherent(Done', kept) /\ Coherent(Ram, kept))
    BY <1>2, <1>3, <2>1, <2>5, FatTaken
  <2>7. r.clust \in Link /\ r.clust # Eoc
    BY <2>4, ClusterNumbers DEF CanStretch
  <2>8. file' = [dirSect |-> file.dirSect, sclust |-> r.clust, size |-> file.size, fptr |-> 0,
                 clust |-> r.clust, sect |-> 0, buf |-> file.buf, dirty |-> FALSE, modified |-> FALSE]
    BY <1>3, <1>4, <2>1 DEF FileTyped
  <2>9. FileTyped(file')
    BY <1>3, <1>4, <2>7, <2>8, ClusterNumbers DEF FileTyped
  <2>10. CASE r.clust = 0 /\ r.fat = F /\ FreeIn(F) = {}
    <3>1. pc' = "put" /\ Ram' = Ram /\ wflag' = wflag
      BY <2>1, <2>6, <2>10
    <3>2. PutTyped(file')
      BY <1>4, <2>8, <2>10, ClusterNumbers DEF PutTyped
    <3>3. ASSUME ~ formatting PROVE PutAt(Ram, file', kept)
      <4>1. PICK k \in 1 .. Root : /\ file.dirSect = Dir(k) /\ Ram[Dir(k)].kind = "file"
                                   /\ Ram[Dir(k)].size = file.size /\ 0 = Ram[Dir(k)].clust
        BY <1>2, <1>7, <1>9, <3>3 DEF SeekAt
      <4>2. EntryFits(F, kept, 0, file.size)
        BY <1>7, <3>3, <4>1 DEF Coherent
      <4>3. file'.sclust = 0 /\ file'.clust = 0 /\ file'.fptr = 0 /\ file'.sect = 0 /\ file'.size = file.size /\ file'.dirSect = Dir(k)
        BY <2>8, <2>10, <4>1
      <4>4. NoRoom(F, file') /\ Buffered(Ram, file', kept)
        BY <2>10, <4>3 DEF NoRoom, Buffered
      <4> QED BY <4>1, <4>2, <4>3, <4>4 DEF PutAt
    <3>4. Phased'
      BY <1>2, <1>3, <1>5, <3>1 DEF Phased
    <3> QED BY <1>2, <1>3, <2>6, <2>9, <3>1, <3>2, <3>3, <3>4, QuietSteps
  <2>11. CASE CanStretch(F, r.clust, 0) /\ r.fat = Stretched(F, r.clust, 0)
    <3>1. r.clust \in Cluster /\ r.clust # 0 /\ r.fat[r.clust] = Eoc
      BY <2>11, ClusterNumbers, StretchedValues DEF CanStretch
    <3>2. pc' = "seek"
      BY <1>2, <2>1, <3>1
    <3>3. SeekTyped(file')
      BY <1>4, <2>8, <3>1, ClusterNumbers DEF SeekTyped
    <3>4. ~ formatting => Coherent(Ram', kept)
      BY <1>3, <2>6, <2>11, CoherentStretched
    <3>5. ASSUME ~ formatting PROVE SeekAt(Ram', file', kept)
      <4>1. PICK k \in 1 .. Root : /\ file.dirSect = Dir(k) /\ Ram[Dir(k)].kind = "file" /\ Ram[Dir(k)].size = file.size
        BY <1>7, <3>5 DEF SeekAt
      <4>2. Ram'[Dir(k)] = Ram[Dir(k)]
        BY <2>6, Sectors
      <4>3. RecordedTaken(F, kept)
        BY <1>7, <3>5 DEF Coherent
      <4>4. file.size \in Nat
        BY <1>3 DEF FileTyped
      <4>5. EntryFits(r.fat, kept, r.clust, file.size)
        BY <1>3, <1>4, <2>11, <4>3, <4>4, FitsFirst
      <4>6. Upto(0, 0) = 0 /\ 0 < file.size /\ Leads(r.fat, r.clust, 0, r.clust)
        BY <1>4, <3>1, <4>4, LeadsZero, UptoZero
      <4>7. file'.dirSect = Dir(k) /\ Ram'[Dir(k)].kind = "file" /\ Ram'[Dir(k)].size = file'.size /\ file'.clust # 0
        BY <2>8, <3>1, <4>1, <4>2
      <4>8. /\ EntryFits(Ram'[Fat].next, kept, file'.sclust, file'.size)
            /\ \E n \in Nat : file'.fptr = Upto(n, 0) /\ file'.fptr < file'.size /\ Leads(Ram'[Fat].next, file'.sclust, n, file'.clust)
        BY <2>6, <2>8, <4>5, <4>6
      <4> QED BY <4>7, <4>8 DEF SeekAt
    <3>6. Fruitful'
      BY <2>6, <2>8, <3>1, ClusterNumbers DEF Fruitful
    <3>7. Phased'
      BY <1>2, <1>3, <3>2, <3>6 DEF Phased
    <3>8. ~ WritesFile(pc', file') /\ TextNotOverwritten'
      BY <1>2, <3>2 DEF WritesFile, TextNotOverwritten
    <3> QED BY <1>2, <1>3, <2>6, <2>9, <3>2, <3>3, <3>4, <3>5, <3>7, <3>8, ProgramSteps
  <2> QED BY <2>4, <2>10, <2>11
<1> QED BY <1>8, <1>9

\* A chain that is none ends f_lseek without a change.
LEMMA SeekFails ==
  ASSUME FatInv, pc = "seek", queue = <<>>, queue' = <<>>, ~ wflag, wflag' = FALSE,
         UNCHANGED <<chip, erased, mounted, winsect, formatting, kept, early, file>>,
         pc' = "close", left' = <<>>,
         Windowed'
  PROVE  FatInv'
<1>1. Typed /\ Phased
  BY DEF FatInv
<1>2. Ram' = Ram
  BY DEF Ram, Done
<1>3. SeekTyped(file) /\ FileTyped(file) /\ wflag' \in BOOLEAN /\ mounted' \in BOOLEAN /\ winsect' \in Sector
  <2>1. /\ SeekTyped(file) /\ FileTyped(file) /\ winsect \in Sector /\ mounted \in BOOLEAN
    BY <1>1 DEF Typed
  <2> QED BY <2>1
<1>4. ~ WritesFile(pc', file')
  BY <1>3 DEF WritesFile, SeekTyped
<1>5. Phased'
  BY <1>1 DEF Phased
<1>6. left' \in Seq(Seq(STRING) \ {<<>>})
  OBVIOUS
<1> QED BY <1>1, <1>2, <1>3, <1>4, <1>5, <1>6, QuietSteps

\* f_lseek goes on to the next cluster.
LEMMA SeekBehindStep == ASSUME FatInv, SeekBehind PROVE FatInv'
<1>1. /\ Typed /\ Windowed /\ Phased /\ Coherence
  BY DEF FatInv
<1> DEFINE F == Ram[Fat].next
<1>2. /\ pc = "seek" /\ queue = <<>> /\ queue' = <<>> /\ file.clust # 0 /\ file.size - file.fptr > SectorSize
      /\ UNCHANGED <<chip, erased, mounted, winsect, formatting, kept, early>>
  BY DEF SeekBehind, Ahead, disk, memory
<1>3. /\ mounted /\ ~ erased /\ left # <<>> /\ left \in Seq(Seq(STRING) \ {<<>>})
      /\ FileTyped(file) /\ SeekTyped(file) /\ DiskTyped(Ram) /\ KeptTyped(kept) /\ winsect \in Sector
      /\ mounted \in BOOLEAN /\ wflag \in BOOLEAN
  BY <1>1, <1>2 DEF Phased, Typed
<1>4. /\ file.fptr \in Nat /\ file.size \in Nat /\ file.size > 0 /\ file.sect = 0 /\ ~ file.modified /\ ~ file.dirty
      /\ file.dirSect \in Dirs /\ file.clust \in Link /\ file.sclust \in Link
  BY <1>2, <1>3 DEF SeekTyped, FileTyped
<1>5. PICK r : /\ r = CreateChain(FatNow, last, file.clust) /\ TakeFat(SeekNeedsFat, r)
               /\ IF r.clust = 1
                  THEN pc' = "close" /\ left' = <<>> /\ UNCHANGED file
                  ELSE /\ file' = [file EXCEPT !.fptr = @ + SectorSize,
                                               !.clust = IF r.clust = 0 THEN @ ELSE r.clust]
                       /\ pc' = (IF r.clust = 0 THEN "put" ELSE pc)
                       /\ UNCHANGED left
  BY DEF SeekBehind
<1>6. SeekNeedsFat <=> file.clust \in Cluster
  BY <1>2 DEF SeekNeedsFat, Ahead
<1>7. CASE file.clust \notin Cluster
  <2>1. r.clust = 1 /\ UNCHANGED <<win, wflag>>
    BY <1>2, <1>5, <1>6, <1>7, ChainFails DEF TakeFat
  <2>2. ~ wflag
    BY <1>1, <1>2, <1>7 DEF Phased, Fruitful
  <2>3. pc' = "close" /\ left' = <<>> /\ UNCHANGED file /\ wflag' = FALSE
    BY <1>3, <1>5, <2>1, <2>2
  <2>4. Windowed'
    BY <1>2, <2>1, WindowKept
  <2> QED BY <1>2, <2>2, <2>3, <2>4, SeekFails
<1>8. CASE file.clust \in Cluster
  <2>1. winsect = Fat /\ TakeFat(TRUE, r)
    BY <1>5, <1>6, <1>8 DEF SeekBehind
  <2>2. Fat \in System /\ Fat \in Sector
    BY Sectors DEF System
  <2>3. FatNow = F /\ Links(F)
    BY <1>1, <1>3, <2>1, <2>2, Reading DEF FatNow, Windowed
  <2>4. CASE F[file.clust] = Free
    <3>1. r.clust = 1 /\ r.fat = F
      BY <1>2, <1>5, <2>3, <2>4, ChainFails
    <3>2. wflag' = wflag /\ Windowed'
      BY <1>2, <1>3, <2>1, <2>3, <3>1, FatTaken
    <3>3. ~ wflag
      BY <1>1, <1>2, <2>4 DEF Phased, Fruitful
    <3>4. pc' = "close" /\ left' = <<>> /\ UNCHANGED file /\ wflag' = FALSE
      BY <1>3, <1>5, <3>1, <3>2, <3>3
    <3> QED BY <1>2, <3>2, <3>3, <3>4, SeekFails
  <2>5. CASE F[file.clust] # Free
    <3>1. \/ r.clust = 0 /\ r.fat = F /\ FreeIn(F) = {} /\ F[file.clust] = Eoc
          \/ F[file.clust] \in Cluster /\ r.clust = F[file.clust] /\ r.fat = F
          \/ CanStretch(F, r.clust, file.clust) /\ r.fat = Stretched(F, r.clust, file.clust)
      BY <1>2, <1>5, <1>8, <2>3, <2>5, ChainSteps
    <3>2. Links(r.fat)
      BY <2>3, <3>1, StretchedLinks
    <3>3. /\ Ram' = With(Ram, Fat, Table(r.fat))
          /\ DiskTyped(Ram') /\ Ram'[Fat].next = r.fat
          /\ \A t \in Sector : t # Fat => Ram'[t] = Ram[t]
          /\ r.fat = F => wflag' = wflag /\ Ram' = Ram
          /\ wflag' \in BOOLEAN /\ Windowed'
          /\ DiskTyped(Done') /\ (~ formatting => Coherent(Done', kept) /\ Coherent(Ram, kept))
      BY <1>2, <1>3, <2>1, <3>2, FatTaken
    <3>4. r.clust \in Link /\ r.clust # Eoc /\ r.clust # 1 /\ (r.clust = 0 \/ r.clust \in Cluster)
      BY <3>1, ClusterNumbers DEF CanStretch
    <3>5. PICK c : c = (IF r.clust = 0 THEN file.clust ELSE r.clust)
      OBVIOUS
    <3>6. c \in Cluster
      BY <1>8, <3>4, <3>5
    <3>7. /\ file' = [file EXCEPT !.fptr = @ + SectorSize, !.clust = c]
          /\ pc' = (IF r.clust = 0 THEN "put" ELSE "seek") /\ left' = left
      BY <1>2, <1>5, <3>4, <3>5
    <3>8. file' = [dirSect |-> file.dirSect, sclust |-> file.sclust, size |-> file.size, fptr |-> file.fptr + SectorSize,
                   clust |-> c, sect |-> 0, buf |-> file.buf, dirty |-> FALSE, modified |-> FALSE]
      BY <1>3, <1>4, <3>7 DEF FileTyped
    <3>9. file.fptr + SectorSize \in Nat /\ file.fptr + SectorSize # 0 /\ file.fptr + SectorSize < file.size
      BY <1>2, <1>4, ClusterNumbers
    <3>10. FileTyped(file')
      BY <1>3, <3>6, <3>8, <3>9, ClusterNumbers DEF FileTyped
    <3>11. file.sclust \in Cluster
      BY <1>3, <1>8 DEF SeekTyped
    <3>12. ~ formatting => SeekAt(Ram, file, kept)
      BY <1>1, <1>2 DEF Coherence
    <3>13. ~ formatting => /\ EntryFits(F, kept, file.sclust, file.size)
                           /\ \E n \in Nat : file.fptr = Upto(n, 0) /\ file.fptr < file.size /\ Leads(F, file.sclust, n, file.clust)
      BY <1>8, <3>12 DEF SeekAt
    <3>14. CASE r.clust = 0 /\ r.fat = F /\ FreeIn(F) = {} /\ F[file.clust] = Eoc
      <4>1. pc' = "put" /\ Ram' = Ram /\ wflag' = wflag /\ c = file.clust
        BY <3>3, <3>5, <3>7, <3>14
      <4>2. PutTyped(file')
        BY <1>4, <3>6, <3>8, <3>9, <3>11, ClusterNumbers DEF PutTyped
      <4>3. ASSUME ~ formatting PROVE PutAt(Ram, file', kept)
        <5>1. PICK k \in 1 .. Root : file.dirSect = Dir(k) /\ Ram[Dir(k)].kind = "file"
          BY <3>12, <4>3 DEF SeekAt
        <5>2. PICK n \in Nat : file.fptr = Upto(n, 0)
          BY <3>13, <4>3
        <5>3. file.fptr + SectorSize = Upto(n + 1, 0)
          BY <5>2, UptoNumber
        <5>4. /\ file'.sclust = file.sclust /\ file'.clust = file.clust /\ file'.fptr = Upto(n + 1, 0) /\ file'.sect = 0
              /\ file'.size = file.size /\ file'.dirSect = Dir(k)
          BY <3>8, <4>1, <5>1, <5>3
        <5>5. NoRoom(F, file') /\ Buffered(Ram, file', kept)
          BY <1>8, <3>14, <5>4 DEF NoRoom, Buffered
        <5> QED BY <3>13, <4>3, <5>1, <5>4, <5>5 DEF PutAt
      <4>4. Fruitful'
        BY <1>8, <2>5, <3>8, <4>1 DEF Fruitful
      <4>5. Phased'
        BY <1>2, <1>3, <3>7, <4>1, <4>4 DEF Phased
      <4> QED BY <1>2, <1>3, <3>3, <3>7, <3>10, <4>1, <4>2, <4>3, <4>5, QuietSteps
    <3>15. CASE r.clust \in Cluster
      <4>1. pc' = "seek" /\ c = r.clust
        BY <3>5, <3>7, <3>15, ClusterNumbers
      <4>2. SeekTyped(file')
        BY <1>4, <3>6, <3>8, <3>11, ClusterNumbers DEF SeekTyped
      <4>3. ~ formatting => Coherent(Ram', kept)
        BY <1>3, <3>1, <3>3, <3>15, CoherentStretched, ClusterNumbers
      <4>4. ASSUME ~ formatting PROVE SeekAt(Ram', file', kept)
        <5>1. PICK k \in 1 .. Root : file.dirSect = Dir(k) /\ Ram[Dir(k)].kind = "file" /\ Ram[Dir(k)].size = file.size
          BY <3>12, <4>4 DEF SeekAt
        <5>2. Ram'[Dir(k)] = Ram[Dir(k)]
          BY <3>3, Sectors
        <5>3. RecordedTaken(F, kept)
          BY <3>3, <4>4 DEF Coherent
        <5>4. PICK n \in Nat : file.fptr = Upto(n, 0) /\ Leads(F, file.sclust, n, file.clust)
          BY <3>13, <4>4
        <5>5. EntryFits(r.fat, kept, file.sclust, file.size)
          BY <1>3, <3>1, <3>13, <3>15, <4>4, <5>3, FitsStretched, ClusterNumbers
        <5>6. Leads(r.fat, file.sclust, n + 1, r.clust)
          BY <3>1, <3>15, <5>4, LeadsNext, StretchedEnd, ClusterNumbers
        <5>7. file.fptr + SectorSize = Upto(n + 1, 0) /\ n + 1 \in Nat
          BY <5>4, UptoNumber
        <5>8. file'.dirSect = Dir(k) /\ Ram'[Dir(k)].kind = "file" /\ Ram'[Dir(k)].size = file'.size /\ file'.clust # 0
          BY <3>6, <3>8, <5>1, <5>2, ClusterNumbers
        <5>9. /\ EntryFits(Ram'[Fat].next, kept, file'.sclust, file'.size)
              /\ \E m \in Nat : file'.fptr = Upto(m, 0) /\ file'.fptr < file'.size /\ Leads(Ram'[Fat].next, file'.sclust, m, file'.clust)
          BY <3>3, <3>8, <3>9, <4>1, <5>5, <5>6, <5>7
        <5> QED BY <5>8, <5>9 DEF SeekAt
      <4>5. r.fat[r.clust] # Free
        BY <1>8, <2>3, <3>1, <3>15, StretchedValues, ClusterNumbers DEF Links
      <4>6. Fruitful'
        BY <3>3, <3>6, <3>8, <4>1, <4>5 DEF Fruitful
      <4>7. Phased'
        BY <1>2, <1>3, <3>7, <4>1, <4>6 DEF Phased
      <4>8. ~ WritesFile(pc', file') /\ TextNotOverwritten'
        BY <1>2, <4>1 DEF WritesFile, TextNotOverwritten
      <4> QED BY <1>2, <1>3, <3>3, <3>7, <3>10, <4>1, <4>2, <4>3, <4>4, <4>7, <4>8, ProgramSteps
    <3> QED BY <3>1, <3>4, <3>14, <3>15 DEF CanStretch
  <2> QED BY <2>4, <2>5
<1> QED BY <1>7, <1>8

\* How much of the last sector is used.
LEMMA UptoRest ==
  ASSUME NEW n \in Nat, NEW r \in 1 .. SectorSize
  PROVE  /\ r < SectorSize => Upto(n, r) % SectorSize = r
         /\ r = SectorSize => Upto(n, r) % SectorSize = 0 /\ Upto(n, r) = Upto(n + 1, 0)
         /\ Upto(n, 0) % SectorSize = 0
<1>1. ASSUME NEW S \in Nat, S > 0, NEW m \in Int, NEW q \in 0 .. S - 1 PROVE (m * S + q) % S = q
  BY <1>1, Z3
<1>2. SectorSize \in Nat /\ SectorSize > 0
  BY ClusterNumbers
<1>3. r < SectorSize => Upto(n, r) % SectorSize = r
  BY <1>1, <1>2 DEF Upto
<1>4. \A m \in Nat : Upto(m, 0) % SectorSize = 0
  BY <1>1, <1>2 DEF Upto
<1>5. Upto(n, SectorSize) = Upto(n + 1, 0)
  BY <1>2, UptoNumber
<1> QED BY <1>3, <1>4, <1>5

\* The end of the sector that holds a position.
LEMMA InSector ==
  ASSUME NEW p \in Nat
  PROVE  p % SectorSize \in 0 .. SectorSize - 1
<1>1. ASSUME NEW S \in Nat, S > 0, NEW m \in Nat PROVE m % S \in 0 .. S - 1
  BY <1>1
<1> QED BY <1>1, ClusterNumbers

\* f_lseek reads the last sector.
LEMMA SeekEndStep == ASSUME FatInv, SeekEnd PROVE FatInv'
<1>1. /\ Typed /\ Windowed /\ Phased /\ Coherence
  BY DEF FatInv
<1> DEFINE F == Ram[Fat].next
<1>2. /\ pc = "seek" /\ queue = <<>> /\ queue' = <<>> /\ file.clust # 0 /\ ~ (file.size - file.fptr > SectorSize)
      /\ pc' = "put" /\ file' = Sought /\ left' = left
      /\ UNCHANGED <<chip, queue, erased, mounted, winsect, win, wflag, formatting, kept, early>>
  BY DEF SeekEnd, Ahead, disk, memory, fs
<1>3. /\ mounted /\ ~ erased /\ left # <<>> /\ left \in Seq(Seq(STRING) \ {<<>>})
      /\ FileTyped(file) /\ SeekTyped(file) /\ DiskTyped(Ram)
  BY <1>1, <1>2 DEF Phased, Typed
<1>4. /\ file.fptr \in Nat /\ file.size \in Nat /\ file.size > 0 /\ file.sect = 0 /\ ~ file.modified /\ ~ file.dirty
      /\ file.dirSect \in Dirs /\ file.clust \in Link /\ file.sclust \in Link
  BY <1>2, <1>3 DEF SeekTyped, FileTyped
<1>5. file.clust # Eoc
  <2>1. SUFFICES ASSUME file.clust = Eoc PROVE FALSE
    OBVIOUS
  <2>2. file.fptr = 0 /\ file.size = SectorSize * (LastCluster - 1) + 1
    BY <1>3, <2>1 DEF SeekTyped, Huge
  <2>3. ASSUME NEW S \in Nat, NEW L \in Nat, L >= 2 PROVE S * (L - 1) + 1 > S
    <3>1. S * (L - 1) = S + S * (L - 2) /\ S * (L - 2) >= 0
      BY <2>3
    <3> QED BY <2>3, <3>1
  <2> QED BY <1>2, <2>2, <2>3, ClusterNumbers
<1>6. file.clust \in Cluster /\ file.sclust \in Cluster
  BY <1>2, <1>3, <1>4, <1>5, ClusterNumbers DEF SeekTyped
<1>7. Ram' = Ram /\ Windowed' /\ mounted' \in BOOLEAN /\ wflag' \in BOOLEAN /\ winsect' \in Sector
  BY <1>2, WindowKept
<1>8. PICK s, b : /\ file' = [dirSect |-> file.dirSect, sclust |-> file.sclust, size |-> file.size, fptr |-> file.size,
                             clust |-> file.clust, sect |-> s, buf |-> b, dirty |-> FALSE, modified |-> FALSE]
                  /\ \/ s = 0 /\ file.size % SectorSize = 0
                     \/ s = file.clust /\ b = chip[Data(file.clust)]
  <2>1. CASE file.size % SectorSize = 0
    <3>1. file' = [dirSect |-> file.dirSect, sclust |-> file.sclust, size |-> file.size, fptr |-> file.size,
                   clust |-> file.clust, sect |-> 0, buf |-> file.buf, dirty |-> FALSE, modified |-> FALSE]
      BY <1>2, <1>3, <1>4, <2>1 DEF Sought, FileTyped
    <3> QED BY <2>1, <3>1
  <2>2. CASE file.size % SectorSize # 0
    <3>1. file' = [dirSect |-> file.dirSect, sclust |-> file.sclust, size |-> file.size, fptr |-> file.size,
                   clust |-> file.clust, sect |-> file.clust, buf |-> chip[Data(file.clust)], dirty |-> FALSE, modified |-> FALSE]
      BY <1>2, <1>3, <1>4, <2>2 DEF Sought, FileTyped
    <3> QED BY <3>1
  <2> QED BY <2>1, <2>2
<1>9. FileTyped(file')
  BY <1>3, <1>6, <1>8, ClusterNumbers DEF FileTyped
<1>10. PutTyped(file')
  BY <1>4, <1>6, <1>8, ClusterNumbers DEF PutTyped
<1>11. ASSUME ~ formatting PROVE PutAt(Ram, file', kept)
  <2>1. SeekAt(Ram, file, kept)
    BY <1>1, <1>2, <1>11 DEF Coherence
  <2>2. PICK k \in 1 .. Root : file.dirSect = Dir(k) /\ Ram[Dir(k)].kind = "file"
    BY <2>1 DEF SeekAt
  <2>3. EntryFits(F, kept, file.sclust, file.size)
    BY <1>6, <2>1 DEF SeekAt
  <2>4. PICK n \in Nat : file.fptr = Upto(n, 0) /\ file.fptr < file.size /\ Leads(F, file.sclust, n, file.clust)
    BY <1>6, <2>1 DEF SeekAt
  <2>5. PICK r : r = file.size - file.fptr
    OBVIOUS
  <2>6. r \in 1 .. SectorSize /\ file.size = Upto(n, r)
    <3>1. r \in 1 .. SectorSize /\ r \in Nat /\ file.size = file.fptr + r
      BY <1>2, <1>4, <2>4, <2>5, ClusterNumbers
    <3> QED BY <2>4, <3>1, UptoNumber
  <2>7. r < SectorSize => file.size % SectorSize # 0
    BY <2>6, UptoRest
  <2>8. r < SectorSize => file'.sect = file'.clust
    BY <1>8, <2>7
  <2>9. file'.fptr = Upto(n, r) /\ file'.sclust = file.sclust /\ file'.clust = file.clust /\ file'.size = file'.fptr
    BY <1>8, <2>6
  <2>10. AtEnd(F, file')
    BY <2>4, <2>6, <2>8, <2>9 DEF AtEnd
  <2>11. chip[Data(file.clust)] = Ram[Data(file.clust)]
    <3>1. Ram = chip \/ (winsect \in System /\ winsect \in Sector /\ Ram = With(chip, winsect, win))
      BY <1>1, <1>2 DEF Ram, Done, Windowed, Typed
    <3>2. DiskTyped(chip)
      BY <1>1 DEF Typed
    <3>3. winsect \in System => Data(file.clust) # winsect
      BY <1>6, Sectors DEF System
    <3>4. Data(file.clust) \in Sector
      BY <1>6, Sectors
    <3> QED BY <3>1, <3>2, <3>3, <3>4 DEF With, DiskTyped
  <2>12. Buffered(Ram, file', kept)
    <3>1. SUFFICES ASSUME file'.sect # 0
          PROVE  /\ file'.sect = file'.clust
                 /\ \A i \in 1 .. kept[file'.sect] : file'.buf[i] = Ram[Data(file'.sect)][i]
                 /\ ~ file'.dirty => file'.buf = Ram[Data(file'.sect)]
      BY DEF Buffered
    <3>2. file'.sect = file.clust /\ file'.clust = file.clust /\ file'.buf = chip[Data(file.clust)]
      BY <1>8, <3>1
    <3> QED BY <2>11, <3>2
  <2>13. file'.dirSect = Dir(k) /\ EntryFits(F, kept, file'.sclust, file'.size)
    BY <1>8, <2>2, <2>3
  <2> QED BY <2>2, <2>10, <2>12, <2>13 DEF PutAt
<1>12. Fruitful => Fruitful'
  <2>1. file'.clust = file.clust
    BY <1>8
  <2> QED BY <1>7, <2>1 DEF Fruitful
<1>13. Phased'
  BY <1>1, <1>2, <1>3, <1>12 DEF Phased
<1> QED BY <1>2, <1>3, <1>7, <1>9, <1>10, <1>11, <1>13, QuietSteps

\* How much of a string is taken, and what is left.
LEMMA TakenStrings ==
  ASSUME file.fptr \in Nat, left # <<>>, left \in Seq(Seq(STRING) \ {<<>>})
  PROVE  /\ Taken \in Nat /\ Taken >= 1 /\ Taken + (file.fptr % SectorSize) <= SectorSize
         /\ Taken \in 1 .. SectorSize
         /\ Rest \in Seq(Seq(STRING) \ {<<>>}) /\ Tail(left) \in Seq(Seq(STRING) \ {<<>>})
         /\ Taken # Len(Head(left)) => Rest # <<>>
<1> DEFINE Nonempty == Seq(STRING) \ {<<>>}
<1> HIDE DEF Nonempty
<1>1. left \in Seq(Nonempty) /\ Head(left) \in Nonempty /\ Tail(left) \in Seq(Nonempty)
  <2>1. left \in Seq(Nonempty)
    BY DEF Nonempty
  <2> QED BY <2>1
<1>2. PICK h : h = Head(left) /\ h \in Seq(STRING) /\ h # <<>>
  BY <1>1 DEF Nonempty
<1>3. Len(h) \in Nat /\ Len(h) >= 1
  BY <1>2
<1>4. file.fptr % SectorSize \in 0 .. SectorSize - 1
  BY InSector
<1>5. PICK m : m = file.fptr % SectorSize /\ m \in 0 .. SectorSize - 1
  BY <1>4
<1>6. Taken = (IF SectorSize - m < Len(h) THEN SectorSize - m ELSE Len(h))
  BY <1>2, <1>5, Zenon DEF Taken, Shorter, Room
<1>10. ASSUME NEW S \in Nat, NEW q \in 0 .. S - 1, NEW l \in Nat, l >= 1, NEW t,
              t = IF S - q < l THEN S - q ELSE l
       PROVE  t \in Nat /\ t >= 1 /\ t + q <= S /\ t <= l /\ t \in 1 .. S
  BY <1>10
<1>7. Taken \in Nat /\ Taken >= 1 /\ Taken + m <= SectorSize /\ Taken <= Len(h) /\ Taken \in 1 .. SectorSize
  <2>1. SectorSize \in Nat
    BY ClusterNumbers
  <2> QED BY <1>3, <1>5, <1>6, <1>10, <2>1
<1>8. CASE Taken = Len(h)
  <2>1. Rest = Tail(left)
    BY <1>2, <1>8 DEF Rest
  <2>2. Rest \in Seq(Seq(STRING) \ {<<>>}) /\ Tail(left) \in Seq(Seq(STRING) \ {<<>>})
    BY <1>1, <2>1 DEF Nonempty
  <2>3. Taken + (file.fptr % SectorSize) <= SectorSize
    BY <1>5, <1>7
  <2> QED BY <1>2, <1>7, <1>8, <2>2, <2>3
<1>9. CASE Taken # Len(h)
  <2> DEFINE tail == SubSeq(h, Taken + 1, Len(h))
  <2>1. tail \in Seq(STRING) /\ Len(tail) = Len(h) - Taken
    <3>1. Taken + 1 \in 1 .. Len(h) + 1 /\ Len(h) \in (Taken + 1) - 1 .. Len(h) /\ Len(h) - (Taken + 1) + 1 = Len(h) - Taken
      BY <1>3, <1>7
    <3>2. tail \in Seq(STRING) /\ Len(tail) = Len(h) - (Taken + 1) + 1
      BY <1>2, <3>1, SubSeqProperties
    <3> QED BY <3>1, <3>2
  <2>2. tail # <<>>
    <3> HIDE DEF tail
    <3>1. Len(tail) # 0
      BY <1>3, <1>7, <1>9, <2>1
    <3> QED BY <3>1
  <2> HIDE DEF tail
  <2>3. tail \in Nonempty
    BY <2>1, <2>2 DEF Nonempty
  <2>4. Rest = <<tail>> \o Tail(left)
    BY <1>2, <1>9 DEF Rest, tail
  <2>5. Rest \in Seq(Nonempty) /\ Rest # <<>>
    BY <1>1, <2>3, <2>4
  <2>6. Rest \in Seq(Seq(STRING) \ {<<>>}) /\ Tail(left) \in Seq(Seq(STRING) \ {<<>>})
    BY <1>1, <2>5 DEF Nonempty
  <2>7. Taken + (file.fptr % SectorSize) <= SectorSize
    BY <1>5, <1>7
  <2> QED BY <1>2, <1>7, <2>5, <2>6, <2>7
<1> QED BY <1>8, <1>9

\* What is in the buffer before the string stays.
LEMMA FilledBehind ==
  ASSUME file.fptr \in Nat, NEW b, NEW i \in 1 .. SectorSize, i <= file.fptr % SectorSize
  PROVE  Filled(b)[i] = b[i]
<1>1. file.fptr % SectorSize \in Nat
  BY InSector
<1>2. i - (file.fptr % SectorSize) \notin 1 .. Taken
  BY <1>1
<1> QED BY <1>2 DEF Filled

\* The file with cluster a as its first.
Started(a) == [file EXCEPT !.sclust = a]

\* The file that has taken it.
HasTaken(f, a, c, b) ==
  /\ f.dirSect = file.dirSect /\ f.sclust = a /\ f.clust = c /\ f.sect = c
  /\ f.buf = Filled(b) /\ f.dirty = TRUE
  /\ f.fptr = file.fptr + Taken /\ f.fptr \in Nat /\ f.fptr > 0
  /\ file.fptr = file.size => f.size = f.fptr
  /\ f.modified = (file.modified \/ Taken = Len(Head(left)))
  /\ FileTyped(f)

\* The file when it has taken a part of the string.
LEMMA PuttingFile ==
  ASSUME FileTyped(file), left # <<>>, left \in Seq(Seq(STRING) \ {<<>>}),
         NEW a \in Link, NEW c \in Cluster, NEW b
  PROVE  HasTaken(Putting(Started(a), c, b), a, c, b)
<1> SUFFICES ASSUME NEW f, f = Putting(Started(a), c, b) PROVE HasTaken(f, a, c, b)
  OBVIOUS
<1>1. Taken \in Nat /\ Taken >= 1 /\ file.fptr \in Nat /\ file.size \in Nat
  BY TakenStrings DEF FileTyped
<1>2. f = [dirSect |-> file.dirSect, sclust |-> a,
           size |-> IF file.fptr + Taken > file.size THEN file.fptr + Taken ELSE file.size,
           fptr |-> file.fptr + Taken, clust |-> c, sect |-> c, buf |-> Filled(b), dirty |-> TRUE,
           modified |-> (file.modified \/ Taken = Len(Head(left)))]
  BY DEF Putting, FileTyped, Started
<1>3. /\ f.dirSect = file.dirSect /\ f.sclust = a /\ f.clust = c /\ f.sect = c
      /\ f.buf = Filled(b) /\ f.dirty = TRUE
      /\ f.fptr = file.fptr + Taken
      /\ f.size = IF file.fptr + Taken > file.size THEN file.fptr + Taken ELSE file.size
  BY <1>2
<1>4. f.modified = (file.modified \/ Taken = Len(Head(left)))
  BY <1>2
<1>5. f = [dirSect |-> f.dirSect, sclust |-> f.sclust, size |-> f.size, fptr |-> f.fptr,
           clust |-> f.clust, sect |-> f.sect, buf |-> f.buf, dirty |-> f.dirty, modified |-> f.modified]
  BY <1>2
<1>6. f.fptr \in Nat /\ f.fptr > 0 /\ f.size \in Nat /\ (file.fptr = file.size => f.size = f.fptr)
  BY <1>1, <1>3
<1>7. f.dirty \in BOOLEAN /\ f.modified \in BOOLEAN
  <2>1. file.modified \in BOOLEAN
    BY DEF FileTyped
  <2> QED BY <1>3, <1>4, <2>1
<1>8. f.dirSect \in Sector
  BY <1>3 DEF FileTyped
<1>9. FileTyped(f)
  BY <1>3, <1>5, <1>6, <1>7, <1>8, ClusterNumbers DEF FileTyped
<1> QED BY <1>3, <1>4, <1>6, <1>9 DEF HasTaken

\* f_puts is done.
LEMMA PutDoneStep == ASSUME FatInv, PutDone PROVE FatInv'
<1>1. /\ Typed /\ Windowed /\ Phased /\ Coherence
  BY DEF FatInv
<1>2. /\ pc = "put" /\ queue = <<>> /\ left = <<>> /\ pc' = "close"
      /\ UNCHANGED <<chip, queue, erased, mounted, winsect, win, wflag, file, left, formatting, kept, early>>
  BY DEF PutDone, disk, memory, fs
<1>3. Ram' = Ram /\ Windowed' /\ mounted' \in BOOLEAN /\ wflag' \in BOOLEAN /\ winsect' \in Sector
  BY <1>2, WindowKept
<1>4. WritesFile(pc, file)
  BY <1>2 DEF WritesFile
<1>5. PutTyped(file) /\ (~ formatting => PutAt(Ram, file, kept)) /\ FileTyped(file)
  BY <1>1, <1>4 DEF Typed, Coherence
<1>6. Phased'
  BY <1>1, <1>2 DEF Phased
<1>7. left' \in Seq(Seq(STRING) \ {<<>>})
  BY <1>1, <1>2 DEF Typed
<1> QED BY <1>2, <1>3, <1>5, <1>6, <1>7, QuietSteps

\* A new position within the sector or at the beginning of the next: n links
\* lead to it, and no byte that is recorded lies behind the end of the file.
LEMMA PutAtEnd ==
  ASSUME NEW G, NEW kp, KeptTyped(kp), NEW k \in 1 .. Root, G[Dir(k)].kind = "file",
         NEW f, f.dirSect = Dir(k), f.sect = f.clust, f.size = f.fptr, f.dirty,
         NEW n \in Nat, NEW r \in 1 .. SectorSize, f.fptr = Upto(n, r),
         Leads(G[Fat].next, f.sclust, n, f.clust),
         EntryFits(G[Fat].next, kp, f.sclust, f.size),
         \A i \in 1 .. kp[f.clust] : f.buf[i] = G[Data(f.clust)][i]
  PROVE  PutAt(G, f, kp)
<1>1. AtEnd(G[Fat].next, f)
  BY DEF AtEnd
<1>2. Buffered(G, f, kp)
  BY DEF Buffered
<1> QED BY <1>1, <1>2 DEF PutAt

\* f_write in the middle of a sector.
LEMMA PutInsideStep == ASSUME FatInv, PutInside PROVE FatInv'
<1>1. /\ Typed /\ Windowed /\ Phased /\ Coherence
  BY DEF FatInv
<1> DEFINE F == Ram[Fat].next
           m == file.fptr % SectorSize
<1>2. /\ pc = "put" /\ queue = <<>> /\ queue' = <<>> /\ left # <<>> /\ m # 0
      /\ file' = Putting(file, file.clust, file.buf) /\ left' = Rest
      /\ UNCHANGED <<chip, queue, erased, pc, mounted, winsect, win, wflag, formatting, kept, early>>
  BY DEF PutInside, AtBoundary, disk, memory, fs
<1>3. /\ mounted /\ left \in Seq(Seq(STRING) \ {<<>>}) /\ FileTyped(file) /\ PutTyped(file) /\ KeptTyped(kept)
  BY <1>1, <1>2 DEF Phased, Typed, WritesFile
<1>4. file.fptr \in Nat /\ file.size \in Nat /\ file.clust \in Link /\ file.sclust \in Link
  BY <1>3 DEF FileTyped
<1>5. file.fptr # 0
  <2>1. 0 % SectorSize = 0
    BY ClusterNumbers
  <2> QED BY <1>2, <2>1
<1>6. file.clust \in Cluster /\ file.sclust # Eoc
  BY <1>3, <1>4, <1>5, ClusterNumbers DEF PutTyped
<1>7. file = Started(file.sclust)
  BY <1>3 DEF FileTyped, Started
<1>8. /\ file'.dirSect = file.dirSect /\ file'.sclust = file.sclust /\ file'.clust = file.clust /\ file'.sect = file.clust
      /\ file'.buf = Filled(file.buf) /\ file'.dirty = TRUE
      /\ file'.fptr = file.fptr + Taken /\ file'.fptr \in Nat /\ file'.fptr > 0
      /\ file.fptr = file.size => file'.size = file'.fptr
      /\ file'.modified = (file.modified \/ Taken = Len(Head(left)))
      /\ FileTyped(file')
  <2>1. file' = Putting(Started(file.sclust), file.clust, file.buf)
    BY <1>2, <1>7
  <2>2. HasTaken(Putting(Started(file.sclust), file.clust, file.buf), file.sclust, file.clust, file.buf)
    BY <1>2, <1>3, <1>4, <1>6, PuttingFile
  <2>3. HasTaken(file', file.sclust, file.clust, file.buf)
    BY <2>1, <2>2
  <2> QED BY <2>3 DEF HasTaken
<1>9. Ram' = Ram /\ Windowed' /\ mounted' \in BOOLEAN /\ wflag' \in BOOLEAN /\ winsect' \in Sector
  BY <1>2, WindowKept
<1>10. PutTyped(file')
  BY <1>3, <1>6, <1>8, ClusterNumbers DEF PutTyped
<1>11. ASSUME ~ formatting PROVE PutAt(Ram, file', kept)
  <2>1. PutAt(Ram, file, kept)
    BY <1>1, <1>2, <1>11 DEF Coherence, WritesFile
  <2>2. PICK k \in 1 .. Root : file.dirSect = Dir(k) /\ Ram[Dir(k)].kind = "file"
    BY <2>1 DEF PutAt
  <2>3. EntryFits(F, kept, file.sclust, file.size)
    BY <2>1 DEF PutAt
  <2>4. ~ NoRoom(F, file)
    <3>1. \A n \in Nat : Upto(n + 1, 0) % SectorSize = 0
      BY UptoRest, ClusterNumbers
    <3> QED BY <1>2, <1>5, <3>1 DEF NoRoom
  <2>5. AtEnd(F, file)
    BY <2>1, <2>4 DEF PutAt
  <2>6. PICK n \in Nat, r \in 1 .. SectorSize :
          /\ file.fptr = Upto(n, r) /\ Leads(F, file.sclust, n, file.clust)
          /\ r < SectorSize => file.sect = file.clust
    BY <1>5, <2>5 DEF AtEnd
  <2>7. r < SectorSize /\ m = r /\ file.sect = file.clust /\ r \in Nat
    BY <1>2, <2>6, UptoRest, ClusterNumbers
  <2>8. r + Taken \in 1 .. SectorSize /\ Taken \in Nat
    <3>1. Taken \in Nat /\ Taken >= 1 /\ Taken + m <= SectorSize
      BY <1>2, <1>3, <1>4, TakenStrings
    <3> HIDE DEF m
    <3> QED BY <2>7, <3>1, ClusterNumbers
  <2>9. file'.fptr = Upto(n, r + Taken)
    <3>1. Upto(n, r) = Upto(n, 0) + r /\ Upto(n, 0) \in Nat
      BY <2>7, UptoNumber, UptoZero
    <3>2. Upto(n, r + Taken) = Upto(n, 0) + (r + Taken)
      BY <2>8, UptoNumber
    <3>3. file'.fptr = Upto(n, r) + Taken
      BY <1>8, <2>6
    <3> QED BY <2>7, <2>8, <3>1, <3>2, <3>3
  <2>10. file.fptr = file.size
    BY <2>5 DEF AtEnd
  <2>11. file.size <= file'.fptr /\ file'.size = file'.fptr
    BY <1>4, <1>8, <2>8, <2>10
  <2>12. file.sclust \in Cluster
    BY <2>6, LeadsCluster
  <2>13. EntryFits(F, kept, file'.sclust, file'.size)
    BY <1>3, <1>8, <2>3, <2>11, <2>12, FitsLonger
  <2>14. ASSUME NEW i \in 1 .. kept[file'.clust] PROVE file'.buf[i] = Ram[Data(file'.clust)][i]
    <3>1. kept[file.clust] \in Nat /\ kept[file.clust] <= SectorSize
      BY <1>3, <1>6, ClusterNumbers DEF KeptTyped
    <3>2. i \in 1 .. SectorSize /\ i \in Nat /\ kept[file.clust] > 0 /\ i <= kept[file.clust]
      BY <1>8, <2>14, <3>1, ClusterNumbers
    <3>3. Bounded(F, kept, file.sclust, file.size)
      BY <2>3, <2>12, ClusterNumbers DEF EntryFits
    <3>4. Upto(n, kept[file.clust]) <= Upto(n, r)
      BY <1>6, <2>6, <2>10, <3>2, <3>3 DEF Bounded
    <3>5. kept[file.clust] <= r
      <4>1. Upto(n, kept[file.clust]) = Upto(n, 0) + kept[file.clust] /\ Upto(n, r) = Upto(n, 0) + r /\ Upto(n, 0) \in Nat
        BY <2>7, <3>1, UptoNumber
      <4> QED BY <2>7, <3>1, <3>4, <4>1
    <3>6. Filled(file.buf)[i] = file.buf[i]
      BY <1>4, <2>7, <3>1, <3>2, <3>5, FilledBehind
    <3>7. file.buf[i] = Ram[Data(file.clust)][i]
      <4>1. Buffered(Ram, file, kept) /\ file.sect # 0
        BY <1>6, <2>1, <2>7, ClusterNumbers DEF PutAt
      <4> QED BY <1>8, <2>7, <2>14, <4>1 DEF Buffered
    <3> QED BY <1>8, <3>6, <3>7
  <2>15. Leads(F, file'.sclust, n, file'.clust) /\ file'.dirSect = Dir(k) /\ file'.sect = file'.clust /\ file'.dirty
    BY <1>8, <2>2, <2>6
  <2> HIDE DEF F, m
  <2> QED BY <1>3, <2>2, <2>8, <2>9, <2>11, <2>13, <2>14, <2>15, PutAtEnd DEF F
<1>12. Phased'
  <2>1. wflag' /\ ~ file'.modified => left' # <<>> /\ Fruitful'
    <3>1. SUFFICES ASSUME wflag, ~ file'.modified PROVE left' # <<>> /\ Fruitful'
      BY <1>2
    <3>2. ~ file.modified /\ Taken # Len(Head(left))
      BY <1>8, <3>1
    <3>3. Fruitful /\ Rest # <<>>
      BY <1>1, <1>2, <1>3, <1>4, <3>1, <3>2, TakenStrings DEF Phased
    <3> QED BY <1>2, <1>8, <1>9, <3>3 DEF Fruitful
  <2> QED BY <1>2, <1>3, <2>1 DEF Phased
<1>13. left' \in Seq(Seq(STRING) \ {<<>>})
  BY <1>2, <1>3, <1>4, TakenStrings
<1>14. pc' # "format" /\ pc' # "seek"
  BY <1>2
<1> QED BY <1>2, <1>8, <1>9, <1>10, <1>11, <1>12, <1>13, <1>14, QuietSteps

\* The disk, when the content b of a data sector is queued.
LEMMA QueueData ==
  ASSUME Typed, queue = <<>>, chip' = chip, NEW c \in Cluster, NEW b, queue' = <<Write(Data(c), b)>>
  PROVE  /\ Done = chip /\ DiskTyped(Done') /\ Done'[Data(c)] = b
         /\ \A t \in Sector : t # Data(c) => Done'[t] = chip[t]
         /\ queue' # <<>> /\ Head(queue').sect = Data(c) /\ Head(queue').content = b /\ Data(c) \in Sector
         /\ queue' = <<Write(Head(queue').sect, Head(queue').content)>>
<1>1. queue' # <<>> /\ Head(queue').sect = Data(c) /\ Head(queue').content = b
  BY DEF Write
<1>2. Data(c) \in Sector /\ SectorTyped(Data(c), b)
  BY Sectors DEF SectorTyped
<1>3. Done' = With(chip, Data(c), b) /\ DiskTyped(chip) /\ Done = chip
  BY <1>1 DEF Done, Typed
<1>4. queue' = <<Write(Head(queue').sect, Head(queue').content)>>
  BY <1>1
<1> QED BY <1>1, <1>2, <1>3, <1>4, Writing

\* The window stays: so does what is in RAM of the other sectors.
LEMMA QueueDataOnly ==
  ASSUME Typed, Windowed, queue = <<>>, UNCHANGED <<chip, mounted, winsect, win, wflag>>,
         NEW c \in Cluster, NEW b, queue' = <<Write(Data(c), b)>>
  PROVE  /\ DiskTyped(Ram') /\ Ram'[Data(c)] = b
         /\ \A t \in Sector : t # Data(c) => Ram'[t] = Ram[t]
         /\ Windowed'
<1>1. /\ Done = chip /\ DiskTyped(Done') /\ Done'[Data(c)] = b /\ Data(c) \in Sector
      /\ \A t \in Sector : t # Data(c) => Done'[t] = chip[t]
  BY QueueData
<1>2. \A t \in System : t \in Sector /\ t # Data(c)
  BY Sectors DEF System, Dirs
<1>3. DiskTyped(Ram) /\ DiskTyped(chip) /\ winsect \in Sector /\ wflag \in BOOLEAN
  BY DEF Typed
<1>4. CASE ~ wflag
  <2>1. Ram = chip /\ Ram' = Done'
    BY <1>1, <1>4 DEF Ram
  <2>2. Windowed'
    BY <1>1, <1>2, <1>4, <2>1 DEF Windowed
  <2> QED BY <1>1, <2>1, <2>2
<1>5. CASE wflag
  <2>1. winsect \in System /\ win = Ram[winsect] /\ mounted /\ winsect \in Sector /\ winsect # Data(c)
    BY <1>2, <1>5 DEF Windowed
  <2>2. SectorTyped(winsect, win)
    BY <1>3, <2>1 DEF DiskTyped
  <2>3. Ram = With(chip, winsect, win) /\ Ram' = With(Done', winsect, win)
    BY <1>1, <1>5 DEF Ram
  <2>4. DiskTyped(Ram') /\ Ram'[winsect] = win /\ \A t \in Sector : t # winsect => Ram'[t] = Done'[t]
    <3>1. PICK G : G = Done' /\ DiskTyped(G)
      BY <1>1
    <3>2. PICK H : H = Ram' /\ H = With(G, winsect, win)
      BY <2>3, <3>1
    <3>3. DiskTyped(H) /\ H[winsect] = win /\ \A t \in Sector : t # winsect => H[t] = G[t]
      BY <2>1, <2>2, <3>1, <3>2, Writing
    <3> QED BY <3>1, <3>2, <3>3
  <2>5. Ram[winsect] = win /\ \A t \in Sector : t # winsect => Ram[t] = chip[t]
    BY <1>3, <2>1, <2>2, <2>3, Writing
  <2>6. \A t \in Sector : t # Data(c) => Ram'[t] = Ram[t]
    BY <1>1, <2>4, <2>5
  <2>7. Windowed'
    BY <2>1, <2>4 DEF Windowed
  <2> QED BY <1>1, <2>1, <2>4, <2>6, <2>7
<1> QED BY <1>3, <1>4, <1>5

\* What is queued has the recorded bytes of its sector.
LEMMA QueueKept ==
  ASSUME Typed, Windowed, queue = <<>>, chip' = chip, kept' = kept, formatting' = formatting,
         file.sect \in Cluster, queue' = <<Write(Data(file.sect), file.buf)>>,
         ~ formatting => Buffered(Ram, file, kept)
  PROVE  TextNotOverwritten' /\ Ram[Data(file.sect)] = chip[Data(file.sect)]
<1>1. Head(queue').sect = Data(file.sect) /\ Head(queue').content = file.buf /\ Done = chip /\ Data(file.sect) \in Sector
  BY QueueData
<1>2. Ram[Data(file.sect)] = chip[Data(file.sect)]
  <2>1. DiskTyped(chip) /\ winsect \in Sector
    BY DEF Typed
  <2>2. wflag => winsect \in System
    BY DEF Windowed
  <2>3. \A t \in System : t # Data(file.sect)
    BY Sectors DEF System
  <2>4. Ram = chip \/ (wflag /\ Ram = With(chip, winsect, win))
    BY <1>1 DEF Ram
  <2> QED BY <1>1, <2>1, <2>2, <2>3, <2>4 DEF With, DiskTyped
<1>3. file.sect # 0
  BY ClusterNumbers
<1>4. ASSUME ~ formatting, NEW c \in Cluster, Head(queue').sect = Data(c), NEW i \in 1 .. kept[c]
      PROVE  Head(queue').content[i] = chip[Data(c)][i]
  <2>1. c = file.sect
    BY <1>1, <1>4, Sectors
  <2>2. file.buf[i] = Ram[Data(file.sect)][i]
    BY <1>3, <1>4, <2>1 DEF Buffered
  <2> QED BY <1>1, <1>2, <2>1, <2>2
<1> QED BY <1>2, <1>4 DEF TextNotOverwritten

\* Coherence does not look at the data sectors.
LEMMA CoherentData ==
  ASSUME NEW G, NEW H, NEW kp, Coherent(G, kp), NEW c, \A t \in Sector : t # Data(c) => H[t] = G[t]
  PROVE  Coherent(H, kp)
<1>1. H[Fat] = G[Fat] /\ \A k \in 1 .. Root : H[Dir(k)] = G[Dir(k)]
  BY Sectors
<1> QED BY <1>1, CoherentElsewhere

\* f_close writes the buffer.
LEMMA CloseDataStep == ASSUME FatInv, CloseData PROVE FatInv'
<1>1. /\ Typed /\ Windowed /\ Phased /\ Coherence
  BY DEF FatInv
<1>2. /\ pc = "close" /\ pc' = "close" /\ queue = <<>> /\ file.modified /\ file.dirty
      /\ queue' = <<Write(Data(file.sect), file.buf)>>
      /\ file' = [file EXCEPT !.dirty = FALSE]
      /\ UNCHANGED <<chip, erased, mounted, winsect, win, wflag, left, formatting, kept, early>>
  BY DEF CloseData, fs, memory
<1>3. /\ FileTyped(file) /\ PutTyped(file) /\ left \in Seq(Seq(STRING) \ {<<>>}) /\ ~ erased
      /\ mounted \in BOOLEAN /\ wflag \in BOOLEAN /\ winsect \in Sector /\ mounted
      /\ (~ formatting => PutAt(Ram, file, kept) /\ Coherent(chip, kept) /\ Coherent(Ram, kept))
  BY <1>1, <1>2 DEF Typed, WritesFile, Coherence, Phased
<1>4. PICK c \in Cluster : c = file.sect
  BY <1>2, <1>3 DEF FileTyped
<1>5. /\ Done = chip /\ DiskTyped(Done') /\ \A t \in Sector : t # Data(c) => Done'[t] = chip[t]
      /\ queue' # <<>> /\ Head(queue').sect = Data(c) /\ Head(queue').content = file.buf /\ Data(c) \in Sector
      /\ queue' = <<Write(Head(queue').sect, Head(queue').content)>>
  BY <1>1, <1>2, <1>4, QueueData
<1>6. /\ DiskTyped(Ram') /\ Ram'[Data(c)] = file.buf
      /\ \A t \in Sector : t # Data(c) => Ram'[t] = Ram[t]
      /\ Windowed'
  BY <1>1, <1>2, <1>4, QueueDataOnly
<1>7. file' = [dirSect |-> file.dirSect, sclust |-> file.sclust, size |-> file.size, fptr |-> file.fptr,
               clust |-> file.clust, sect |-> file.sect, buf |-> file.buf, dirty |-> FALSE, modified |-> TRUE]
  <2>1. file.modified = TRUE
    BY <1>2, <1>3 DEF FileTyped
  <2> QED BY <1>2, <1>3, <2>1 DEF FileTyped
<1>8. FileTyped(file')
  BY <1>3, <1>7 DEF FileTyped
<1>9. PutTyped(file')
  BY <1>3, <1>7 DEF PutTyped
<1>10. TextNotOverwritten'
  <2>1. ~ formatting => Buffered(Ram, file, kept)
    BY <1>3 DEF PutAt
  <2> QED BY <1>1, <1>2, <1>4, <2>1, QueueKept
<1>11. ~ formatting => Coherent(Done', kept) /\ Coherent(Ram', kept)
  BY <1>3, <1>5, <1>6, CoherentData
<1>12. ASSUME ~ formatting PROVE PutAt(Ram', file', kept)
  <2>1. PICK k \in 1 .. Root : file.dirSect = Dir(k) /\ Ram[Dir(k)].kind = "file"
    BY <1>3, <1>12 DEF PutAt
  <2>2. Ram'[Dir(k)] = Ram[Dir(k)] /\ Ram'[Fat] = Ram[Fat]
    BY <1>6, Sectors
  <2>3. /\ file'.dirSect = file.dirSect /\ file'.sclust = file.sclust /\ file'.size = file.size /\ file'.fptr = file.fptr
        /\ file'.clust = file.clust /\ file'.sect = file.sect /\ file'.buf = file.buf /\ file'.dirty = FALSE
    BY <1>7
  <2>4. AtEnd(Ram[Fat].next, file) => AtEnd(Ram'[Fat].next, file')
    BY <2>2, <2>3 DEF AtEnd
  <2>5. NoRoom(Ram[Fat].next, file) => NoRoom(Ram'[Fat].next, file')
    BY <2>2, <2>3 DEF NoRoom
  <2>6. Buffered(Ram', file', kept)
    <3>1. file.sect = file.clust
      BY <1>3, <1>4, <1>12, ClusterNumbers DEF PutAt, Buffered
    <3>2. file'.buf = Ram'[Data(file'.sect)]
      BY <1>4, <1>6, <2>3
    <3> QED BY <2>3, <3>1, <3>2 DEF Buffered
  <2>7. EntryFits(Ram'[Fat].next, kept, file'.sclust, file'.size)
    BY <1>3, <1>12, <2>2, <2>3 DEF PutAt
  <2>8. file'.dirSect = Dir(k) /\ Ram'[Dir(k)].kind = "file"
    BY <2>1, <2>2, <2>3
  <2>9. AtEnd(Ram[Fat].next, file) \/ NoRoom(Ram[Fat].next, file)
    BY <1>3, <1>12 DEF PutAt
  <2> QED BY <2>4, <2>5, <2>6, <2>7, <2>8, <2>9 DEF PutAt
<1>13. Phased'
  <2>1. file'.modified = TRUE
    BY <1>7
  <2> QED BY <1>2, <1>3, <1>5, <2>1 DEF Phased
<1>14. pc' # "format" /\ pc' # "seek"
  BY <1>2
<1>15. queue' # <<>> => Head(queue').sect \in Sector
  BY <1>5
<1> QED BY <1>2, <1>3, <1>5, <1>6, <1>8, <1>9, <1>10, <1>11, <1>12, <1>13, <1>14, <1>15, ProgramSteps

\* The sector before a boundary is queued when it was changed.
LEMMA PutWrites ==
  ASSUME FatInv, pc = "put", queue = <<>>, UNCHANGED <<chip, formatting, kept>>,
         queue' = IF file.dirty THEN <<Write(Data(file.sect), file.buf)>> ELSE <<>>
  PROVE  /\ Done = chip /\ DiskTyped(Done') /\ ~ erased
         /\ \A t \in Sector : t \notin Stores => Done'[t] = chip[t]
         /\ queue' # <<>> => Head(queue').sect \in Sector
         /\ queue' = <<>> \/ queue' = <<Write(Head(queue').sect, Head(queue').content)>>
         /\ ~ formatting => Coherent(Done', kept)
         /\ TextNotOverwritten'
<1>1. Typed /\ Windowed /\ Coherence
  BY DEF FatInv
<1>2. Done = chip /\ ~ erased /\ DiskTyped(chip) /\ FileTyped(file) /\ WritesFile(pc, file)
  BY <1>1 DEF Typed, Done, WritesFile
<1>3. ~ formatting => Coherent(chip, kept) /\ PutAt(Ram, file, kept)
  BY <1>1, <1>2 DEF Coherence
<1>4. CASE ~ file.dirty
  <2>1. queue' = <<>> /\ Done' = chip
    BY <1>4 DEF Done
  <2> QED BY <1>2, <1>3, <2>1 DEF TextNotOverwritten
<1>5. CASE file.dirty
  <2>1. file.sect \in Cluster /\ queue' = <<Write(Data(file.sect), file.buf)>>
    BY <1>2, <1>5 DEF FileTyped
  <2>2. /\ DiskTyped(Done') /\ Data(file.sect) \in Stores
        /\ \A t \in Sector : t # Data(file.sect) => Done'[t] = chip[t]
        /\ queue' # <<>> => Head(queue').sect \in Sector
        /\ queue' = <<Write(Head(queue').sect, Head(queue').content)>>
    BY <1>1, <2>1, QueueData, Sectors
  <2>3. TextNotOverwritten'
    BY <1>1, <1>3, <2>1, QueueKept DEF PutAt
  <2>4. ~ formatting => Coherent(Done', kept)
    BY <1>3, <2>2, CoherentData
  <2> QED BY <1>2, <2>2, <2>3, <2>4
<1> QED BY <1>4, <1>5

\* Cluster c is where the next bytes go: n links lead to it from cluster a,
\* and it has no recorded bytes.
Enters(F, kp, a, c) ==
  /\ kp[c] = 0
  /\ \E n \in Nat : file.fptr = Upto(n, 0) /\ Leads(F, a, n, c)
  /\ file.fptr = file.size
  /\ \A z \in Nat : z > 0 /\ file.fptr <= z => EntryFits(F, kp, a, z)

\* f_write takes a cluster at a boundary.
LEMMA PutEnters ==
  ASSUME FatInv, pc = "put", queue = <<>>, left # <<>>, file.fptr % SectorSize = 0,
         NEW a \in Cluster, NEW c \in Cluster, NEW b,
         file' = Putting(Started(a), c, b), left' = Rest, pc' = pc,
         queue' = IF file.dirty THEN <<Write(Data(file.sect), file.buf)>> ELSE <<>>,
         UNCHANGED <<chip, erased, mounted, winsect, formatting, kept, early>>,
         wflag' \in BOOLEAN, Windowed', DiskTyped(Ram'),
         ~ formatting => /\ Coherent(Ram', kept) /\ Enters(Ram'[Fat].next, kept, a, c)
                         /\ \A k \in 1 .. Root : Ram'[Dir(k)] = Ram[Dir(k)],
         wflag' /\ ~ file.modified => Ram'[Fat].next[c] # Free
  PROVE  FatInv'
<1>1. Typed /\ Phased /\ Coherence
  BY DEF FatInv
<1>2. /\ left \in Seq(Seq(STRING) \ {<<>>}) /\ FileTyped(file) /\ PutTyped(file) /\ KeptTyped(kept)
      /\ mounted /\ mounted \in BOOLEAN /\ winsect \in Sector
      /\ (~ formatting => PutAt(Ram, file, kept))
  BY <1>1 DEF Typed, WritesFile, Phased, Coherence
<1>3. a \in Link /\ file.fptr \in Nat
  BY <1>2, ClusterNumbers DEF FileTyped
<1>4. HasTaken(Putting(Started(a), c, b), a, c, b)
  BY <1>2, <1>3, PuttingFile
<1>5. HasTaken(file', a, c, b)
  BY <1>4
<1>6. /\ file'.dirSect = file.dirSect /\ file'.sclust = a /\ file'.clust = c /\ file'.sect = c
      /\ file'.dirty = TRUE
      /\ file'.fptr = file.fptr + Taken /\ file'.fptr \in Nat /\ file'.fptr > 0
      /\ file.fptr = file.size => file'.size = file'.fptr
      /\ file'.modified = (file.modified \/ Taken = Len(Head(left)))
      /\ FileTyped(file')
  BY <1>5 DEF HasTaken
<1>7. PutTyped(file')
  BY <1>2, <1>6, ClusterNumbers DEF PutTyped
<1>8. Taken \in 1 .. SectorSize /\ Rest \in Seq(Seq(STRING) \ {<<>>}) /\ (Taken # Len(Head(left)) => Rest # <<>>)
  BY <1>2, <1>3, TakenStrings
<1>9. ASSUME ~ formatting PROVE PutAt(Ram', file', kept)
  <2>1. PICK k \in 1 .. Root : file.dirSect = Dir(k) /\ Ram[Dir(k)].kind = "file"
    BY <1>2, <1>9 DEF PutAt
  <2>2. Enters(Ram'[Fat].next, kept, a, c)
    BY <1>9
  <2>3. PICK n \in Nat : file.fptr = Upto(n, 0) /\ Leads(Ram'[Fat].next, a, n, c)
    BY <2>2 DEF Enters
  <2>4. file'.fptr = Upto(n, Taken) /\ Taken \in Nat
    <3>1. Taken \in Nat
      BY <1>8, ClusterNumbers
    <3> QED BY <1>6, <2>3, <3>1, UptoNumber
  <2>5. file'.size = file'.fptr
    BY <1>6, <2>2 DEF Enters
  <2>6. EntryFits(Ram'[Fat].next, kept, file'.sclust, file'.size)
    BY <1>3, <1>6, <2>2, <2>4, <2>5 DEF Enters
  <2>7. \A i \in 1 .. kept[file'.clust] : file'.buf[i] = Ram'[Data(file'.clust)][i]
    <3>1. kept[file'.clust] = 0
      BY <1>6, <2>2 DEF Enters
    <3> QED BY <3>1
  <2>8. /\ Ram'[Dir(k)].kind = "file" /\ file'.dirSect = Dir(k) /\ file'.sect = file'.clust /\ file'.dirty
        /\ Leads(Ram'[Fat].next, file'.sclust, n, file'.clust)
    BY <1>6, <1>9, <2>1, <2>3
  <2> QED BY <1>2, <1>8, <2>4, <2>5, <2>6, <2>7, <2>8, PutAtEnd
<1>10. Phased'
  <2>1. wflag' /\ ~ file'.modified => left' # <<>> /\ Fruitful'
    <3>1. SUFFICES ASSUME wflag', ~ file'.modified PROVE left' # <<>> /\ Fruitful'
      OBVIOUS
    <3>2. ~ file.modified /\ Taken # Len(Head(left))
      BY <1>6, <3>1
    <3> QED BY <1>6, <1>8, <3>1, <3>2 DEF Fruitful
  <2>2. queue' = <<>> \/ queue' = <<Write(Head(queue').sect, Head(queue').content)>>
    BY PutWrites
  <2> QED BY <1>2, <2>1, <2>2 DEF Phased
<1>11. /\ DiskTyped(Done') /\ ~ erased
       /\ queue' # <<>> => Head(queue').sect \in Sector
       /\ ~ formatting => Coherent(Done', kept)
       /\ TextNotOverwritten'
  BY PutWrites
<1>12. pc' # "format" /\ pc' # "seek"
  OBVIOUS
<1> QED BY <1>2, <1>6, <1>7, <1>8, <1>9, <1>10, <1>11, <1>12, ProgramSteps

\* Where the chain stands at a boundary.
LEMMA BoundaryAt ==
  ASSUME Typed, pc = "put", queue = <<>>, file.fptr % SectorSize = 0,
         NEW G, DiskTyped(G), KeptTyped(kept), PutAt(G, file, kept)
  PROVE  \/ file.fptr = 0 /\ file.size = 0 /\ file.clust = 0 /\ file.sclust = 0
         \/ FreeIn(G[Fat].next) = {} /\ file.fptr = 0 /\ file.clust = 0 /\ file.sclust = 0
         \/ /\ FreeIn(G[Fat].next) = {} /\ file.fptr # 0 /\ file.clust \in Cluster
            /\ G[Fat].next[file.clust] = Eoc
         \/ /\ file.fptr # 0 /\ file.fptr = file.size /\ file.clust \in Cluster /\ file.sclust \in Cluster
            /\ G[Fat].next[file.clust] # Free
            /\ \E n \in Nat : file.fptr = Upto(n + 1, 0) /\ Leads(G[Fat].next, file.sclust, n, file.clust)
<1>1. /\ EntryFits(G[Fat].next, kept, file.sclust, file.size)
      /\ AtEnd(G[Fat].next, file) \/ NoRoom(G[Fat].next, file)
  BY DEF PutAt
<1>2. ASSUME NEW n \in Nat PROVE Upto(n + 1, 0) # 0
  <2>1. 0 \in Nat
    OBVIOUS
  <2>2. Upto(n + 1, 0) = Upto(n, 0) + SectorSize /\ Upto(n, 0) \in Nat
    BY <2>1, UptoNumber
  <2> QED BY <2>2, ClusterNumbers
<1>3. CASE NoRoom(G[Fat].next, file)
  BY <1>2, <1>3 DEF NoRoom
<1>4. CASE AtEnd(G[Fat].next, file)
  <2>1. CASE \E n \in Nat, r \in 1 .. SectorSize : file.fptr = Upto(n, r) /\ Leads(G[Fat].next, file.sclust, n, file.clust)
    <3>1. PICK n \in Nat, r \in 1 .. SectorSize : file.fptr = Upto(n, r) /\ Leads(G[Fat].next, file.sclust, n, file.clust)
      BY <2>1
    <3>2. r = SectorSize
      BY <3>1, UptoRest, ClusterNumbers
    <3>3. file.fptr = Upto(n + 1, 0) /\ file.fptr # 0
      BY <1>2, <3>1, <3>2, UptoRest
    <3>4. file.clust \in Cluster /\ file.sclust \in Cluster
      BY <3>1, LeadsCluster
    <3>5. Heads(G[Fat].next, file.sclust) /\ Links(G[Fat].next)
      BY <1>1, <3>4, Reading, ClusterNumbers DEF EntryFits
    <3>6. G[Fat].next[file.clust] # Free
      BY <3>1, <3>5, LeadsTaken
    <3> QED BY <1>4, <3>1, <3>3, <3>4, <3>6 DEF AtEnd
  <2>2. CASE file.size = 0 /\ file.clust = 0 /\ file.sclust = 0
    BY <1>4, <2>2 DEF AtEnd
  <2> QED BY <1>4, <2>1, <2>2 DEF AtEnd
<1> QED BY <1>1, <1>3, <1>4

\* The cluster create_chain takes at a boundary is the next of the chain.
LEMMA BoundaryEnters ==
  ASSUME Typed, pc = "put", queue = <<>>, file.fptr % SectorSize = 0,
         NEW G, DiskTyped(G), KeptTyped(kept), Coherent(G, kept), PutAt(G, file, kept),
         NEW c, c = (IF file.fptr = 0 THEN 0 ELSE file.clust),
         NEW d \in Cluster, NEW F,
         \/ c # 0 /\ G[Fat].next[c] \in Cluster /\ d = G[Fat].next[c] /\ F = G[Fat].next
         \/ CanStretch(G[Fat].next, d, c) /\ F = Stretched(G[Fat].next, d, c),
         NEW a, a = (IF file.sclust = 0 THEN d ELSE file.sclust)
  PROVE  Enters(F, kept, a, d)
<1> DEFINE O == G[Fat].next
<1>1. Links(O) /\ RecordedTaken(O, kept) /\ EntryFits(O, kept, file.sclust, file.size)
  BY Reading DEF PutAt, Coherent
<1>2. PICK kd : kd = kept[d] /\ kd \in 0 .. SectorSize /\ kd \in Nat
  BY ClusterNumbers DEF KeptTyped
<1>3. CanStretch(O, d, c) => kept[d] = 0 /\ FreeIn(O) # {}
  BY <1>1, <1>2 DEF RecordedTaken, CanStretch, FreeIn
<1>4. file.size \in Nat /\ file.fptr \in Nat
  BY DEF Typed, FileTyped
<1>5. CASE c = 0
  <2>1. CanStretch(O, d, 0) /\ F = Stretched(O, d, 0) /\ kept[d] = 0
    BY <1>3, <1>5
  <2>2. file.fptr = 0 /\ file.size = 0 /\ file.sclust = 0 /\ a = d
    BY <1>3, <1>5, <2>1, BoundaryAt, ClusterNumbers
  <2>3. Leads(F, a, 0, d) /\ file.fptr = Upto(0, 0)
    BY <2>2, LeadsZero, UptoZero
  <2>4. \A z \in Nat : z > 0 => EntryFits(F, kept, a, z)
    BY <1>1, <2>1, <2>2, FitsFirst
  <2> QED BY <2>1, <2>2, <2>3, <2>4 DEF Enters
<1>6. CASE c # 0
  <2>1. c = file.clust /\ file.fptr # 0
    BY <1>6
  <2>2. /\ file.fptr = file.size /\ c \in Cluster /\ file.sclust \in Cluster
        /\ \E n \in Nat : file.fptr = Upto(n + 1, 0) /\ Leads(O, file.sclust, n, c)
    BY <1>3, <2>1, BoundaryAt, ClusterNumbers
  <2>3. PICK n \in Nat : file.fptr = Upto(n + 1, 0) /\ Leads(O, file.sclust, n, c)
    BY <2>2
  <2>4. a = file.sclust /\ a \in Cluster
    BY <2>2, ClusterNumbers
  <2>5. Leads(F, a, n + 1, d)
    BY <1>6, <2>3, <2>4, LeadsNext, StretchedEnd
  <2>6. EntryFits(F, kept, a, file.size)
    BY <1>1, <2>4, FitsStretched
  <2>7. ASSUME NEW z \in Nat, file.fptr <= z PROVE EntryFits(F, kept, a, z)
    BY <2>2, <2>4, <2>6, <2>7, FitsLonger
  <2>8. kept[d] = 0
    <3>1. CASE CanStretch(O, d, c)
      BY <1>3, <3>1
    <3>2. CASE O[c] \in Cluster /\ d = O[c] /\ F = O
      <4>1. Bounded(O, kept, a, file.size)
        BY SMTT(40), <1>1, <2>4, ClusterNumbers DEF EntryFits
      <4>2. kept[d] > 0 => Upto(n + 1, kd) <= Upto(n + 1, 0)
        BY <1>2, <2>2, <2>3, <2>5, <3>2, <4>1 DEF Bounded
      <4>3. Upto(n + 1, kd) = Upto(n + 1, 0) + kd /\ Upto(n + 1, 0) \in Nat
        <5>1. PICK m \in Nat : m = n + 1
          OBVIOUS
        <5>2. 0 \in Nat
          OBVIOUS
        <5>3. Upto(m, kd) = Upto(m, 0) + kd /\ Upto(m, 0) \in Nat
          BY <1>2, <5>2, UptoNumber
        <5> QED BY <5>1, <5>3
      <4> QED BY <1>2, <4>2, <4>3
    <3> QED BY <3>1, <3>2
  <2>9. n + 1 \in Nat
    OBVIOUS
  <2> QED BY <2>2, <2>3, <2>5, <2>7, <2>8, <2>9 DEF Enters
<1> QED BY <1>5, <1>6

\* Nothing is written at a boundary where the string is not taken.
LEMMA PutNothing ==
  ASSUME FatInv, pc = "put", pc' = pc, queue = <<>>, queue' = <<>>,
         UNCHANGED <<chip, erased, mounted, winsect, formatting, kept, early>>,
         Ram' = Ram, Windowed', wflag' = wflag, left' \in Seq(Seq(STRING) \ {<<>>}),
         \/ file' = file /\ (wflag => file.modified)
         \/ file' = [file EXCEPT !.modified = TRUE]
  PROVE  FatInv'
<1>1. Typed /\ Phased /\ Coherence
  BY DEF FatInv
<1>2. /\ FileTyped(file) /\ PutTyped(file) /\ mounted /\ mounted \in BOOLEAN /\ wflag \in BOOLEAN /\ winsect \in Sector
      /\ (~ formatting => PutAt(Ram, file, kept))
  BY <1>1 DEF Typed, WritesFile, Phased, Coherence
<1>3. PICK b \in BOOLEAN :
        file' = [dirSect |-> file.dirSect, sclust |-> file.sclust, size |-> file.size, fptr |-> file.fptr,
                 clust |-> file.clust, sect |-> file.sect, buf |-> file.buf, dirty |-> file.dirty, modified |-> b]
  BY <1>2 DEF FileTyped
<1>4. FileTyped(file')
  BY <1>2, <1>3 DEF FileTyped
<1>5. /\ file'.dirSect = file.dirSect /\ file'.sclust = file.sclust /\ file'.size = file.size /\ file'.fptr = file.fptr
      /\ file'.clust = file.clust /\ file'.sect = file.sect /\ file'.buf = file.buf /\ file'.dirty = file.dirty
  BY <1>3
<1>6. PutTyped(file')
  BY <1>2, <1>5 DEF PutTyped
<1>7. ~ formatting => PutAt(Ram, file', kept)
  <2>1. SUFFICES ASSUME PutAt(Ram, file, kept) PROVE PutAt(Ram, file', kept)
    BY <1>2
  <2>2. AtEnd(Ram[Fat].next, file) => AtEnd(Ram[Fat].next, file')
    BY <1>5 DEF AtEnd
  <2>3. NoRoom(Ram[Fat].next, file) => NoRoom(Ram[Fat].next, file')
    BY <1>5 DEF NoRoom
  <2>4. Buffered(Ram, file', kept)
    BY <1>5, <2>1 DEF PutAt, Buffered
  <2>5. \E k \in 1 .. Root : file'.dirSect = Dir(k) /\ Ram[Dir(k)].kind = "file"
    BY <1>5, <2>1 DEF PutAt
  <2>6. EntryFits(Ram[Fat].next, kept, file'.sclust, file'.size)
    BY <1>5, <2>1 DEF PutAt
  <2> QED BY <2>1, <2>2, <2>3, <2>4, <2>5, <2>6 DEF PutAt
<1>8. wflag' => file'.modified
  BY <1>2 DEF FileTyped
<1>9. Phased'
  BY <1>2, <1>8 DEF Phased
<1> QED BY <1>2, <1>4, <1>6, <1>7, <1>9, QuietSteps

\* f_write at the beginning of a sector.
LEMMA PutBoundaryStep == ASSUME FatInv, PutBoundary PROVE FatInv'
<1>1. /\ Typed /\ Windowed /\ Phased /\ Coherence
  BY DEF FatInv
<1> DEFINE O == Ram[Fat].next
           c == IF file.fptr = 0 THEN 0 ELSE file.clust
<1>2. /\ pc = "put" /\ pc' = pc /\ queue = <<>> /\ left # <<>> /\ file.fptr % SectorSize = 0
      /\ UNCHANGED <<chip, erased, mounted, winsect, formatting, kept, early>>
  BY DEF PutBoundary, AtBoundary, memory
<1>3. /\ FileTyped(file) /\ PutTyped(file) /\ left \in Seq(Seq(STRING) \ {<<>>}) /\ ~ erased /\ mounted
      /\ mounted \in BOOLEAN /\ wflag \in BOOLEAN /\ winsect \in Sector
      /\ DiskTyped(Ram) /\ DiskTyped(chip) /\ KeptTyped(kept) /\ Done = chip
      /\ (~ formatting => PutAt(Ram, file, kept) /\ Coherent(Ram, kept))
  BY <1>1, <1>2 DEF Typed, WritesFile, Coherence, Phased, Done
<1>4. PICK r : /\ r = IF PutNeedsFat THEN CreateChain(FatNow, last, c) ELSE Chain(file.sclust, FatNow, last)
               /\ TakeFat(PutNeedsFat, r)
               /\ r.clust = 0 => /\ file' = [file EXCEPT !.modified = TRUE] /\ left' = Tail(left) /\ queue' = queue
               /\ r.clust \in Cluster =>
                    /\ \E b : file' = Putting(Started(IF file.sclust = 0 THEN r.clust ELSE file.sclust), r.clust, b)
                    /\ left' = Rest
                    /\ queue' = IF file.dirty THEN <<Write(Data(file.sect), file.buf)>> ELSE <<>>
               /\ r.clust # 0 /\ r.clust \notin Cluster => left' = <<>> /\ file' = file /\ queue' = queue
  <2> DEFINE r == IF PutNeedsFat THEN CreateChain(FatNow, last, c) ELSE Chain(file.sclust, FatNow, last)
             base == Started(IF file.sclust = 0 THEN r.clust ELSE file.sclust)
             b == IF file.sect # r.clust /\ file.fptr < file.size THEN chip[Data(r.clust)] ELSE file.buf
  <2>1. base = [file EXCEPT !.sclust = IF @ = 0 THEN r.clust ELSE @]
    BY DEF Started
  <2>2. TakeFat(PutNeedsFat, r)
    BY DEF PutBoundary
  <2>3. CASE r.clust = 0
    <3>1. file' = [file EXCEPT !.modified = TRUE] /\ left' = Tail(left) /\ queue' = queue
      <4>1. r.clust = 0 /\ r.clust \notin Cluster
        BY <2>3, ClusterNumbers
      <4> QED BY <4>1 DEF PutBoundary
    <3> HIDE DEF r
    <3> QED BY <2>2, <2>3, <3>1, ClusterNumbers DEF r
  <2>4. CASE r.clust \in Cluster
    <3>1. r.clust # 0
      BY <2>4, ClusterNumbers
    <3>2. file' = Putting(base, r.clust, b)
      BY <2>1, <2>4, <3>1 DEF PutBoundary
    <3>3. left' = Rest /\ queue' = IF file.dirty THEN <<Write(Data(file.sect), file.buf)>> ELSE <<>>
      BY <2>4, <3>1 DEF PutBoundary
    <3> HIDE DEF r, b
    <3> QED BY <2>2, <2>4, <3>1, <3>2, <3>3 DEF r
  <2>5. CASE r.clust # 0 /\ r.clust \notin Cluster
    <3>1. left' = <<>> /\ file' = file /\ queue' = queue
      BY <2>5 DEF PutBoundary
    <3> HIDE DEF r
    <3> QED BY <2>2, <2>5, <3>1 DEF r
  <2> QED BY <2>3, <2>4, <2>5
<1>5. PutNeedsFat <=> ~ (file.fptr = 0 /\ file.sclust # 0)
  BY <1>2 DEF PutNeedsFat, AtBoundary
<1>6. file.clust \in Link /\ file.sclust \in Link /\ file.fptr \in Nat
  BY <1>3 DEF FileTyped
<1>7. /\ c # 0 => c \in Cluster /\ c = file.clust
      /\ c = 0 => file.clust = 0
  BY <1>3, <1>6, ClusterNumbers DEF PutTyped
<1>8. Fat \in Sector /\ Fat \in System /\ Fat \notin Stores
  BY Sectors DEF System
<1>9. CASE ~ PutNeedsFat
  <2>1. file.sclust \in Cluster /\ file.sclust # 0 /\ file.fptr = 0
    BY <1>3, <1>5, <1>6, <1>9, ClusterNumbers DEF PutTyped
  <2>2. r.clust = file.sclust /\ UNCHANGED <<win, last, wflag>>
    BY <1>4, <1>9 DEF Chain, TakeFat
  <2>3. PICK b : file' = Putting(Started(file.sclust), file.sclust, b)
    BY <1>4, <2>1, <2>2
  <2>4. left' = Rest /\ queue' = (IF file.dirty THEN <<Write(Data(file.sect), file.buf)>> ELSE <<>>)
    BY <1>4, <2>1, <2>2
  <2>5. formatting
    <3>1. SUFFICES ASSUME ~ formatting PROVE FALSE
      OBVIOUS
    <3> QED BY <1>1, <1>2, <1>3, <2>1, <3>1, BoundaryAt
  <2>6. DiskTyped(Ram') /\ Windowed'
    <3>1. CASE file.dirty
      <4>1. file.sect \in Cluster
        BY <1>3, <3>1 DEF FileTyped
      <4> QED BY <1>1, <1>2, <2>2, <2>4, <3>1, <4>1, QueueDataOnly
    <3>2. CASE ~ file.dirty
      <4>1. queue' = queue
        BY <1>2, <2>4, <3>2
      <4> QED BY <1>2, <1>3, <2>2, <4>1, WindowKept
    <3> QED BY <3>1, <3>2
  <2>7. wflag' /\ ~ file.modified => Ram'[Fat].next[file.sclust] # Free
    BY <1>1, <1>2, <1>3, <2>1, <2>2, ClusterNumbers DEF Phased, Fruitful, PutTyped
  <2>8. wflag' \in BOOLEAN
    BY <1>3, <2>2
  <2> QED BY <1>2, <1>3, <2>1, <2>3, <2>4, <2>5, <2>6, <2>7, <2>8, PutEnters
<1>10. CASE PutNeedsFat
  <2>1. winsect = Fat /\ TakeFat(TRUE, r)
    BY <1>4, <1>10 DEF PutBoundary
  <2>2. FatNow = O /\ Links(O)
    BY <1>1, <1>3, <1>8, <2>1, Reading DEF FatNow, Windowed
  <2>3. r = CreateChain(O, last, c)
    BY <1>4, <1>10, <2>2
  <2> HIDE DEF c
  <2>4. CASE c # 0 /\ O[c] = Free
    <3>1. r.clust = 1 /\ r.fat = O
      BY <2>3, <2>4, ChainFails
    <3>2. left' = <<>> /\ file' = file /\ queue' = <<>>
      BY <1>2, <1>4, <3>1, ClusterNumbers
    <3>3. wflag' = wflag /\ Windowed' /\ Ram' = Ram
      BY <1>2, <1>3, <2>1, <2>2, <3>1, <3>2, FatTaken
    <3>4. wflag => file.modified
      <4>1. ~ Fruitful
        BY <1>7, <2>4 DEF Fruitful
      <4> QED BY <1>1, <1>2, <4>1 DEF Phased
    <3>5. left' \in Seq(Seq(STRING) \ {<<>>})
      BY <3>2
    <3> QED BY <1>2, <3>2, <3>3, <3>4, <3>5, PutNothing
  <2>5. CASE ~ (c # 0 /\ O[c] = Free)
    <3>1. \/ r.clust = 0 /\ r.fat = O /\ FreeIn(O) = {} /\ (c # 0 => O[c] = Eoc)
          \/ c # 0 /\ O[c] \in Cluster /\ r.clust = O[c] /\ r.fat = O
          \/ CanStretch(O, r.clust, c) /\ r.fat = Stretched(O, r.clust, c)
      BY <1>7, <2>2, <2>3, <2>5, ChainSteps
    <3>2. Links(r.fat)
      BY <2>2, <3>1, StretchedLinks
    <3>3. CASE r.clust = 0
      <4>1. r.fat = O
        BY <3>1, <3>3, ClusterNumbers DEF CanStretch
      <4>2. file' = [file EXCEPT !.modified = TRUE] /\ left' = Tail(left) /\ queue' = <<>>
        BY <1>2, <1>4, <3>3
      <4>3. wflag' = wflag /\ Windowed' /\ Ram' = Ram
        BY <1>2, <1>3, <2>1, <2>2, <4>1, <4>2, FatTaken
      <4>4. left' \in Seq(Seq(STRING) \ {<<>>})
        BY <1>2, <1>3, <1>6, <4>2, TakenStrings
      <4> QED BY <1>2, <4>2, <4>3, <4>4, PutNothing
    <3>4. CASE r.clust # 0
      <4>1. PICK d \in Cluster : d = r.clust
        BY <3>1, <3>4 DEF CanStretch
      <4>2. \/ c # 0 /\ O[c] \in Cluster /\ d = O[c] /\ r.fat = O
            \/ CanStretch(O, d, c) /\ r.fat = Stretched(O, d, c)
        BY <3>1, <3>4, <4>1
      <4>3. PICK a : a = (IF file.sclust = 0 THEN d ELSE file.sclust)
        OBVIOUS
      <4>4. a \in Cluster
        BY <1>3, <1>6, <4>1, <4>3, ClusterNumbers DEF PutTyped
      <4>5. PICK b : file' = Putting(Started(a), d, b)
        BY <1>4, <4>1, <4>3
      <4>6. left' = Rest /\ queue' = (IF file.dirty THEN <<Write(Data(file.sect), file.buf)>> ELSE <<>>)
        BY <1>4, <4>1
      <4>7. /\ DiskTyped(Done')
            /\ \A t \in Sector : t \notin Stores => Done'[t] = chip[t]
        <5>1. UNCHANGED <<chip, formatting, kept>>
          BY <1>2
        <5> QED BY <1>2, <4>6, <5>1, PutWrites
      <4>8. Done'[Fat] = Done[Fat]
        BY <1>3, <1>8, <4>7
      <4>9. /\ DiskTyped(Ram') /\ Ram'[Fat].next = r.fat /\ Ram' = With(Done', Fat, Table(r.fat))
            /\ \A t \in Sector : t # Fat => Ram[t] = Done[t] /\ Ram'[t] = Done'[t]
            /\ wflag' \in BOOLEAN /\ Windowed'
        BY <1>1, <1>2, <1>3, <2>1, <3>2, <4>7, <4>8, FatInWindow
      <4>10. \A k \in 1 .. Root : Ram'[Dir(k)] = Ram[Dir(k)]
        <5>1. \A k \in 1 .. Root : Dir(k) \in Sector /\ Dir(k) # Fat /\ Dir(k) \notin Stores
          BY Sectors
        <5> QED BY <1>3, <4>7, <4>9, <5>1
      <4>11. ASSUME ~ formatting PROVE Coherent(Ram', kept) /\ Enters(Ram'[Fat].next, kept, a, d)
        <5>1. Enters(r.fat, kept, a, d)
          BY <1>1, <1>2, <1>3, <4>2, <4>3, <4>11, BoundaryEnters DEF c
        <5>2. CASE CanStretch(O, d, c) /\ r.fat = Stretched(O, d, c)
          <6>1. Coherent(With(Ram, Fat, Table(r.fat)), kept)
            BY <1>3, <4>11, <5>2, CoherentStretched
          <6>2. SectorTyped(Fat, Table(r.fat)) /\ Table(r.fat).next = r.fat
            BY <3>2, Sectors DEF SectorTyped, Table
          <6>3. /\ With(Ram, Fat, Table(r.fat))[Fat] = Table(r.fat)
                /\ \A t \in Sector : t # Fat => With(Ram, Fat, Table(r.fat))[t] = Ram[t]
            BY <1>3, <1>8, <6>2, Writing
          <6>4. Ram'[Fat] = Table(r.fat)
            BY <4>9, Reading
          <6>5. \A k \in 1 .. Root : Ram'[Dir(k)] = With(Ram, Fat, Table(r.fat))[Dir(k)]
            BY <4>10, <6>3, Sectors
          <6> QED BY <4>9, <5>1, <6>1, <6>3, <6>4, <6>5, CoherentElsewhere
        <5>3. CASE r.fat = O
          <6>1. Ram'[Fat] = Ram[Fat]
            BY <1>3, <4>9, <5>3, Reading
          <6> QED BY <1>3, <4>9, <4>10, <4>11, <5>1, <6>1, CoherentElsewhere
        <5> QED BY <4>2, <5>2, <5>3
      <4>12. Ram'[Fat].next[d] # Free
        BY <1>7, <2>2, <4>2, <4>9, StretchedValues, ClusterNumbers DEF Links
      <4> HIDE DEF O
      <4> QED BY <1>2, <1>3, <4>4, <4>5, <4>6, <4>9, <4>10, <4>11, <4>12, PutEnters
    <3> QED BY <3>3, <3>4
  <2> QED BY <2>4, <2>5
<1> QED BY <1>9, <1>10

\* f_close writes the entry.
LEMMA CloseEntryStep == ASSUME FatInv, CloseEntry PROVE FatInv'
<1>1. /\ Typed /\ Windowed /\ Phased /\ Coherence
  BY DEF FatInv
<1> DEFINE e == Entry("file", file.sclust, file.size)
<1>2. /\ pc = "close" /\ pc' = "closed" /\ queue = <<>> /\ file.modified /\ ~ file.dirty
      /\ winsect = file.dirSect /\ win' = e /\ wflag' = FALSE
      /\ queue' = <<Write(winsect, e)>>
      /\ file' = [file EXCEPT !.modified = FALSE]
      /\ UNCHANGED <<chip, erased, mounted, winsect, left, formatting, kept, early>>
  BY DEF CloseEntry, memory
<1>3. /\ FileTyped(file) /\ PutTyped(file) /\ left \in Seq(Seq(STRING) \ {<<>>}) /\ ~ erased
      /\ mounted \in BOOLEAN /\ winsect \in Sector /\ mounted /\ DiskTyped(chip) /\ DiskTyped(Ram) /\ Done = chip
      /\ (~ formatting => PutAt(Ram, file, kept) /\ Coherent(Ram, kept))
  BY <1>1, <1>2 DEF Typed, WritesFile, Coherence, Phased, Done
<1>4. /\ e = [kind |-> "file", clust |-> file.sclust, size |-> file.size]
      /\ e.kind = "file" /\ e.clust = file.sclust /\ e.size = file.size /\ EntryTyped(e)
  BY <1>3 DEF Entry, EntryTyped, FileTyped, PutTyped
<1>5. winsect \in Dirs /\ winsect \in System /\ winsect # Fat
  BY <1>2, <1>3, Sectors DEF PutTyped, System
<1> HIDE DEF e
<1>6. SectorTyped(winsect, e)
  BY <1>4, <1>5 DEF SectorTyped
<1>7. queue' # <<>> /\ Head(queue').sect = winsect /\ Head(queue').content = e
  BY <1>2 DEF Write
<1>8. Done' = With(chip, winsect, e) /\ Ram' = Done'
  BY <1>2, <1>7 DEF Done, Ram
<1>9. DiskTyped(Done') /\ Done'[winsect] = e
  BY <1>3, <1>6, <1>8, Writing
<1>10. Done' = With(Ram, winsect, e)
  <2>1. Ram = chip \/ Ram = With(chip, winsect, win)
    BY <1>3 DEF Ram
  <2> QED BY <1>3, <1>8, <2>1, WritingTwice
<1>11. ASSUME ~ formatting PROVE Coherent(Done', kept)
  <2>1. PICK k \in 1 .. Root : file.dirSect = Dir(k) /\ Ram[Dir(k)].kind = "file"
    BY <1>3, <1>11 DEF PutAt
  <2>2. EntryFits(Ram[Fat].next, kept, e.clust, e.size)
    BY <1>3, <1>4, <1>11 DEF PutAt
  <2>3. \A j \in 1 .. Root : j < k => Ram[Dir(j)].kind = "blank"
    BY <1>3, <1>11, <2>1, BeforeFile DEF Coherent
  <2>4. Coherent(With(Ram, Dir(k), e), kept)
    BY <1>3, <1>4, <1>11, <2>1, <2>2, <2>3, CoherentEntry
  <2> QED BY <1>2, <1>10, <2>1, <2>4
<1>12. FileTyped(file')
  BY <1>2, <1>3 DEF FileTyped
<1>13. Windowed'
  BY <1>2, <1>8, <1>9 DEF Windowed
<1>14. Phased'
  <2>1. queue' = <<Write(Head(queue').sect, Head(queue').content)>>
    BY <1>2, <1>7
  <2> QED BY <1>2, <1>3, <2>1 DEF Phased
<1>15. TextNotOverwritten'
  <2>1. \A c \in Cluster : Head(queue').sect # Data(c)
    BY <1>5, <1>7, Sectors
  <2> QED BY <2>1 DEF TextNotOverwritten
<1>16. pc' # "format" /\ pc' # "seek" /\ ~ WritesFile(pc', file') /\ wflag' \in BOOLEAN
  BY <1>2 DEF WritesFile
<1> QED BY <1>2, <1>3, <1>7, <1>8, <1>9, <1>11, <1>12, <1>13, <1>14, <1>15, <1>16, ProgramSteps

\* f_close of an unchanged file writes nothing.
LEMMA CloseUnchangedStep == ASSUME FatInv, CloseUnchanged PROVE FatInv'
<1>1. /\ Typed /\ Phased
  BY DEF FatInv
<1>2. /\ pc = "close" /\ pc' = "idle" /\ queue = <<>> /\ ~ file.modified /\ file' = NoFile
      /\ UNCHANGED <<chip, queue, erased, mounted, winsect, win, wflag, left, formatting, kept, early>>
  BY DEF CloseUnchanged, disk, fs, memory
<1>3. Ram' = Ram /\ Windowed' /\ mounted' \in BOOLEAN /\ wflag' \in BOOLEAN /\ winsect' \in Sector
  BY <1>2, WindowKept
<1>4. FileTyped(NoFile)
  BY Sectors, ClusterNumbers DEF FileTyped, NoFile
<1>5. ~ wflag
  BY <1>1, <1>2 DEF Phased
<1>6. Phased'
  BY <1>2, <1>5 DEF Phased
<1>7. left' \in Seq(Seq(STRING) \ {<<>>})
  BY <1>1, <1>2 DEF Typed
<1> QED BY <1>2, <1>3, <1>4, <1>6, <1>7, QuietSteps DEF WritesFile

\* The bytes of a cluster that belong to the file are no more than a sector.
LEMMA InFileNumber ==
  ASSUME DiskTyped(chip), NEW c \in Cluster
  PROVE  InFile(c) \in 0 .. SectorSize
<1>1. CASE Place(c) = {}
  BY <1>1, ClusterNumbers DEF InFile
<1>2. CASE Place(c) # {}
  <2>1. Place(c) \in SUBSET Nat
    BY DEF Place
  <2>2. \E n \in Place(c) : \A m \in Place(c) : n <= m
    BY <1>2, <2>1, LeastNumber
  <2>3. Min(Place(c)) \in Place(c)
    BY <2>2 DEF Min
  <2>4. PICK n \in Nat : n = Min(Place(c))
    BY <2>1, <2>3
  <2>5. Recorded.size \in Nat
    BY RecordedEntry DEF EntryTyped
  <2>6. SectorSize * n \in Nat /\ SectorSize \in Nat
    BY <2>4, ClusterNumbers
  <2>7. InFile(c) = IF Recorded.size <= SectorSize * n THEN 0 ELSE Shorter(SectorSize, Recorded.size - SectorSize * n)
    BY <1>2, <2>4 DEF InFile
  <2>8. PICK p \in Nat : p = SectorSize * n
    BY <2>6
  <2>9. InFile(c) = IF Recorded.size <= p THEN 0 ELSE Shorter(SectorSize, Recorded.size - p)
    BY <2>7, <2>8
  <2> QED BY <2>5, <2>6, <2>9 DEF Shorter
<1> QED BY <1>1, <1>2

\* f_close returns: the history remembers what it recorded.
LEMMA CloseDoneStep == ASSUME FatInv, CloseDone PROVE FatInv'
<1>1. /\ Typed /\ Windowed /\ Phased /\ Coherence
  BY DEF FatInv
<1>2. /\ pc = "closed" /\ pc' = "idle" /\ queue = <<>> /\ queue' = <<>> /\ file' = NoFile
      /\ kept' = [c \in Cluster |-> Longest(kept[c], InFile(c))]
      /\ UNCHANGED <<chip, queue, erased, mounted, winsect, win, wflag, left, formatting, early>>
  BY DEF CloseDone, disk, fs
<1>3. /\ DiskTyped(chip) /\ KeptTyped(kept) /\ Done = chip /\ ~ erased /\ ~ wflag /\ Ram = chip
      /\ left \in Seq(Seq(STRING) \ {<<>>})
  BY <1>1, <1>2 DEF Typed, Done, Phased, Ram
<1>4. Done' = chip /\ Ram' = chip
  BY <1>2, <1>3 DEF Done, Ram
<1>5. KeptTyped(kept')
  <2>1. ASSUME NEW c \in Cluster PROVE Longest(kept[c], InFile(c)) \in 0 .. SectorSize
    <3>1. kept[c] \in 0 .. SectorSize /\ InFile(c) \in 0 .. SectorSize
      BY <1>3, InFileNumber DEF KeptTyped
    <3> QED BY <3>1 DEF Longest
  <2> QED BY <1>2, <2>1 DEF KeptTyped
<1>6. ~ formatting => Coherent(chip, kept')
  BY <1>1, <1>2, <1>3, CoherentKept DEF Coherence
<1>7. FileTyped(NoFile)
  BY Sectors, ClusterNumbers DEF FileTyped, NoFile
<1>8. Typed'
  <2>1. FileTyped(file') /\ left' \in Seq(Seq(STRING) \ {<<>>})
    BY <1>2, <1>3, <1>7
  <2> QED BY <1>1, <1>2, <1>3, <1>4, <1>5, <2>1 DEF Typed, WritesFile
<1>9. Windowed'
  BY <1>1, <1>2, <1>3, <1>4 DEF Windowed
<1>10. Phased' /\ Formatted' /\ TextNotOverwritten'
  BY <1>2, <1>3 DEF Phased, Formatted, TextNotOverwritten
<1>11. Coherence'
  BY <1>2, <1>4, <1>6 DEF Coherence, WritesFile
<1> QED BY <1>8, <1>9, <1>10, <1>11 DEF FatInv

\* E is a sequence of two elements, n more and one more.
Joins(S, E, A, n, B, C) ==
  /\ E \in Seq(S) /\ Len(E) = n + 3
  /\ E[1] = A[1] /\ E[2] = A[2] /\ E[n + 3] = C[1]
  /\ \A k \in 1 .. n : E[k + 2] = B[k]

\* A sequence of three parts.
LEMMA ThreeParts ==
  ASSUME NEW S, NEW A \in Seq(S), Len(A) = 2, NEW n \in Nat, NEW B \in Seq(S), Len(B) = n,
         NEW C \in Seq(S), Len(C) = 1
  PROVE  Joins(S, (A \o B) \o C, A, n, B, C)
<1> DEFINE E == (A \o B) \o C
<1> HIDE DEF E
<1>1. PICK D : D = A \o B
  OBVIOUS
<1>2. D \in Seq(S) /\ Len(D) = 2 + n
  <2>1. A \o B \in Seq(S) /\ Len(A \o B) = Len(A) + Len(B)
    BY ConcatProperties
  <2> QED BY <1>1, <2>1
<1>3. \A i \in 1 .. 2 + n : D[i] = IF i <= 2 THEN A[i] ELSE B[i - 2]
  <2>1. \A i \in 1 .. Len(A) + Len(B) : (A \o B)[i] = IF i <= Len(A) THEN A[i] ELSE B[i - Len(A)]
    BY ConcatProperties
  <2> QED BY <1>1, <2>1
<1>4. E \in Seq(S) /\ Len(E) = n + 3
  <2>1. E = D \o C
    BY <1>1 DEF E
  <2>2. D \o C \in Seq(S) /\ Len(D \o C) = Len(D) + Len(C)
    BY <1>2, ConcatProperties
  <2> QED BY <1>2, <2>1, <2>2
<1>5. ASSUME NEW i \in 1 .. n + 3
      PROVE  E[i] = IF i <= n + 2 THEN D[i] ELSE C[i - (n + 2)]
  <2>1. \A j \in 1 .. Len(D) + Len(C) : (D \o C)[j] = IF j <= Len(D) THEN D[j] ELSE C[j - Len(D)]
    BY <1>2, ConcatProperties
  <2>2. E = D \o C
    BY <1>1 DEF E
  <2>3. Len(D) = n + 2 /\ Len(D) + Len(C) = n + 3
    BY <1>2
  <2> QED BY <2>1, <2>2, <2>3
<1>6. E[1] = A[1] /\ E[2] = A[2]
  <2>1. 1 \in 1 .. n + 3 /\ 2 \in 1 .. n + 3 /\ 1 <= n + 2 /\ 2 <= n + 2 /\ 1 \in 1 .. 2 + n /\ 2 \in 1 .. 2 + n
    OBVIOUS
  <2>2. E[1] = D[1] /\ E[2] = D[2]
    BY <1>5, <2>1
  <2> QED BY <1>3, <2>1, <2>2
<1>7. E[n + 3] = C[1]
  <2>1. n + 3 \in 1 .. n + 3 /\ ~ (n + 3 <= n + 2) /\ (n + 3) - (n + 2) = 1
    OBVIOUS
  <2> QED BY <1>5, <2>1
<1>8. ASSUME NEW k \in 1 .. n PROVE E[k + 2] = B[k]
  <2>1. k + 2 \in 1 .. n + 3 /\ k + 2 <= n + 2 /\ k + 2 \in 1 .. 2 + n /\ ~ (k + 2 <= 2) /\ (k + 2) - 2 = k
    OBVIOUS
  <2>2. E[k + 2] = D[k + 2]
    BY <1>5, <2>1
  <2> QED BY <1>3, <2>1, <2>2
<1> QED BY <1>4, <1>6, <1>7, <1>8 DEF Joins, E

\* What f_mkfs writes, sector by sector.
LEMMA FormatsWrites ==
  /\ Formats \in Seq(FreshWrites) /\ Formats # <<>> /\ Head(Formats) = Write(Vbr, "valid")
  /\ \A s \in FreshSectors : \E i \in 1 .. Len(Formats) : Formats[i].sect = s
<1> DEFINE A == <<Write(Vbr, "valid"), Write(Fat, EmptyFat)>>
           B == [k \in 1 .. Root |-> Write(Dir(k), EndOfTable)]
           C == <<Write(Mbr, "valid")>>
<1>1. Root \in Nat
  BY FatFsAssumption
<1>2. /\ Write(Vbr, "valid") \in FreshWrites /\ Write(Fat, EmptyFat) \in FreshWrites /\ Write(Mbr, "valid") \in FreshWrites
      /\ \A k \in 1 .. Root : Write(Dir(k), EndOfTable) \in FreshWrites
  <2>1. /\ Fresh(Vbr) = "valid" /\ Fresh(Mbr) = "valid" /\ Fresh(Fat) = EmptyFat
        /\ \A k \in 1 .. Root : Fresh(Dir(k)) = EndOfTable
    BY Sectors DEF Fresh
  <2>2. /\ Vbr \in FreshSectors /\ Mbr \in FreshSectors /\ Fat \in FreshSectors
        /\ \A k \in 1 .. Root : Dir(k) \in FreshSectors
    BY Sectors DEF FreshSectors, System
  <2> QED BY <2>1, <2>2 DEF FreshWrites
<1>3. /\ A \in Seq(FreshWrites) /\ Len(A) = 2 /\ A[1] = Write(Vbr, "valid") /\ A[2] = Write(Fat, EmptyFat)
      /\ C \in Seq(FreshWrites) /\ Len(C) = 1 /\ C[1] = Write(Mbr, "valid")
  BY <1>2
<1>4. B \in Seq(FreshWrites) /\ Len(B) = Root /\ \A k \in 1 .. Root : B[k] = Write(Dir(k), EndOfTable)
  <2>1. B \in [1 .. Root -> FreshWrites] /\ DOMAIN B = 1 .. Root
    BY <1>2
  <2>2. B \in Seq(FreshWrites)
    BY <1>1, <2>1, SeqDef
  <2>3. Len(B) \in Nat /\ DOMAIN B = 1 .. Len(B)
    BY <2>2, LenProperties
  <2>4. Len(B) = Root
    <3> HIDE DEF B
    <3> QED BY <1>1, <2>1, <2>3
  <2> QED BY <2>2, <2>4
<1> HIDE DEF A, B, C
<1>7. Formats = (A \o B) \o C
  BY DEF Formats, A, B, C
<1>8. /\ Formats \in Seq(FreshWrites) /\ Len(Formats) = Root + 3
      /\ Formats[1] = A[1] /\ Formats[2] = A[2] /\ Formats[Root + 3] = C[1]
      /\ \A k \in 1 .. Root : Formats[k + 2] = B[k]
  <2>1. Joins(FreshWrites, (A \o B) \o C, A, Root, B, C)
    BY <1>1, <1>3, <1>4, ThreeParts
  <2>2. Joins(FreshWrites, Formats, A, Root, B, C)
    BY <1>7, <2>1
  <2> QED BY <2>2 DEF Joins
<1>9. /\ Formats[1] = Write(Vbr, "valid") /\ Formats[2] = Write(Fat, EmptyFat) /\ Formats[Root + 3] = Write(Mbr, "valid")
      /\ 1 \in 1 .. Len(Formats) /\ 2 \in 1 .. Len(Formats) /\ Root + 3 \in 1 .. Len(Formats)
  BY <1>1, <1>3, <1>8
<1>10. ASSUME NEW k \in 1 .. Root PROVE k + 2 \in 1 .. Len(Formats) /\ Formats[k + 2] = Write(Dir(k), EndOfTable)
  BY <1>1, <1>4, <1>8
<1>11. Formats # <<>> /\ Head(Formats) = Formats[1]
  BY <1>1, <1>8
<1>12. ASSUME NEW s \in FreshSectors PROVE \E i \in 1 .. Len(Formats) : Formats[i].sect = s
  <2>1. CASE s = Vbr
    <3>1. Formats[1].sect = s
      BY <1>9, <2>1 DEF Write
    <3> QED BY <1>9, <3>1
  <2>2. CASE s = Fat
    <3>1. Formats[2].sect = s
      BY <1>9, <2>2 DEF Write
    <3> QED BY <1>9, <3>1
  <2>3. CASE s = Mbr
    <3>1. Formats[Root + 3].sect = s
      BY <1>9, <2>3 DEF Write
    <3> QED BY <1>9, <3>1
  <2>4. CASE s \in Dirs
    <3>1. PICK k \in 1 .. Root : s = Dir(k)
      BY <2>4 DEF Dirs
    <3>2. k + 2 \in 1 .. Len(Formats) /\ Formats[k + 2] = Write(Dir(k), EndOfTable)
      BY <1>10
    <3>3. Formats[k + 2].sect = s
      BY <3>1, <3>2 DEF Write
    <3> QED BY <3>2, <3>3
  <2> QED BY <2>1, <2>2, <2>3, <2>4 DEF FreshSectors, System
<1> QED BY <1>8, <1>9, <1>11, <1>12

\* f_mkfs begins.
LEMMA FormatStep == ASSUME FatInv, Format PROVE FatInv'
<1>1. /\ Typed /\ Phased
  BY DEF FatInv
<1>2. /\ pc = "idle" /\ pc' = "format" /\ queue = <<>> /\ queue' = Formats /\ mounted' = FALSE /\ formatting' = TRUE
      /\ kept' = [c \in Cluster |-> 0]
      /\ UNCHANGED <<chip, erased, winsect, win, wflag, file, left, early>>
  BY DEF Format
<1>3. ~ wflag /\ ~ erased /\ DiskTyped(chip)
  BY <1>1, <1>2 DEF Typed, Phased
<1>4. queue' \in Seq(FreshWrites) /\ queue' # <<>> /\ Head(queue') = Write(Vbr, "valid")
  BY <1>2, FormatsWrites
<1>5. Head(queue').sect = Vbr /\ Head(queue').content = "valid" /\ Vbr \in Sector /\ SectorTyped(Vbr, "valid")
  BY <1>4, Sectors DEF Write, SectorTyped
<1>6. Done' = With(chip, Vbr, "valid") /\ Ram' = Done'
  BY <1>2, <1>3, <1>4, <1>5 DEF Done, Ram
<1>7. DiskTyped(Done')
  BY <1>3, <1>5, <1>6, Writing
<1>8. KeptTyped(kept') /\ \A c \in Cluster : kept'[c] = 0
  BY <1>2, ClusterNumbers DEF KeptTyped
<1>9. Typed'
  BY <1>1, <1>2, <1>3, <1>4, <1>5, <1>6, <1>7, <1>8 DEF Typed, WritesFile
<1>10. Windowed' /\ Phased' /\ TextNotOverwritten' /\ Coherence'
  BY <1>2, <1>3 DEF Windowed, Phased, TextNotOverwritten, Coherence
<1>11. Formatted'
  BY <1>2, <1>4, <1>8, FormatsWrites DEF Formatted
<1> QED BY <1>9, <1>10, <1>11 DEF FatInv

\* f_mkfs is done.
LEMMA FormatDoneStep == ASSUME FatInv, FormatDone PROVE FatInv'
<1>1. /\ Typed /\ Phased /\ Formatted /\ Windowed
  BY DEF FatInv
<1>2. /\ pc = "format" /\ pc' = "idle" /\ queue = <<>> /\ queue' = <<>> /\ formatting' = FALSE /\ early' = 0
      /\ UNCHANGED <<chip, queue, erased, mounted, winsect, win, wflag, file, left, kept>>
  BY DEF FormatDone, disk, fs
<1>3. ~ wflag /\ ~ erased /\ DiskTyped(chip) /\ KeptTyped(kept) /\ \A c \in Cluster : kept[c] = 0
  BY <1>1, <1>2 DEF Typed, Phased, Formatted
<1>4. \A s \in FreshSectors : chip[s] = Fresh(s)
  BY <1>1, <1>2 DEF Formatted
<1>5. Coherent(chip, kept)
  <2>1. ASSUME NEW k \in 1 .. Root PROVE chip[Dir(k)].kind = "free"
    <3>1. Dir(k) \in FreshSectors /\ Fresh(Dir(k)) = EndOfTable
      BY Sectors DEF FreshSectors, System, Fresh
    <3> QED BY <1>4, <3>1 DEF EndOfTable, Entry
  <2> QED BY <1>3, <2>1 DEF Coherent, DirOrdered, RecordedTaken
<1>6. Done' = chip /\ Ram' = chip /\ Ram = chip
  BY <1>2, <1>3 DEF Done, Ram
<1>7. Typed'
  BY <1>1, <1>2, <1>3, <1>6 DEF Typed, WritesFile
<1>8. Windowed'
  BY <1>1, <1>2, <1>6 DEF Windowed
<1>9. Phased' /\ Formatted' /\ TextNotOverwritten'
  BY <1>2, <1>3 DEF Phased, Formatted, TextNotOverwritten
<1>10. Coherence'
  BY <1>2, <1>5, <1>6 DEF Coherence, WritesFile
<1> QED BY <1>7, <1>8, <1>9, <1>10 DEF FatInv

\* The web page lists the directory.
LEMMA ListStep == ASSUME FatInv, List PROVE FatInv'
<1>1. /\ Typed /\ Phased
  BY DEF FatInv
<1>2. /\ pc = "idle" /\ pc' = "idle" /\ queue = <<>> /\ queue' = <<>> /\ mounted' = TRUE
      /\ \E k \in 1 .. Root : winsect' = Dir(k) /\ win' = chip[Dir(k)]
      /\ UNCHANGED <<chip, queue, erased, wflag, file, left, formatting, kept, early>>
  BY DEF List, disk, memory
<1>3. ~ wflag /\ Ram = chip /\ Ram' = chip
  <2>1. ~ wflag
    BY <1>1, <1>2 DEF Phased
  <2>2. Done = chip /\ Done' = chip
    BY <1>2 DEF Done
  <2> QED BY <1>2, <2>1, <2>2 DEF Ram
<1>4. winsect' \in Sector /\ mounted' \in BOOLEAN /\ wflag' \in BOOLEAN /\ FileTyped(file') /\ left' \in Seq(Seq(STRING) \ {<<>>})
  BY <1>1, <1>2, Sectors DEF Typed
<1>5. Windowed'
  BY <1>2, <1>3 DEF Windowed
<1>6. Phased'
  BY <1>2, <1>3 DEF Phased
<1> QED BY <1>2, <1>3, <1>4, <1>5, <1>6, QuietSteps DEF WritesFile

\* The window moves to the sector the program needs.
LEMMA WindowStep == ASSUME FatInv, Window PROVE FatInv'
<1>1. Typed /\ Fat \in Sector /\ Dir(1) \in Sector
  <2>1. 1 \in 1 .. Root
    BY FatFsAssumption
  <2> QED BY <2>1, Sectors DEF FatInv
<1>2. file.dirSect \in Sector
  BY <1>1 DEF Typed, FileTyped
<1> QED BY <1>1, <1>2, MoveWindowStep DEF Window

\* A stutter changes nothing.
LEMMA FatInvStutter == ASSUME FatInv, UNCHANGED fatVars PROVE FatInv'
<1>1. /\ Typed /\ Windowed /\ Phased /\ Formatted /\ Coherence /\ TextNotOverwritten
  BY DEF FatInv
<1>2. UNCHANGED <<chip, queue, erased, pc, mounted, winsect, win, wflag, file, left, formatting, kept, early>>
  BY DEF fatVars, disk, fs, memory
<1>3. Done' = Done /\ Ram' = Ram
  BY <1>2 DEF Done, Ram
<1>4. Typed' /\ Windowed'
  BY <1>1, <1>2, <1>3 DEF Typed, Windowed
<1>5. Phased' /\ Formatted' /\ TextNotOverwritten'
  BY <1>1, <1>2, <1>3 DEF Phased, Fruitful, Formatted, TextNotOverwritten
<1>6. Coherence'
  BY <1>1, <1>2, <1>3 DEF Coherence
<1> QED BY <1>4, <1>5, <1>6 DEF FatInv

\* Every step keeps the invariant.
LEMMA FatInvNext == ASSUME FatInv, [FatNext]_fatVars PROVE FatInv'
  BY EraseSectorStep, ProgramStep, OutageStep, WindowStep, UsbWriteStep, OpenDeniedStep, OpenNewStep, OpenOldStep,
     SeekFirstStep, SeekBehindStep, SeekEndStep, PutInsideStep, PutBoundaryStep, PutDoneStep,
     CloseDataStep, CloseEntryStep, CloseUnchangedStep, CloseDoneStep, FormatStep, FormatDoneStep, ListStep,
     FatInvStutter
  DEF FatNext, Run, FatFs

\* What RAM, the window, the chip and the history have to do with each other.
THEOREM FatAlways == FatSpec => []FatInv
<1>1. FatInit => FatInv
  BY FatInvInit
<1>2. FatInv /\ [FatNext]_fatVars => FatInv'
  BY FatInvNext
<1> QED BY <1>1, <1>2, PTL DEF FatSpec

\* Whatever was cut, no write of usb_write programs a data sector with other
\* bytes than those a close recorded in it; only a loss of power within such a
\* write may leave them erased.
THEOREM TextIsNotOverwritten == FatSpec => []TextNotOverwritten
<1>1. FatInv => TextNotOverwritten
  BY DEF FatInv
<1> QED BY <1>1, FatAlways, PTL

-----------------------------------------------------------------------------
(* The text, on a volume whose FAT and directory were never cut. *)

\* A file of z bytes that begins in cluster a ends within its chain.
Reaches(F, a, z) ==
  \E n \in Nat, c \in Cluster : Leads(F, a, n, c) /\ Upto(n, 0) < z /\ z <= Upto(n + 1, 0)

\* The clusters with recorded bytes are on the chain.
KeptOn(F, kp, a) == \A c \in Cluster : kp[c] > 0 => \E n \in Nat : Leads(F, a, n, c)

\* The disk G holds the text, but for the sectors that were cut.
Reads(G, a, z, hm) ==
  \A n \in Nat, c \in Cluster, i \in 1 .. SectorSize :
    Leads(G[Fat].next, a, n, c) /\ Upto(n, i) <= z /\ Data(c) \notin hm
      => G[Data(c)][i] = Text(Upto(n, i) - 1)

\* A file ends with a line, unless the disk is full.
LineEnds(z) == z \in Nat /\ z >= Len(Greeting) + Len(Line) /\ (z - Len(Greeting)) % Len(Line) = 0
FillsDisk(F, a, z) ==
  FreeIn(F) = {} /\ \E n \in Nat, c \in Cluster : Leads(F, a, n, c) /\ F[c] = Eoc /\ z = Upto(n + 1, 0)

\* The file of an entry: none yet, or the text.
Whole(G, a, z, kp, hm) ==
  \/ a = 0 /\ z = 0 /\ \A c \in Cluster : kp[c] = 0
  \/ /\ a \in Cluster /\ z \in Nat /\ z > 0
     /\ Reaches(G[Fat].next, a, z) /\ KeptOn(G[Fat].next, kp, a) /\ Reads(G, a, z, hm)
     /\ LineEnds(z) \/ FillsDisk(G[Fat].next, a, z)

\* The first directory sector has the entry.
Sane(G, kp, hm) == G[Dir(1)].kind # "blank" /\ Whole(G, G[Dir(1)].clust, G[Dir(1)].size, kp, hm)

\* Clusters that are taken and not on the chain.
Lost(F, a) == {c \in Cluster : F[c] # Free /\ \A n \in Nat : ~ Leads(F, a, n, c)}
Leaks(G, m) == Cardinality(Lost(G[Fat].next, G[Dir(1)].clust)) <= m

\* F has the links of E, and may have more.
Grown(E, F) == \A c \in Cluster : E[c] \in Cluster => F[c] = E[c]

\* What is led to is led to with more links.
LEMMA GrownLeads ==
  ASSUME NEW E, NEW F, Grown(E, F), NEW a, NEW n \in Nat, NEW c, Leads(E, a, n, c)
  PROVE  Leads(F, a, n, c)
<1>1. PICK g \in [0 .. n -> Cluster] : /\ g[0] = a /\ g[n] = c
                                       /\ \A i \in 0 .. n - 1 : E[g[i]] = g[i + 1]
  BY DEF Leads
<1>2. \A i \in 0 .. n - 1 : F[g[i]] = g[i + 1]
  <2>1. SUFFICES ASSUME NEW i \in 0 .. n - 1 PROVE F[g[i]] = g[i + 1]
    OBVIOUS
  <2>2. i \in 0 .. n /\ i + 1 \in 0 .. n
    OBVIOUS
  <2>3. g[i] \in Cluster /\ g[i + 1] \in Cluster /\ E[g[i]] = g[i + 1]
    BY <1>1, <2>2
  <2> QED BY <2>3 DEF Grown
<1> QED BY <1>1, <1>2 DEF Leads

\* More links and again more.
LEMMA GrownMore ==
  ASSUME NEW D, NEW E, NEW F, Grown(D, E), Grown(E, F)
  PROVE  Grown(D, F)
  BY DEF Grown

\* A stretched FAT has the links it had.
LEMMA GrownStretched ==
  ASSUME NEW F, NEW n, NEW c, CanStretch(F, n, c)
  PROVE  Grown(F, Stretched(F, n, c))
<1>1. SUFFICES ASSUME NEW d \in Cluster, F[d] \in Cluster PROVE Stretched(F, n, c)[d] = F[d]
  BY DEF Grown
<1>2. d # n /\ d # c
  BY <1>1, ClusterNumbers DEF CanStretch
<1> QED BY <1>2, StretchedValues

\* The text is where it was when only sectors that were cut have changed.
LEMMA ReadsElsewhere ==
  ASSUME NEW G, NEW H, NEW a, NEW z, NEW hg, NEW hh, Reads(G, a, z, hg), H[Fat] = G[Fat],
         \A c \in Cluster : Data(c) \notin hh => Data(c) \notin hg /\ H[Data(c)] = G[Data(c)]
  PROVE  Reads(H, a, z, hh)
  BY DEF Reads

\* A disk stays sound when only sectors that were cut have changed.
LEMMA SaneElsewhere ==
  ASSUME NEW G, NEW H, NEW kp, NEW hg, NEW hh, Sane(G, kp, hg), H[Fat] = G[Fat], H[Dir(1)] = G[Dir(1)],
         \A c \in Cluster : Data(c) \notin hh => Data(c) \notin hg /\ H[Data(c)] = G[Data(c)]
  PROVE  Sane(H, kp, hh)
<1>1. CASE G[Dir(1)].clust = 0 /\ G[Dir(1)].size = 0 /\ \A c \in Cluster : kp[c] = 0
  BY <1>1 DEF Sane, Whole
<1>2. CASE ~ (G[Dir(1)].clust = 0 /\ G[Dir(1)].size = 0 /\ \A c \in Cluster : kp[c] = 0)
  <2>1. Reads(H, G[Dir(1)].clust, G[Dir(1)].size, hh)
    BY <1>2, ReadsElsewhere DEF Sane, Whole
  <2> QED BY <1>2, <2>1 DEF Sane, Whole
<1> QED BY <1>1, <1>2

\* Clusters are lost in the FAT and the directory only.
LEMMA LeaksElsewhere ==
  ASSUME NEW G, NEW H, NEW m, Leaks(G, m), H[Fat] = G[Fat], H[Dir(1)] = G[Dir(1)]
  PROVE  Leaks(H, m)
  BY DEF Leaks

\* Lost clusters can be counted.
LEMMA LostFinite ==
  ASSUME NEW F, NEW a
  PROVE  IsFiniteSet(Lost(F, a)) /\ Cardinality(Lost(F, a)) \in Nat
<1>1. IsFiniteSet(Cluster)
  <2>1. LastCluster \in Int
    BY ClusterNumbers
  <2>2. IsFiniteSet(2 .. LastCluster)
    BY SMTT(40), <2>1, FS_Interval
  <2> QED BY <2>2 DEF Cluster
<1>2. Lost(F, a) \in SUBSET Cluster
  BY DEF Lost
<1>3. IsFiniteSet(Lost(F, a))
  BY <1>1, <1>2, FS_Subset
<1> QED BY <1>3, FS_CardinalityType

\* Fewer clusters are lost when none is that was not.
LEMMA LostLess ==
  ASSUME NEW F, NEW a, NEW E, NEW b, Lost(F, a) \subseteq Lost(E, b)
  PROVE  Cardinality(Lost(F, a)) <= Cardinality(Lost(E, b))
<1>1. IsFiniteSet(Lost(E, b)) /\ Lost(F, a) \in SUBSET Lost(E, b)
  BY LostFinite
<1> QED BY <1>1, FS_Subset

\* One more cluster is lost.
LEMMA LostOneMore ==
  ASSUME NEW F, NEW a, NEW E, NEW b, NEW x, Lost(F, a) \subseteq Lost(E, b) \cup {x}
  PROVE  Cardinality(Lost(F, a)) <= Cardinality(Lost(E, b)) + 1
<1>1. IsFiniteSet(Lost(E, b)) /\ Cardinality(Lost(E, b)) \in Nat /\ Cardinality(Lost(F, a)) \in Nat
  BY LostFinite
<1> DEFINE T == Lost(E, b) \cup {x}
<1>2. IsFiniteSet(T) /\ (Cardinality(T) = Cardinality(Lost(E, b)) \/ Cardinality(T) = Cardinality(Lost(E, b)) + 1)
  BY <1>1, FS_AddElement
<1>3. Lost(F, a) \in SUBSET T
  OBVIOUS
<1>4. Cardinality(Lost(F, a)) <= Cardinality(T)
  BY <1>2, <1>3, FS_Subset
<1> QED BY <1>1, <1>2, <1>4

\* A chain of its own takes a free cluster, and one that is stretched another.
LEMMA LostFirst ==
  ASSUME NEW F, NEW n, CanStretch(F, n, 0)
  PROVE  Lost(Stretched(F, n, 0), n) \subseteq Lost(F, 0)
<1>1. SUFFICES ASSUME NEW d \in Lost(Stretched(F, n, 0), n) PROVE d \in Lost(F, 0)
  OBVIOUS
<1>2. d \in Cluster /\ Stretched(F, n, 0)[d] # Free /\ ~ Leads(Stretched(F, n, 0), n, 0, d) /\ n \in Cluster
  BY <1>1 DEF Lost, CanStretch
<1>3. d # n /\ d # 0
  BY <1>2, LeadsZero, ClusterNumbers
<1>4. F[d] # Free
  BY <1>2, <1>3, StretchedValues
<1>5. \A m \in Nat : ~ Leads(F, 0, m, d)
  BY LeadsCluster, ClusterNumbers
<1> QED BY <1>2, <1>4, <1>5 DEF Lost

\* A stretched chain loses no cluster.
LEMMA LostLonger ==
  ASSUME NEW F, NEW n, NEW c \in Cluster, CanStretch(F, n, c), NEW a, NEW k \in Nat, Leads(F, a, k, c)
  PROVE  Lost(Stretched(F, n, c), a) \subseteq Lost(F, a)
<1>1. SUFFICES ASSUME NEW d \in Lost(Stretched(F, n, c), a) PROVE d \in Lost(F, a)
  OBVIOUS
<1>2. d \in Cluster /\ Stretched(F, n, c)[d] # Free /\ \A m \in Nat : ~ Leads(Stretched(F, n, c), a, m, d)
  BY <1>1 DEF Lost
<1>3. Leads(Stretched(F, n, c), a, k + 1, n) /\ Leads(Stretched(F, n, c), a, k, c) /\ k + 1 \in Nat
  BY StretchedEnd, StretchedForward
<1>4. d # n /\ d # c
  BY <1>2, <1>3
<1>5. F[d] # Free
  BY <1>2, <1>4, StretchedValues
<1>6. \A m \in Nat : ~ Leads(F, a, m, d)
  BY <1>2, StretchedForward
<1> QED BY <1>2, <1>5, <1>6 DEF Lost

\* Without an entry, a chain of one cluster is lost.
LEMMA LostAlone ==
  ASSUME NEW F, NEW a \in Cluster, F[a] = Eoc
  PROVE  Lost(F, 0) \subseteq Lost(F, a) \cup {a}
<1>1. SUFFICES ASSUME NEW d \in Lost(F, 0), d # a PROVE d \in Lost(F, a)
  OBVIOUS
<1>2. SUFFICES ASSUME NEW m \in Nat, Leads(F, a, m, d) PROVE FALSE
  BY <1>1 DEF Lost
<1>3. m # 0
  BY <1>1, <1>2, LeadsZero
<1>4. 0 \in Nat /\ 0 < m
  BY <1>3
<1>5. PICK e \in Cluster : Leads(F, a, 0, e) /\ F[e] \in Cluster
  BY <1>2, <1>4, LeadsBefore
<1>6. e = a
  BY <1>5, LeadsZero
<1> QED BY <1>5, <1>6, ClusterNumbers

-----------------------------------------------------------------------------
\* The disk G with the buffer of the file f in its sector.
SeenBy(G, f) == IF f.sect = 0 THEN G ELSE With(G, Data(f.sect), f.buf)

\* The disk G has no more of the file f than its FAT F and its size say.
Older(G, F, f) ==
  G[Dir(1)].clust \in {0, f.sclust} /\ G[Dir(1)].size <= f.size /\ Grown(G[Fat].next, F)

\* Writing the buffer where the file is not yet recorded changes no text.
LEMMA SaneData ==
  ASSUME NEW G, DiskTyped(G), NEW kp, NEW hm, Sane(G, kp, hm),
         NEW R, DiskTyped(R), NEW f, f.sect \in Cluster, f.size \in Nat, Older(G, R[Fat].next, f),
         Reads(SeenBy(R, f), f.sclust, f.size, hm),
         NEW H, H[Data(f.sect)] = f.buf, \A t \in Sector : t # Data(f.sect) => H[t] = G[t]
  PROVE  Sane(H, kp, hm)
<1>1. /\ Data(f.sect) \in Sector /\ Data(f.sect) # Fat /\ Data(f.sect) # Dir(1) /\ Fat \in Sector /\ Dir(1) \in Sector
      /\ f.sect # 0 /\ \A c \in Cluster : Data(c) \in Sector /\ (Data(c) = Data(f.sect) => c = f.sect)
  BY Sectors, ClusterNumbers
<1>2. H[Fat] = G[Fat] /\ H[Dir(1)] = G[Dir(1)]
  BY <1>1
<1> DEFINE a == G[Dir(1)].clust
           z == G[Dir(1)].size
<1>3. CASE a = 0 /\ z = 0 /\ \A c \in Cluster : kp[c] = 0
  BY <1>2, <1>3 DEF Sane, Whole
<1>4. CASE a \in Cluster /\ z > 0 /\ Reads(G, a, z, hm)
  <2>1. a = f.sclust /\ z <= f.size /\ z \in Nat /\ Grown(G[Fat].next, R[Fat].next)
    BY <1>4, ClusterNumbers DEF Older, Sane, Whole
  <2>2. SeenBy(R, f)[Data(f.sect)] = f.buf /\ SeenBy(R, f)[Fat] = R[Fat]
    BY <1>1 DEF SeenBy, With, DiskTyped
  <2>3. Reads(H, a, z, hm)
    <3> HIDE DEF a, z
    <3>1. SUFFICES ASSUME NEW n \in Nat, NEW c \in Cluster, NEW i \in 1 .. SectorSize,
                          Leads(G[Fat].next, a, n, c), Upto(n, i) <= z, Data(c) \notin hm
          PROVE  H[Data(c)][i] = Text(Upto(n, i) - 1)
      BY <1>2 DEF Reads
    <3>2. CASE c = f.sect
      <4>1. Leads(R[Fat].next, f.sclust, n, c)
        BY <2>1, <3>1, GrownLeads
      <4>2. Upto(n, i) <= f.size
        <5>1. i \in Nat /\ SectorSize \in Nat
          BY ClusterNumbers
        <5>2. Upto(n, i) \in Nat
          BY <5>1, UptoNumber
        <5> QED BY <2>1, <3>1, <5>2
      <4> QED BY <2>2, <3>1, <3>2, <4>1, <4>2 DEF Reads
    <3>3. CASE c # f.sect
      <4>1. H[Data(c)] = G[Data(c)]
        BY <1>1, <3>3
      <4> QED BY <1>4, <3>1, <4>1 DEF Reads
    <3> QED BY <3>2, <3>3
  <2> QED BY <1>2, <1>4, <2>3, ClusterNumbers DEF Sane, Whole
<1> QED BY <1>3, <1>4 DEF Sane, Whole

\* The string is what the text has at the position o.
Spells(o, str) == \A j \in 1 .. Len(str) : str[j] = Text(o + j - 1)

\* How many bytes are still to put.
Rests(ss) ==
  IF ss = <<>> THEN 0
  ELSE IF Len(ss) = 1 THEN Len(ss[1]) ELSE Len(ss[1]) + Len(ss[2])

\* The strings still to put go on with the text at the position z.
Flows(ss, z) ==
  \/ ss = <<>> /\ (z = 0 \/ LineEnds(z))
  \/ Len(ss) = 1 /\ Spells(z, ss[1]) /\ LineEnds(z + Len(ss[1]))
  \/ Len(ss) = 2 /\ Spells(z, ss[1]) /\ z + Len(ss[1]) = Len(Greeting) /\ ss[2] = Line

\* Remainders of a line.
LEMMA Periods ==
  ASSUME NEW l \in Nat, l > 0, NEW x \in Nat, x % l = 0
  PROVE  /\ (x + l) % l = 0
         /\ \A k \in 0 .. l - 1 : (x + k) % l = k
<1>1. ASSUME NEW m \in Int, NEW k \in 0 .. l - 1 PROVE (m * l + k) % l = k
  BY Z3
<1>2. x = (x \div l) * l + (x % l) /\ x \div l \in Int
  BY Z3
<1>3. PICK q \in Int : x = q * l
  <2>1. (x \div l) * l \in Int
    BY <1>2
  <2> QED BY <1>2, <2>1
<1>4. x + l = (q + 1) * l + 0 /\ q + 1 \in Int /\ 0 \in 0 .. l - 1
  BY <1>3
<1>5. (x + l) % l = 0
  <2>1. ((q + 1) * l + 0) % l = 0
    BY <1>1, <1>4
  <2> QED BY <1>4, <2>1
<1> QED BY <1>1, <1>3, <1>5

\* The greeting and a line are not empty, and fit a sector.
LEMMA Lengths ==
  /\ Greeting \in Seq(STRING) /\ Line \in Seq(STRING)
  /\ Len(Greeting) \in Nat /\ Len(Greeting) > 0 /\ Len(Line) \in Nat /\ Len(Line) > 0
  /\ Len(Greeting) + Len(Line) <= SectorSize
<1>1. Greeting \in Seq(STRING) /\ Greeting # <<>> /\ Line \in Seq(STRING) /\ Line # <<>>
  BY FatFsAssumption
<1> QED BY <1>1, FatFsAssumption

\* The text begins with the greeting and a line; behind a line comes the next.
LEMMA SpellsGreeting == Spells(0, Greeting)
<1>1. \A j \in 1 .. Len(Greeting) : 0 + j - 1 < Len(Greeting) /\ (0 + j - 1) + 1 = j
  BY Lengths
<1> QED BY <1>1 DEF Spells, Text

\* Behind a number of lines comes the next.
LEMMA SpellsLine ==
  ASSUME NEW z \in Nat, z >= Len(Greeting), (z - Len(Greeting)) % Len(Line) = 0
  PROVE  Spells(z, Line) /\ LineEnds(z + Len(Line))
<1>1. PICK g \in Nat, l \in Nat : g = Len(Greeting) /\ l = Len(Line) /\ l > 0
  BY Lengths
<1>2. PICK x \in Nat : x = z - g /\ z = g + x
  BY <1>1
<1>3. x % l = 0
  BY <1>1, <1>2
<1>4. (x + l) % l = 0 /\ \A k \in 0 .. l - 1 : (x + k) % l = k
  BY <1>1, <1>3, Periods
<1>5. ASSUME NEW j \in 1 .. l PROVE Text(z + j - 1) = Line[j]
  <2>1. j - 1 \in 0 .. l - 1 /\ ~ (z + j - 1 < g) /\ (z + j - 1) - g = x + (j - 1) /\ (j - 1) + 1 = j
    BY <1>1, <1>2
  <2>2. (x + (j - 1)) % l = j - 1
    BY <1>4, <2>1
  <2>3. Text(z + j - 1) = Line[(((z + j - 1) - g) % l) + 1]
    BY <1>1, <2>1 DEF Text
  <2>4. ((z + j - 1) - g) % l = j - 1
    BY <2>1, <2>2
  <2> QED BY <2>1, <2>3, <2>4
<1>6. Spells(z, Line)
  BY <1>1, <1>5 DEF Spells
<1>7. z + l \in Nat /\ z + l >= g + l /\ (z + l) - g = x + l
  BY <1>2
<1>8. LineEnds(z + l)
  <2>1. ((z + l) - g) % l = 0
    BY <1>4, <1>7
  <2> QED BY <1>1, <1>7, <2>1 DEF LineEnds
<1> QED BY <1>1, <1>6, <1>8

\* The first line is behind the greeting.
LEMMA SpellsFirst == Spells(Len(Greeting), Line) /\ LineEnds(Len(Greeting) + Len(Line))
<1>1. PICK g \in Nat, l \in Nat : g = Len(Greeting) /\ l = Len(Line) /\ l > 0
  BY Lengths
<1>2. (g - g) % l = 0
  <2>1. 0 % l = 0
    BY <1>1, Z3
  <2> QED BY <2>1
<1> QED BY <1>1, <1>2, SpellsLine

\* A file that ends with a line goes on with a line.
LEMMA SpellsNext ==
  ASSUME NEW z, LineEnds(z)
  PROVE  Spells(z, Line) /\ LineEnds(z + Len(Line))
<1>1. z \in Nat /\ z >= Len(Greeting) /\ (z - Len(Greeting)) % Len(Line) = 0
  BY Lengths DEF LineEnds
<1> QED BY <1>1, SpellsLine

\* What is left of a string goes on where the part taken ends.
PartSpelt(o, s, k, t) == Spells(o + k, t) /\ Len(t) = Len(s) - k

\* The rest of a string goes on with the text where the part taken ends.
LEMMA SpellsPart ==
  ASSUME NEW o \in Nat, NEW s \in Seq(STRING), Spells(o, s), NEW k \in Nat, k < Len(s),
         NEW t, t = SubSeq(s, k + 1, Len(s))
  PROVE  PartSpelt(o, s, k, t)
<1>1. Len(s) \in Nat
  OBVIOUS
<1>2. k + 1 \in 1 .. Len(s) + 1 /\ Len(s) \in (k + 1) - 1 .. Len(s) /\ Len(s) - (k + 1) + 1 = Len(s) - k
  BY <1>1
<1>3. /\ Len(t) = Len(s) - (k + 1) + 1
      /\ \A i \in 1 .. Len(s) - (k + 1) + 1 : t[i] = s[(k + 1) + i - 1]
  <2>1. PICK m : m = k + 1
    OBVIOUS
  <2>2. m \in 1 .. Len(s) + 1 /\ Len(s) \in m - 1 .. Len(s) /\ t = SubSeq(s, m, Len(s))
    BY <1>2, <2>1
  <2>3. Len(t) = Len(s) - m + 1 /\ \A i \in 1 .. Len(s) - m + 1 : t[i] = s[m + i - 1]
    BY <2>2, SubSeqProperties
  <2> QED BY ONLY <2>1, <2>3, Zenon
<1>4. Len(t) = Len(s) - k
  BY <1>2, <1>3
<1>5. ASSUME NEW j \in 1 .. Len(t) PROVE t[j] = Text((o + k) + j - 1)
  <2>1. PICK l : l = Len(s)
    OBVIOUS
  <2>2. l \in Nat /\ j \in 1 .. l - k /\ k \in Nat /\ k < l /\ o \in Nat
    BY <1>1, <1>4, <2>1
  <2>3. /\ k + j \in 1 .. l /\ (k + 1) + j - 1 = k + j /\ o + (k + j) - 1 = (o + k) + j - 1
        /\ j \in 1 .. l - (k + 1) + 1
    BY ONLY <2>2
  <2>4. t[j] = s[(k + 1) + j - 1]
    BY ONLY <1>3, <2>1, <2>3, Zenon
  <2>5. s[k + j] = Text(o + (k + j) - 1)
    BY <2>1, <2>3, Zenon DEF Spells
  <2> QED BY ONLY <2>3, <2>4, <2>5, Zenon
<1> QED BY <1>4, <1>5 DEF Spells, PartSpelt

\* One or two strings, what comes of them when a part of the first is taken.
Shortened(h, k) ==
  /\ Len(Tail(left)) = Len(left) - 1 /\ (Len(left) = 1 => Tail(left) = <<>>)
  /\ Len(left) = 2 => Tail(left) # <<>> /\ Tail(left)[1] = left[2] /\ Len(left[2]) \in Nat
  /\ k = Len(h) => Rest = Tail(left)
  /\ k # Len(h) => /\ Rest # <<>> /\ Len(Rest) = Len(left) /\ Rest[1] = SubSeq(h, k + 1, Len(h))
                   /\ (Len(left) = 2 => Rest[2] = left[2])

\* What is left of the strings when a part of the first is taken.
LEMMA RestStrings ==
  ASSUME file.fptr \in Nat, left # <<>>, left \in Seq(Seq(STRING) \ {<<>>}), Len(left) <= 2
  PROVE  /\ Head(left) = left[1] /\ left[1] \in Seq(STRING) /\ Len(left[1]) \in Nat
         /\ Len(left) \in 1 .. 2
         /\ Taken \in 1 .. Len(left[1])
         /\ Shortened(left[1], Taken)
<1> DEFINE Nonempty == Seq(STRING) \ {<<>>}
<1>0. \A s \in Nonempty : s \in Seq(STRING) /\ s # <<>> /\ Len(s) \in Nat /\ Len(s) >= 1
  OBVIOUS
<1>01. left \in Seq(Nonempty)
  OBVIOUS
<1> HIDE DEF Nonempty
<1>1. Head(left) \in Nonempty /\ Head(left) = left[1] /\ Len(left) \in Nat /\ Len(left) >= 1
  BY <1>01
<1>11. /\ Tail(left) \in Seq(Nonempty) /\ Len(Tail(left)) = Len(left) - 1
       /\ \A i \in 1 .. Len(Tail(left)) : Tail(left)[i] = left[i + 1]
  BY <1>01, HeadTailProperties
<1>2. PICK h : h = Head(left) /\ h = left[1] /\ h \in Nonempty
  BY <1>1
<1>3. h \in Seq(STRING) /\ h # <<>> /\ Len(h) \in Nat /\ Len(h) >= 1
  BY <1>0, <1>2
<1>4. Taken \in 1 .. Len(h)
  <2>1. Taken \in Nat /\ Taken >= 1
    BY TakenStrings
  <2>2. PICK m : m = file.fptr % SectorSize /\ m \in 0 .. SectorSize - 1
    BY InSector
  <2>3. Taken = (IF SectorSize - m < Len(h) THEN SectorSize - m ELSE Len(h))
    BY <1>2, <2>2, Zenon DEF Taken, Shorter, Room
  <2>4. SectorSize \in Nat
    BY ClusterNumbers
  <2> QED BY <1>3, <2>1, <2>2, <2>3, <2>4
<1>5. Len(left) = 1 => Tail(left) = <<>>
  <2>1. PICK T : T = Tail(left)
    OBVIOUS
  <2>2. T \in Seq(Nonempty) /\ Len(T) = Len(left) - 1
    BY ONLY <1>11, <2>1
  <2>3. T # <<>> => Len(T) # 0
    BY ONLY <2>2, EmptySeq
  <2> QED BY ONLY <2>1, <2>2, <2>3
<1>51. Len(left) = 2 => Tail(left) # <<>> /\ Tail(left)[1] = left[2] /\ Len(left[2]) \in Nat
  <2>1. SUFFICES ASSUME Len(left) = 2 PROVE Tail(left) # <<>> /\ Tail(left)[1] = left[2] /\ Len(left[2]) \in Nat
    OBVIOUS
  <2>2. PICK T, L : T = Tail(left) /\ L = left
    OBVIOUS
  <2>3. T \in Seq(Nonempty) /\ Len(T) = Len(L) - 1 /\ \A i \in 1 .. Len(T) : T[i] = L[i + 1]
    BY ONLY <1>11, <2>2
  <2>4. L \in Seq(Nonempty) /\ Len(L) = 2
    BY ONLY <1>01, <2>1, <2>2
  <2>5. Len(T) = 1 /\ T # <<>>
    BY ONLY <2>3, <2>4, EmptySeq
  <2>6. T[1] = L[2]
    BY ONLY <2>3, <2>5
  <2>7. L[2] \in Nonempty
    <3>1. 2 \in 1 .. Len(L)
      BY <2>4
    <3> QED BY ONLY <2>4, <3>1, ElementOfSeq
  <2>8. Len(L[2]) \in Nat
    BY <1>0, <2>7
  <2> QED BY ONLY <2>2, <2>5, <2>6, <2>8
<1>6. Taken = Len(h) => Rest = Tail(left)
  BY <1>2 DEF Rest
<1>7. ASSUME Taken # Len(h)
      PROVE  /\ Rest # <<>> /\ Len(Rest) = Len(left) /\ Rest[1] = SubSeq(h, Taken + 1, Len(h))
             /\ Len(left) = 2 => Rest[2] = left[2]
  <2>1. PICK t : t = SubSeq(h, Taken + 1, Len(h))
    OBVIOUS
  <2>2. Rest = <<t>> \o Tail(left)
    BY <1>2, <1>7, <2>1 DEF Rest
  <2>3. t \in Nonempty \cup {t} /\ Tail(left) \in Seq(Nonempty \cup {t}) /\ <<t>> \in Seq(Nonempty \cup {t})
    <3>1. Nonempty \subseteq Nonempty \cup {t}
      OBVIOUS
    <3>2. Tail(left) \in Seq(Nonempty \cup {t})
      BY ONLY <3>1, <1>11, SeqMonotonic
    <3> QED BY <3>2
  <2>4. Len(<<t>>) = 1 /\ <<t>>[1] = t
    OBVIOUS
  <2>5. PICK s1, s2 : s1 = <<t>> /\ s2 = Tail(left)
    OBVIOUS
  <2>6. /\ Len(s1 \o s2) = Len(s1) + Len(s2)
        /\ \A i \in 1 .. Len(s1) + Len(s2) : (s1 \o s2)[i] = IF i <= Len(s1) THEN s1[i] ELSE s2[i - Len(s1)]
    BY <2>3, <2>5, ConcatProperties
  <2>7. Rest = s1 \o s2 /\ Len(s1) = 1 /\ s1[1] = t /\ Len(s2) = Len(left) - 1
    BY <1>11, <2>2, <2>4, <2>5
  <2>8. Len(Rest) = Len(left) /\ Rest[1] = t
    BY <1>1, <2>6, <2>7
  <2>9. ASSUME Len(left) = 2 PROVE Rest[2] = left[2]
    <3>1. 2 \in 1 .. Len(s1) + Len(s2) /\ ~ (2 <= Len(s1)) /\ 2 - Len(s1) = 1
      BY <2>7, <2>9
    <3>2. Rest[2] = s2[1]
      BY <2>6, <2>7, <3>1
    <3> QED BY <1>51, <2>5, <2>9, <3>2
  <2>10. Rest # <<>>
    BY <1>1, <2>8
  <2> QED BY <2>1, <2>8, <2>9, <2>10
<1>8. Shortened(h, Taken)
  <2>1. Len(Tail(left)) = Len(left) - 1
    BY ONLY <1>11
  <2>2. Taken # Len(h) => /\ Rest # <<>> /\ Len(Rest) = Len(left) /\ Rest[1] = SubSeq(h, Taken + 1, Len(h))
                         /\ (Len(left) = 2 => Rest[2] = left[2])
    BY ONLY <1>7
  <2> QED BY ONLY <2>1, <2>2, <1>5, <1>51, <1>6, Zenon DEF Shortened
<1>9. Len(left) \in 1 .. 2
  <2>1. PICK n : n = Len(left)
    OBVIOUS
  <2>2. n \in Nat /\ n >= 1 /\ n <= 2
    BY <1>1, <2>1, Zenon
  <2>3. n \in 1 .. 2
    BY ONLY <2>2
  <2> QED BY ONLY <2>1, <2>3
<1> QED BY ONLY <1>1, <1>2, <1>3, <1>4, <1>8, <1>9, Zenon

\* What is left is less by what was taken.
LEMMA RestsLess ==
  ASSUME file.fptr \in Nat, left # <<>>, left \in Seq(Seq(STRING) \ {<<>>}), Len(left) <= 2
  PROVE  /\ Len(Rest) <= 2 /\ Len(Tail(left)) <= 2
         /\ Rests(left) \in Nat /\ Rests(left) > 0
         /\ Rests(Rest) \in Nat /\ Rests(Rest) + Taken = Rests(left)
         /\ Rests(Tail(left)) \in Nat /\ Rests(Tail(left)) <= Rests(left)
<1>0. /\ left[1] \in Seq(STRING) /\ Len(left[1]) \in Nat /\ Len(left) \in 1 .. 2
      /\ Taken \in 1 .. Len(left[1]) /\ Shortened(left[1], Taken)
  BY RestStrings
<1>1. PICK h, k, T, R : h = left[1] /\ k = Taken /\ T = Tail(left) /\ R = Rest
  OBVIOUS
<1>2. /\ h \in Seq(STRING) /\ Len(h) \in Nat /\ k \in 1 .. Len(h)
      /\ Len(T) = Len(left) - 1 /\ (Len(left) = 1 => T = <<>>)
      /\ Len(left) = 2 => T # <<>> /\ T[1] = left[2] /\ Len(left[2]) \in Nat
      /\ k = Len(h) => R = T
      /\ k # Len(h) => /\ R # <<>> /\ Len(R) = Len(left) /\ R[1] = SubSeq(h, k + 1, Len(h))
                       /\ (Len(left) = 2 => R[2] = left[2])
  BY <1>0, <1>1 DEF Shortened
<1>3. ASSUME k # Len(h) PROVE Len(R[1]) = Len(h) - k
  <2>1. PICK m, l : m = k + 1 /\ l = Len(h)
    OBVIOUS
  <2>2. m \in Int /\ l \in Int /\ \A i \in m .. l : h[i] \in STRING
    BY <1>2, <2>1
  <2>3. Len(SubSeq(h, m, l)) = IF m <= l THEN l - m + 1 ELSE 0
    BY <2>2, SubSeqProperties
  <2> QED BY <1>2, <1>3, <2>1, <2>3
<1>4. CASE Len(left) = 1
  <2>1. Rests(left) = Len(h) /\ Rests(T) = 0 /\ T = <<>> /\ Len(T) = 0
    BY <1>1, <1>2, <1>4 DEF Rests
  <2>2. k # Len(h) => Rests(R) = Len(h) - k /\ Len(R) = 1
    BY <1>2, <1>3, <1>4 DEF Rests
  <2>3. Len(R) <= 2 /\ Len(T) <= 2 /\ Rests(left) > 0 /\ Rests(left) \in Nat /\ Rests(R) \in Nat /\ Rests(R) + k = Rests(left)
        /\ Rests(T) \in Nat /\ Rests(T) <= Rests(left)
    BY <1>2, <2>1, <2>2
  <2> QED BY <1>1, <2>3, Zenon
<1>5. CASE Len(left) = 2
  <2>1. Rests(left) = Len(h) + Len(left[2]) /\ Rests(T) = Len(left[2]) /\ Len(T) = 1
    BY <1>1, <1>2, <1>5 DEF Rests
  <2>2. k # Len(h) => Rests(R) = (Len(h) - k) + Len(left[2]) /\ Len(R) = 2
    BY <1>2, <1>3, <1>5 DEF Rests
  <2>3. Len(R) <= 2 /\ Len(T) <= 2 /\ Rests(left) > 0 /\ Rests(left) \in Nat /\ Rests(R) \in Nat /\ Rests(R) + k = Rests(left)
        /\ Rests(T) \in Nat /\ Rests(T) <= Rests(left)
    <3>1. PICK w, y : w = Len(left[2]) /\ y = Len(h)
      OBVIOUS
    <3>2. w \in Nat /\ y \in Nat /\ k \in 1 .. y /\ Rests(left) = y + w /\ Rests(T) = w /\ Len(T) = 1
          /\ (k = y => R = T) /\ (k # y => Rests(R) = (y - k) + w /\ Len(R) = 2)
      BY ONLY <1>2, <2>1, <2>2, <1>5, <3>1, Zenon
    <3>3. k = y => Rests(R) = w /\ Len(R) = 1
      BY ONLY <3>2, Zenon
    <3>4. PICK a, b, c, d, e : a = Rests(R) /\ b = Rests(T) /\ c = Rests(left) /\ d = Len(R) /\ e = Len(T)
      OBVIOUS
    <3>5. /\ w \in Nat /\ y \in Nat /\ k \in 1 .. y /\ c = y + w /\ b = w /\ e = 1
          /\ (k = y => a = w /\ d = 1) /\ (k # y => a = (y - k) + w /\ d = 2)
      BY ONLY <3>2, <3>3, <3>4, Zenon
    <3>6. d <= 2 /\ e <= 2 /\ c > 0 /\ c \in Nat /\ a \in Nat /\ a + k = c /\ b \in Nat /\ b <= c
      BY ONLY <3>5
    <3> QED BY ONLY <3>4, <3>6, Zenon
  <2> QED BY <1>1, <2>3, Zenon
<1> QED BY <1>0, <1>4, <1>5

\* What is taken is the text, and the rest goes on with it.
LEMMA FlowsOn ==
  ASSUME file.fptr \in Nat, left # <<>>, left \in Seq(Seq(STRING) \ {<<>>}), Len(left) <= 2,
         Flows(left, file.fptr)
  PROVE  /\ Flows(Rest, file.fptr + Taken)
         /\ \A i \in 1 .. Taken : Head(left)[i] = Text(file.fptr + i - 1)
<1>0. /\ Head(left) = left[1] /\ left[1] \in Seq(STRING) /\ Len(left[1]) \in Nat /\ Len(left) \in 1 .. 2
      /\ Taken \in 1 .. Len(left[1]) /\ Shortened(left[1], Taken)
  BY RestStrings
<1>1. PICK h, k, T, R, z : h = left[1] /\ k = Taken /\ T = Tail(left) /\ R = Rest /\ z = file.fptr
  OBVIOUS
<1>2. /\ h \in Seq(STRING) /\ Len(h) \in Nat /\ k \in 1 .. Len(h) /\ z \in Nat
      /\ Len(T) = Len(left) - 1 /\ (Len(left) = 1 => T = <<>>)
      /\ Len(left) = 2 => T # <<>> /\ T[1] = left[2] /\ Len(left[2]) \in Nat
      /\ k = Len(h) => R = T
      /\ k # Len(h) => /\ R # <<>> /\ Len(R) = Len(left) /\ R[1] = SubSeq(h, k + 1, Len(h))
                       /\ (Len(left) = 2 => R[2] = left[2])
  BY <1>0, <1>1 DEF Shortened
<1>3. /\ Spells(z, h)
      /\ Len(left) = 1 => LineEnds(z + Len(h))
      /\ Len(left) = 2 => z + Len(h) = Len(Greeting) /\ left[2] = Line
  BY <1>0, <1>1 DEF Flows
<1>4. \A i \in 1 .. Taken : Head(left)[i] = Text(file.fptr + i - 1)
  <2>1. \A i \in 1 .. k : i \in 1 .. Len(h)
    BY ONLY <1>2
  <2>2. \A i \in 1 .. k : h[i] = Text(z + i - 1)
    BY ONLY <1>3, <2>1, Zenon DEF Spells
  <2> QED BY ONLY <1>0, <1>1, <2>2, Zenon
<1>5. Flows(R, z + k)
  <2>1. CASE k = Len(h)
    <3>1. CASE Len(left) = 1
      BY <1>2, <1>3, <2>1, <3>1 DEF Flows
    <3>2. CASE Len(left) = 2
      <4>1. Len(R) = 1 /\ R[1] = Line /\ z + k = Len(Greeting)
        BY <1>2, <1>3, <2>1, <3>2
      <4> QED BY <4>1, SpellsFirst DEF Flows
    <3> QED BY <1>0, <3>1, <3>2
  <2>2. CASE k # Len(h)
    <3>1. PICK t : t = SubSeq(h, k + 1, Len(h))
      OBVIOUS
    <3>2. k \in Nat /\ k < Len(h)
      BY <1>2, <2>2
    <3>3. Spells(z + k, t) /\ Len(t) = Len(h) - k
      <4>1. z \in Nat /\ h \in Seq(STRING) /\ Spells(z, h) /\ t = SubSeq(h, k + 1, Len(h))
        BY <1>2, <1>3, <3>1
      <4>2. PartSpelt(z, h, k, t)
        BY ONLY <3>2, <4>1, SpellsPart
      <4> QED BY <4>2 DEF PartSpelt
    <3>4. (z + k) + Len(t) = z + Len(h)
      BY <1>2, <3>2, <3>3
    <3>5. R[1] = t /\ Len(R) = Len(left) /\ (Len(left) = 2 => R[2] = left[2])
      BY <1>2, <2>2, <3>1
    <3> QED BY <1>0, <1>3, <3>3, <3>4, <3>5 DEF Flows
  <2> QED BY <2>1, <2>2
<1> QED BY <1>1, <1>4, <1>5

\* The file of the first directory sector is the one that is recorded.
LEMMA SaneRecorded ==
  ASSUME DiskTyped(chip), NEW kp, NEW hm, Sane(chip, kp, hm), Coherent(chip, kp)
  PROVE  /\ Recorded = chip[Dir(1)] /\ Whole(chip, Recorded.clust, Recorded.size, kp, hm)
         /\ Recorded.clust \in Cluster => /\ Heads(chip[Fat].next, Recorded.clust)
                                          /\ Bounded(chip[Fat].next, kp, Recorded.clust, Recorded.size)
<1>1. 1 \in 1 .. Root /\ \A j \in 1 .. Root : ~ (j < 1)
  BY Sectors
<1>2. chip[Dir(1)].kind # "blank"
  BY DEF Sane
<1>3. Recorded = chip[Dir(1)]
  BY <1>1, <1>2, RecordedEntry
<1>4. EntryTyped(chip[Dir(1)])
  BY <1>1, Reading
<1>5. ASSUME Recorded.clust \in Cluster
      PROVE  /\ Heads(chip[Fat].next, Recorded.clust)
             /\ Bounded(chip[Fat].next, kp, Recorded.clust, Recorded.size)
  <2>1. chip[Dir(1)].kind # "free"
    BY <1>3, <1>4, <1>5, ClusterNumbers DEF EntryTyped, EndOfTable, Entry
  <2>2. chip[Dir(1)].kind = "file"
    BY <1>2, <1>4, <2>1 DEF EntryTyped
  <2>3. EntryFits(chip[Fat].next, kp, chip[Dir(1)].clust, chip[Dir(1)].size)
    BY <1>1, <2>2 DEF Coherent
  <2> QED BY <1>3, <1>5, <2>3, ClusterNumbers DEF EntryFits
<1> QED BY <1>3, <1>5 DEF Sane

\* What the properties of the text say of the chip.
TextOn(hm) ==
  /\ Recorded.size > 0 =>
       /\ Recorded.size <= SectorSize * LastCluster
       /\ Chained[(Recorded.size - 1) \div SectorSize] \in Cluster
  /\ \A c \in Cluster :
       /\ InFile(c) >= kept[c]
       /\ Data(c) \notin hm =>
            \A n \in Place(c), i \in 1 .. InFile(c) :
              chip[Data(c)][i] = Text(n * SectorSize + i - 1)

\* A disk without a file holds its text.
LEMMA NoFileText ==
  ASSUME DiskTyped(chip), KeptTyped(kept), Recorded.clust = 0, Recorded.size = 0,
         \A c \in Cluster : kept[c] = 0, NEW hm
  PROVE  TextOn(hm)
<1>1. \A c \in Cluster : Place(c) = {} /\ InFile(c) = 0
  <2>1. SUFFICES ASSUME NEW c \in Cluster PROVE Place(c) = {} /\ InFile(c) = 0
    OBVIOUS
  <2>2. \A n \in Nat : ~ Leads(chip[Fat].next, Recorded.clust, n, c)
    BY LeadsCluster, ClusterNumbers
  <2> QED BY <2>2, InFileNot
<1> QED BY <1>1 DEF TextOn

\* A chain that reads as the text holds it where the properties look for it.
LEMMA FileText ==
  ASSUME DiskTyped(chip), KeptTyped(kept), NEW hm, NEW F, F = chip[Fat].next,
         NEW a \in Cluster, a = Recorded.clust, NEW z \in Nat, z = Recorded.size, z > 0,
         Heads(F, a), Bounded(F, kept, a, z), Reaches(F, a, z), KeptOn(F, kept, a), Reads(chip, a, z, hm)
  PROVE  TextOn(hm)
<1>1. Links(F) /\ SectorSize \in Nat /\ SectorSize > 0 /\ LastCluster \in Nat /\ LastCluster >= 2
  BY Reading, ClusterNumbers
<1>2. z <= SectorSize * LastCluster /\ Chained[(z - 1) \div SectorSize] \in Cluster
  <2>1. PICK n \in Nat, c \in Cluster : Leads(F, a, n, c) /\ Upto(n, 0) < z /\ z <= Upto(n + 1, 0)
    BY DEF Reaches
  <2>2. n <= LastCluster - 2
    BY <1>1, <2>1, LeadsShort
  <2>3. n \in 0 .. LastCluster /\ n < LastCluster
    BY <1>1, <2>2
  <2>4. Upto(n, 0) + SectorSize <= Upto(LastCluster, 0) /\ Upto(n + 1, 0) = Upto(n, 0) + SectorSize /\ Upto(n, 0) \in Nat
    BY <1>1, <2>3, UptoOrder, UptoNumber
  <2>5. Upto(LastCluster, 0) = SectorSize * LastCluster
    <3>1. ASSUME NEW x \in Nat, NEW y \in Nat PROVE x * y + 0 = y * x
      BY Z3
    <3> QED BY <1>1, <3>1 DEF Upto
  <2>6. Upto(LastCluster, 0) \in Nat
    BY <1>1, UptoNumber
  <2>7. z <= SectorSize * LastCluster
    BY <1>1, <2>1, <2>4, <2>5, <2>6
  <2>8. (z - 1) \div SectorSize = n
    <3>1. ASSUME NEW S \in Nat, S > 0, NEW m \in Nat, NEW q \in 0 .. S - 1 PROVE (m * S + q) \div S = m
      BY <3>1, Z3
    <3>2. PICK p : p = n * SectorSize
      OBVIOUS
    <3>3. p = Upto(n, 0)
      BY <2>4, <3>2 DEF Upto
    <3>4. PICK q \in 0 .. SectorSize - 1 : z - 1 = p + q
      <4>1. p \in Nat /\ p < z /\ z <= p + SectorSize
        BY <2>1, <2>4, <3>3
      <4>2. (z - 1) - p \in 0 .. SectorSize - 1 /\ z - 1 = p + ((z - 1) - p)
        BY <1>1, <4>1
      <4> QED BY <4>2
    <3>5. z - 1 = n * SectorSize + q
      BY <3>2, <3>4
    <3> QED BY <1>1, <3>1, <3>5
  <2>9. Chained[n] = c
    BY <2>1, <2>3, ChainedLeads
  <2> QED BY <2>7, <2>8, <2>9
<1>3. ASSUME NEW c \in Cluster PROVE InFile(c) >= kept[c]
  <2>1. kept[c] \in 0 .. SectorSize /\ InFile(c) \in 0 .. SectorSize
    BY InFileNumber DEF KeptTyped
  <2>2. CASE kept[c] > 0
    <3>1. PICK n \in Nat : Leads(F, a, n, c)
      BY <2>2 DEF KeptOn
    <3>2. InFile(c) = Clip(n, z)
      BY <3>1, InFileLeads
    <3>3. Upto(n, kept[c]) <= z /\ kept[c] \in 1 .. SectorSize
      BY <1>1, <2>1, <2>2, <3>1 DEF Bounded
    <3>4. kept[c] <= Clip(n, z)
      BY <3>3, ClipBounds
    <3> QED BY <1>1, <2>1, <3>2, <3>4
  <2>3. CASE ~ (kept[c] > 0)
    BY <1>1, <2>1, <2>3
  <2> QED BY <2>2, <2>3
<1>4. ASSUME NEW c \in Cluster, Data(c) \notin hm, NEW n \in Place(c), NEW i \in 1 .. InFile(c)
      PROVE  chip[Data(c)][i] = Text(n * SectorSize + i - 1)
  <2>1. n \in 0 .. LastCluster /\ Chained[n] = c /\ n \in Nat
    BY <1>1, <1>4 DEF Place
  <2>2. Leads(F, a, n, c)
    BY <2>1, ChainedLeads
  <2>3. InFile(c) = Clip(n, z)
    BY <2>1, <2>2, InFileLeads
  <2>4. InFile(c) \in 0 .. SectorSize
    BY InFileNumber
  <2>5. i \in 1 .. SectorSize /\ i <= Clip(n, z)
    BY <1>1, <2>3, <2>4
  <2>6. Upto(n, i) <= z
    BY <2>1, <2>5, ClipBounds
  <2>7. chip[Data(c)][i] = Text(Upto(n, i) - 1)
    BY <1>4, <2>1, <2>2, <2>5, <2>6 DEF Reads
  <2>8. PICK u : u = Upto(n, i) - 1
    OBVIOUS
  <2>9. u = n * SectorSize + i - 1
    <3>1. PICK p \in Nat : p = n * SectorSize
      BY <1>1, <2>1
    <3>2. Upto(n, i) = p + i
      BY <3>1 DEF Upto
    <3>3. u = p + i - 1
      <4>1. i \in Nat
        BY <1>1, <2>5
      <4> QED BY ONLY <2>8, <3>1, <3>2, <4>1
    <3> QED BY ONLY <3>1, <3>3
  <2>10. chip[Data(c)][i] = Text(u)
    BY ONLY <2>7, <2>8
  <2> QED BY ONLY <2>9, <2>10
<1> QED BY <1>2, <1>3, <1>4 DEF TextOn

\* A sound disk holds the text.
LEMMA SaneText ==
  ASSUME DiskTyped(chip), KeptTyped(kept), NEW hm, Sane(chip, kept, hm), Coherent(chip, kept)
  PROVE  TextOn(hm)
<1>1. /\ Recorded = chip[Dir(1)] /\ Whole(chip, Recorded.clust, Recorded.size, kept, hm)
      /\ Recorded.clust \in Cluster => /\ Heads(chip[Fat].next, Recorded.clust)
                                       /\ Bounded(chip[Fat].next, kept, Recorded.clust, Recorded.size)
  BY SaneRecorded
<1>2. PICK F, a, z : F = chip[Fat].next /\ a = Recorded.clust /\ z = Recorded.size
  OBVIOUS
<1>3. CASE a = 0 /\ z = 0 /\ \A c \in Cluster : kept[c] = 0
  BY <1>2, <1>3, NoFileText
<1>4. CASE a \in Cluster /\ z \in Nat /\ z > 0 /\ Reaches(F, a, z) /\ KeptOn(F, kept, a) /\ Reads(chip, a, z, hm)
  BY <1>1, <1>2, <1>4, FileText
<1> QED BY <1>1, <1>2, <1>3, <1>4 DEF Whole

\* What is on the chain is where the properties look for it.
LEMMA LeaksPlaces ==
  ASSUME DiskTyped(chip), NEW kp, NEW hm, Sane(chip, kp, hm), Coherent(chip, kp), NEW m, Leaks(chip, m)
  PROVE  Cardinality({c \in Cluster : chip[Fat].next[c] # Free /\ Place(c) = {}}) <= m
<1>1. /\ Recorded = chip[Dir(1)] /\ Whole(chip, Recorded.clust, Recorded.size, kp, hm)
      /\ Recorded.clust \in Cluster => Heads(chip[Fat].next, Recorded.clust)
  BY SaneRecorded
<1>2. ASSUME NEW c \in Cluster
      PROVE  Place(c) = {} <=> \A n \in Nat : ~ Leads(chip[Fat].next, Recorded.clust, n, c)
  <2>1. CASE \A n \in Nat : ~ Leads(chip[Fat].next, Recorded.clust, n, c)
    BY <2>1, InFileNot
  <2>2. ASSUME NEW n \in Nat, Leads(chip[Fat].next, Recorded.clust, n, c) PROVE Place(c) # {}
    <3>1. Recorded.clust \in Cluster
      BY <2>2, LeadsCluster
    <3>2. Place(c) = {n}
      BY <1>1, <2>2, <3>1, InFileLeads
    <3> QED BY <3>2
  <2> QED BY <2>1, <2>2
<1>3. {c \in Cluster : chip[Fat].next[c] # Free /\ Place(c) = {}} = Lost(chip[Fat].next, Recorded.clust)
  BY <1>2 DEF Lost
<1> QED BY <1>1, <1>3 DEF Leaks

-----------------------------------------------------------------------------
(* The invariant of the text. *)

\* The volume was formatted, and only data was ever cut.
Healthy == ~ formatting /\ harm \subseteq Stores

\* No byte of the file can be put any more.
Stuck(F, f) == FreeIn(F) = {} /\ (f.size = 0 \/ FillsDisk(F, f.sclust, f.size))

\* usb_write appends the strings ss to the file f; D is the disk when the
\* queue is written, G when the window is, and m clusters may be lost.
Appends(D, G, f, ss, hm, m) ==
  /\ AtEnd(G[Fat].next, f)
  /\ Older(D, G[Fat].next, f) /\ Older(G, G[Fat].next, f)
  /\ G[Dir(1)].clust = 0 => /\ f.size + Rests(ss) <= SectorSize
                            /\ f.sclust # 0 => G[Fat].next[f.sclust] = Eoc
  /\ Reads(SeenBy(G, f), f.sclust, f.size, hm)
  /\ Flows(ss, f.size) \/ Stuck(G[Fat].next, f)
  /\ Cardinality(Lost(G[Fat].next, f.sclust)) <= m

\* Whenever the power goes, the disk holds the text.
SoundDisk ==
  /\ ~ erased => Sane(chip, kept, harm) /\ Leaks(chip, EarlyNow)
  /\ Sane(Done, kept, harm) /\ Leaks(Done, EarlyNow)
  /\ Sane(Ram, kept, harm)

SoundFile ==
  /\ pc \in {"idle", "open", "seek", "closed"} => Leaks(Ram, early) /\ ~ wflag
  /\ pc \in {"seek", "put", "close", "closed"} => file.dirSect = Dir(1)
  /\ pc = "seek" => /\ left = <<Line>>
                    /\ file.sclust = Ram[Dir(1)].clust /\ file.size = Ram[Dir(1)].size
  /\ pc \in {"put", "close"} => Appends(Done, Ram, file, left, harm, early)
  /\ pc \in {"put", "close"} => Len(left) <= 2 /\ (left = <<>> => file.modified)
  /\ pc = "close" => left = <<>>

SoundInv == Healthy => SoundDisk /\ SoundFile

\* A chip that was never written is not a sound volume yet.
LEMMA SoundInit == FatInit => SoundInv
<1>1. FatInit => formatting
  BY DEF FatInit
<1> QED BY <1>1 DEF SoundInv, Healthy

\* A loss of power counts as early until a byte is recorded.
LEMMA EarlyBounds ==
  ASSUME early \in Nat
  PROVE  /\ EarlyNow \in Nat /\ early <= EarlyNow
         /\ (\A c \in Cluster : kept[c] = 0) => EarlyNow = early + 1
         /\ kept' = kept /\ early' = early => EarlyNow' = EarlyNow
  BY DEF EarlyNow

\* A bound may be larger.
LEMMA LeaksMore ==
  ASSUME NEW G, NEW m \in Nat, NEW n \in Nat, Leaks(G, m), m <= n
  PROVE  Leaks(G, n)
<1>1. Cardinality(Lost(G[Fat].next, G[Dir(1)].clust)) \in Nat
  BY LostFinite
<1> QED BY <1>1 DEF Leaks

\* In a healthy state no volume is being formatted.
LEMMA HealthyPhases ==
  ASSUME FatInv, Healthy
  PROVE  /\ pc # "format" /\ (queue = <<>> => ~ erased /\ Done = chip)
         /\ queue # <<>> => queue = <<Write(Head(queue).sect, Head(queue).content)>>
         /\ DiskTyped(chip) /\ DiskTyped(Done) /\ DiskTyped(Ram) /\ KeptTyped(kept) /\ early \in Nat
         /\ FileTyped(file) /\ (~ wflag => Ram = Done)
         /\ Coherent(Done, kept) /\ Coherent(Ram, kept)
         /\ left \in Seq(Seq(STRING) \ {<<>>})
<1>1. Typed /\ Phased /\ Formatted /\ Coherence /\ ~ formatting
  BY DEF FatInv, Healthy
<1>2. pc # "format"
  BY <1>1 DEF Formatted
<1> QED BY <1>1, <1>2 DEF Typed, Phased, Coherence, Done, Ram

-----------------------------------------------------------------------------
(* The steps of the disk, and of power. *)

\* Steps that change nothing but what is written already.
LEMMA SoundKept ==
  ASSUME FatInv, SoundInv, Ram' = Ram,
         UNCHANGED <<file, left, kept, pc, formatting, harm, early>>, wflag' => wflag,
         Healthy => /\ ~ erased' => Sane(chip', kept, harm) /\ Leaks(chip', EarlyNow)
                    /\ Sane(Done', kept, harm) /\ Leaks(Done', EarlyNow)
                    /\ pc \in {"put", "close"} => Older(Done', Ram[Fat].next, file)
  PROVE  SoundInv'
<1>1. SUFFICES ASSUME Healthy PROVE SoundDisk' /\ SoundFile'
  BY DEF SoundInv, Healthy
<1>2. SoundDisk /\ SoundFile /\ early \in Nat
  BY <1>1, HealthyPhases DEF SoundInv
<1>3. EarlyNow' = EarlyNow
  BY <1>2, EarlyBounds
<1>4. SoundDisk'
  BY <1>1, <1>2, <1>3 DEF SoundDisk
<1>5. ASSUME pc \in {"put", "close"} PROVE Appends(Done', Ram', file', left', harm', early')
  <2>1. Appends(Done, Ram, file, left, harm, early)
    BY <1>2, <1>5 DEF SoundFile
  <2> QED BY <1>1, <1>5, <2>1 DEF Appends
<1>6. SoundFile'
  BY <1>2, <1>5 DEF SoundFile
<1> QED BY <1>4, <1>6

\* Erasing a sector leaves a sound disk once it is programmed.
LEMMA EraseSound == ASSUME FatInv, SoundInv, Erase PROVE SoundInv'
<1> DEFINE s == Head(queue).sect
           d == Head(queue).content
<1>1. Typed
  BY DEF FatInv
<1>2. /\ queue # <<>> /\ ~ erased /\ chip' = With(chip, s, Wiped(s)) /\ erased' = TRUE
      /\ UNCHANGED <<queue, pc, winsect, win, wflag, file, left, formatting, harm, kept, early>>
  BY DEF Erase, With, fs, memory
<1>3. s \in Sector /\ Done = With(chip, s, d)
  BY <1>1, <1>2, HeadTyped
<1>4. Done' = With(chip', s, d)
  BY <1>2 DEF Done
<1> HIDE DEF s, d
<1>6. Done' = Done
  BY <1>1, <1>2, <1>3, <1>4, WritingTwice DEF Typed
<1>7. Ram' = Ram
  BY <1>2, <1>6 DEF Ram
<1>8. Healthy => /\ Sane(Done', kept, harm) /\ Leaks(Done', EarlyNow)
                 /\ pc \in {"put", "close"} => Older(Done', Ram[Fat].next, file)
  BY <1>6 DEF SoundInv, SoundDisk, SoundFile, Appends
<1> QED BY <1>2, <1>7, <1>8, SoundKept

\* Programming it does.
LEMMA ProgramSound == ASSUME FatInv, SoundInv, Program PROVE SoundInv'
<1> DEFINE s == Head(queue).sect
           d == Head(queue).content
<1>1. Typed
  BY DEF FatInv
<1>2. /\ queue # <<>> /\ chip' = With(chip, s, d) /\ erased' = FALSE /\ queue' = Tail(queue)
      /\ UNCHANGED <<pc, winsect, win, wflag, file, left, formatting, harm, kept, early>>
  BY DEF Program, With, fs, memory
<1>3. chip' = Done
  BY <1>1, <1>2, HeadTyped
<1>4. CASE Healthy
  <2>1. queue' = <<>>
    <3>1. queue = <<Write(s, d)>>
      BY <1>2, <1>4, HealthyPhases
    <3> HIDE DEF s, d
    <3> QED BY <1>2, <3>1
  <2>2. Done' = Done
    BY <1>3, <2>1 DEF Done
  <2>3. Ram' = Ram
    BY <1>2, <2>2 DEF Ram
  <2> HIDE DEF s, d
  <2>4. /\ Sane(Done', kept, harm) /\ Leaks(Done', EarlyNow) /\ chip' = Done'
        /\ pc \in {"put", "close"} => Older(Done', Ram[Fat].next, file)
    BY <1>3, <1>4, <2>2 DEF SoundInv, SoundDisk, SoundFile, Appends
  <2> QED BY <1>2, <2>3, <2>4, SoundKept
<1>5. CASE ~ Healthy
  BY <1>2, <1>5 DEF SoundInv, Healthy
<1> QED BY <1>4, <1>5

\* A loss of power leaves what is on the chip.
LEMMA OutageSound == ASSUME FatInv, SoundInv, Outage PROVE SoundInv'
<1> DEFINE s == Head(queue).sect
           d == Head(queue).content
<1>1. Typed
  BY DEF FatInv
<1>2. /\ queue' = <<>> /\ erased' = FALSE /\ pc' = "idle" /\ wflag' = FALSE
      /\ early' = EarlyNow /\ UNCHANGED <<formatting, kept>>
      /\ \/ chip' = chip /\ ~ erased /\ harm' = harm
         \/ erased /\ harm' = harm \cup {s} /\ \E r \in Remains(s, d) : chip' = With(chip, s, r)
  BY <1>1 DEF Outage, With, Typed
<1>3. Done' = chip' /\ Ram' = chip'
  BY <1>2 DEF Done, Ram
<1>4. SUFFICES ASSUME Healthy' PROVE SoundDisk' /\ SoundFile'
  BY DEF SoundInv
<1>5. Healthy
  BY <1>2, <1>4 DEF Healthy
<1>6. SoundDisk /\ early \in Nat
  BY <1>5, HealthyPhases DEF SoundInv
<1>7. Sane(chip', kept, harm') /\ Leaks(chip', EarlyNow)
  <2>1. CASE chip' = chip /\ ~ erased /\ harm' = harm
    BY <1>6, <2>1 DEF SoundDisk
  <2>2. CASE erased /\ harm' = harm \cup {s} /\ \E r \in Remains(s, d) : chip' = With(chip, s, r)
    <3>1. PICK r \in Remains(s, d) : chip' = With(chip, s, r)
      BY <2>2
    <3>2. /\ s \in Sector /\ Done = With(chip, s, d)
          /\ \A t \in Sector : t # s => Done[t] = chip[t]
      BY <1>1, <2>2, HeadTyped DEF Typed
    <3> HIDE DEF s, d
    <3>3. PICK c \in Cluster : s = Data(c)
      BY <1>4, <2>2 DEF Healthy, Stores
    <3>4. \A t \in Sector : t # s => chip'[t] = Done[t]
      BY <1>1, <3>1, <3>2 DEF With, DiskTyped, Typed
    <3>5. chip'[Fat] = Done[Fat] /\ chip'[Dir(1)] = Done[Dir(1)]
      BY <3>3, <3>4, Sectors
    <3>6. \A e \in Cluster : Data(e) \notin harm' => Data(e) \notin harm /\ chip'[Data(e)] = Done[Data(e)]
      BY <2>2, <3>4, Sectors
    <3>7. Sane(Done, kept, harm) /\ Leaks(Done, EarlyNow)
      BY <1>6 DEF SoundDisk
    <3> QED BY <3>5, <3>6, <3>7, SaneElsewhere, LeaksElsewhere
  <2> QED BY <1>2, <2>1, <2>2
<1>8. Leaks(chip', EarlyNow')
  <2>1. EarlyNow \in Nat /\ early' \in Nat
    BY <1>2, <1>6, EarlyBounds
  <2>2. early' <= EarlyNow' /\ EarlyNow' \in Nat
    <3>1. early' \in Nat
      BY ONLY <2>1
    <3>2. EarlyNow' = early' + 1 \/ EarlyNow' = early'
      BY Zenon DEF EarlyNow
    <3> QED BY ONLY <3>1, <3>2
  <2> QED BY <1>2, <1>7, <2>1, <2>2, LeaksMore
<1>9. SoundDisk'
  BY <1>2, <1>3, <1>7, <1>8 DEF SoundDisk
<1>10. SoundFile'
  BY <1>2, <1>3, <1>7 DEF SoundFile
<1> QED BY <1>9, <1>10

\* What the program knows of a file it has not recorded: when the window is
\* written first, its cluster is lost until the entry is.
LEMMA AppendsLeaks ==
  ASSUME FatInv, SoundInv, Healthy, pc \in {"put", "close"}
  PROVE  Leaks(Ram, EarlyNow)
<1> DEFINE F == Ram[Fat].next
           b == Ram[Dir(1)].clust
<1>1. /\ SoundDisk /\ SoundFile /\ early \in Nat /\ EarlyNow \in Nat /\ early <= EarlyNow
      /\ FileTyped(file)
  BY HealthyPhases, EarlyBounds DEF SoundInv
<1>2. /\ b \in {0, file.sclust} /\ Cardinality(Lost(F, file.sclust)) <= early
      /\ b = 0 => (file.sclust # 0 => F[file.sclust] = Eoc)
  BY <1>1 DEF SoundFile, Appends, Older
<1>3. Cardinality(Lost(F, file.sclust)) \in Nat /\ Cardinality(Lost(F, b)) \in Nat
  BY LostFinite
<1> HIDE DEF F, b
<1>4. Cardinality(Lost(F, b)) <= EarlyNow
  <2>1. CASE b = file.sclust
    BY <1>1, <1>2, <1>3, <2>1
  <2>2. CASE b = 0 /\ file.sclust # 0
    <3>1. file.sclust \in Link /\ F[file.sclust] = Eoc
      BY <1>1, <1>2, <2>2 DEF FileTyped
    <3>2. file.sclust \in Cluster
      <4>1. ~ AtEnd(F, file) \/ file.sclust \in Cluster
        <5>1. SUFFICES ASSUME AtEnd(F, file) PROVE file.sclust \in Cluster
          OBVIOUS
        <5>2. PICK n \in Nat : Leads(F, file.sclust, n, file.clust)
          BY <2>2, <5>1 DEF AtEnd
        <5> QED BY <5>2, LeadsCluster
      <4>2. AtEnd(F, file)
        BY <1>1 DEF SoundFile, Appends, F
      <4> QED BY <4>1, <4>2
    <3>3. \A c \in Cluster : kept[c] = 0
      <4>1. Whole(Ram, b, Ram[Dir(1)].size, kept, harm)
        BY <1>1 DEF SoundDisk, Sane, b
      <4> QED BY <2>2, <4>1, ClusterNumbers DEF Whole
    <3>4. EarlyNow = early + 1
      BY <1>1, <3>3, EarlyBounds
    <3>5. Lost(F, 0) \subseteq Lost(F, file.sclust) \cup {file.sclust}
      BY <3>1, <3>2, LostAlone
    <3>6. Cardinality(Lost(F, 0)) <= Cardinality(Lost(F, file.sclust)) + 1
      BY <3>5, LostOneMore
    <3>7. Cardinality(Lost(F, b)) <= Cardinality(Lost(F, file.sclust)) + 1
      BY <2>2, <3>6
    <3> QED BY <1>1, <1>2, <1>3, <3>4, <3>7
  <2> QED BY <1>2, <2>1, <2>2
<1> QED BY <1>4 DEF Leaks, F, b

\* The changed window is one of the disks that are sound.
LEMMA MoveWindowSound ==
  ASSUME FatInv, SoundInv, NEW s \in Sector, MoveWindow(s), pc \in {"open", "seek", "put", "close"}
  PROVE  SoundInv'
<1>1. /\ queue = <<>> /\ UNCHANGED <<chip, erased, pc, file, left, formatting, harm, kept, early>>
      /\ \/ wflag /\ queue' = <<Write(winsect, win)>> /\ wflag' = FALSE
         \/ ~ wflag /\ UNCHANGED <<queue, wflag>>
  <2>1. wflag \in BOOLEAN
    BY DEF FatInv, Typed
  <2> QED BY <2>1 DEF MoveWindow, memory
<1>2. CASE ~ Healthy
  BY <1>1, <1>2 DEF SoundInv, Healthy
<1>3. ASSUME Healthy, wflag, queue' = <<Write(winsect, win)>>, wflag' = FALSE PROVE SoundInv'
  <2>1. Done = chip /\ SoundDisk /\ SoundFile
    BY <1>1, <1>3, HealthyPhases DEF SoundInv
  <2>2. Head(queue').sect = winsect /\ Head(queue').content = win /\ queue' # <<>>
    BY <1>3 DEF Write
  <2>3. Done' = With(chip, winsect, win) /\ Ram = With(chip, winsect, win)
    BY <1>1, <1>3, <2>1, <2>2 DEF Done, Ram
  <2>4. Done' = Ram /\ Ram' = Ram
    BY <1>3, <2>3 DEF Ram
  <2>5. pc \in {"put", "close"}
    BY <1>3, <2>1 DEF SoundFile
  <2>6. Leaks(Ram, EarlyNow)
    BY <1>3, <2>5, AppendsLeaks
  <2>7. Sane(Ram, kept, harm) /\ Older(Ram, Ram[Fat].next, file)
    BY <2>1, <2>5 DEF SoundDisk, SoundFile, Appends
  <2>8. ~ erased' => Sane(chip', kept, harm) /\ Leaks(chip', EarlyNow)
    BY <1>1, <2>1 DEF SoundDisk
  <2> QED BY <1>1, <1>3, <2>4, <2>6, <2>7, <2>8, SoundKept
<1>4. ASSUME Healthy, ~ wflag, UNCHANGED <<queue, wflag>> PROVE SoundInv'
  <2>1. Done' = Done
    BY <1>1, <1>4 DEF Done
  <2>2. Ram' = Ram
    BY <1>4, <2>1 DEF Ram
  <2>3. SoundDisk /\ SoundFile
    BY <1>4 DEF SoundInv
  <2> QED BY <1>1, <1>4, <2>1, <2>2, <2>3, SoundKept DEF SoundDisk, SoundFile, Appends
<1> QED BY <1>1, <1>2, <1>3, <1>4

\* The window moves to the sector the program needs.
LEMMA WindowSound == ASSUME FatInv, SoundInv, Window PROVE SoundInv'
<1>1. Dir(1) \in Sector /\ Fat \in Sector
  BY Sectors
<1>2. pc = "close" => file.dirSect \in Sector
  BY DEF FatInv, Typed, FileTyped
<1>3. PICK s \in Sector : MoveWindow(s) /\ pc \in {"open", "seek", "put", "close"}
  BY <1>1, <1>2 DEF Window
<1> QED BY <1>3, MoveWindowSound

-----------------------------------------------------------------------------
(* Steps of the program that leave the chip alone. *)

\* What a step of the program has to show that leaves the chip alone.
LEMMA SoundSteps ==
  ASSUME FatInv, SoundInv, UNCHANGED <<chip, erased, formatting, harm, kept, early>>, queue = <<>>,
         Healthy => /\ Sane(Done', kept, harm) /\ Leaks(Done', EarlyNow)
                    /\ Sane(Ram', kept, harm)
                    /\ SoundFile'
  PROVE  SoundInv'
<1>1. SUFFICES ASSUME Healthy PROVE SoundDisk' /\ SoundFile'
  BY DEF SoundInv, Healthy
<1>2. SoundDisk /\ early \in Nat
  BY <1>1, HealthyPhases DEF SoundInv
<1>3. EarlyNow' = EarlyNow
  BY <1>2, EarlyBounds
<1>4. SoundDisk'
  BY <1>1, <1>2, <1>3 DEF SoundDisk
<1> QED BY <1>1, <1>4

\* The same, when nothing is to be written and the disk in RAM is the same.
LEMMA SoundQuiet ==
  ASSUME FatInv, SoundInv, UNCHANGED <<chip, erased, formatting, harm, kept, early>>, queue = <<>>, queue' = <<>>,
         Ram' = Ram,
         Healthy => SoundFile'
  PROVE  SoundInv'
<1>1. Done' = Done
  BY DEF Done
<1>2. Healthy => /\ Sane(Done', kept, harm) /\ Leaks(Done', EarlyNow) /\ Sane(Ram', kept, harm)
  BY <1>1 DEF SoundInv, SoundDisk
<1> QED BY <1>2, SoundSteps

\* f_open begins, and finds the disk as it is.
LEMMA UsbWriteSound == ASSUME FatInv, SoundInv, UsbWrite PROVE SoundInv'
<1>1. /\ pc = "idle" /\ queue = <<>>
      /\ UNCHANGED <<chip, queue, erased, file, left, formatting, harm, kept, early>>
      /\ pc' \in {"idle", "open"}
      /\ wflag' = FALSE \/ wflag' = wflag
  BY DEF UsbWrite, disk, memory, Mount, fs
<1>2. ~ wflag
  BY <1>1 DEF FatInv, Phased
<1>3. ~ wflag'
  BY <1>1, <1>2
<1>4. Ram' = chip' /\ Ram = chip
  BY <1>1, <1>2, <1>3 DEF Ram, Done
<1>5. Healthy => SoundFile'
  BY <1>1, <1>3, <1>4 DEF SoundInv, SoundFile
<1> QED BY <1>1, <1>4, <1>5, SoundQuiet

\* The web page lists the directory, and changes nothing.
LEMMA ListSound == ASSUME FatInv, SoundInv, List PROVE SoundInv'
<1>1. /\ pc = "idle" /\ queue = <<>> /\ pc' = pc /\ wflag' = wflag
      /\ UNCHANGED <<chip, queue, erased, file, left, formatting, harm, kept, early>>
  BY DEF List, disk, memory
<1>2. ~ wflag
  BY <1>1 DEF FatInv, Phased
<1>3. Ram' = chip' /\ Ram = chip
  BY <1>1, <1>2 DEF Ram, Done
<1>4. Healthy => SoundFile'
  BY <1>1, <1>2, <1>3 DEF SoundInv, SoundFile
<1> QED BY <1>1, <1>3, <1>4, SoundQuiet

\* A sound volume has the file, or room for its entry.
LEMMA OpenDeniedSound == ASSUME FatInv, SoundInv, OpenDenied PROVE SoundInv'
<1>1. /\ Find /\ pc' = "idle" /\ wflag' = wflag
      /\ UNCHANGED <<chip, queue, erased, file, left, formatting, harm, kept, early>>
  BY DEF OpenDenied, disk, memory
<1>2. pc = "open" /\ queue = <<>> /\ ~ wflag /\ Ram = chip
  BY <1>1, OpenReads
<1>3. Ram' = Ram
  BY <1>1, <1>2 DEF Ram, Done
<1>4. Healthy => SoundFile'
  BY <1>1, <1>2, <1>3 DEF SoundInv, SoundFile
<1> QED BY <1>1, <1>2, <1>3, <1>4, SoundQuiet

\* f_puts is done: the file is closed as it is.
LEMMA PutDoneSound == ASSUME FatInv, SoundInv, PutDone PROVE SoundInv'
<1>1. /\ pc = "put" /\ queue = <<>> /\ left = <<>> /\ pc' = "close"
      /\ UNCHANGED <<chip, queue, erased, winsect, win, wflag, file, left, formatting, harm, kept, early>>
  BY DEF PutDone, disk, fs, memory
<1>2. Done' = Done
  BY <1>1 DEF Done
<1>3. Ram' = Ram
  BY <1>1, <1>2 DEF Ram
<1>4. Healthy => SoundFile'
  BY <1>1, <1>2, <1>3 DEF SoundInv, SoundFile
<1> QED BY <1>1, <1>3, <1>4, SoundQuiet

\* usb_write always has something to record.
LEMMA CloseUnchangedSound == ASSUME FatInv, SoundInv, CloseUnchanged PROVE SoundInv'
<1>1. /\ pc = "close" /\ ~ file.modified /\ UNCHANGED <<formatting, harm>>
  BY DEF CloseUnchanged, memory
<1>2. ~ Healthy
  BY <1>1 DEF SoundInv, SoundFile
<1> QED BY <1>1, <1>2 DEF SoundInv, Healthy

\* f_mkfs begins: nothing is promised until it is done.
LEMMA FormatSound == ASSUME FatInv, SoundInv, Format PROVE SoundInv'
  BY DEF Format, SoundInv, Healthy

\* A stutter changes nothing.
LEMMA SoundStutter == ASSUME FatInv, SoundInv, UNCHANGED fatVars PROVE SoundInv'
<1>1. /\ UNCHANGED <<chip, queue, erased, pc, winsect, win, wflag, file, left, formatting, harm, kept, early>>
  BY DEF fatVars, disk, fs, memory
<1>2. Done' = Done
  BY <1>1 DEF Done
<1>3. Ram' = Ram
  BY <1>1, <1>2 DEF Ram
<1>4. Healthy => /\ ~ erased' => Sane(chip', kept, harm) /\ Leaks(chip', EarlyNow)
                 /\ Sane(Done', kept, harm) /\ Leaks(Done', EarlyNow)
                 /\ pc \in {"put", "close"} => Older(Done', Ram[Fat].next, file)
  BY <1>1, <1>2 DEF SoundInv, SoundDisk, SoundFile, Appends
<1> QED BY <1>1, <1>3, <1>4, SoundKept

\* A file begins with the greeting.
LEMMA AppendsStart ==
  ASSUME NEW D, NEW G, NEW f, NEW hm, NEW m,
         f.sclust = 0, f.size = 0, f.fptr = 0, f.clust = 0, f.sect = 0,
         D[Dir(1)].clust = 0, D[Dir(1)].size = 0, G[Dir(1)].clust = 0, G[Dir(1)].size = 0,
         D[Fat] = G[Fat], Cardinality(Lost(G[Fat].next, 0)) <= m
  PROVE  Appends(D, G, f, <<Greeting, Line>>, hm, m)
<1>1. AtEnd(G[Fat].next, f)
  BY DEF AtEnd
<1>2. Older(D, G[Fat].next, f) /\ Older(G, G[Fat].next, f)
  BY DEF Older, Grown
<1>3. PICK ss : ss = <<Greeting, Line>>
  OBVIOUS
<1>4. Len(ss) = 2 /\ ss[1] = Greeting /\ ss[2] = Line /\ ss # <<>>
  BY <1>3
<1>5. Rests(ss) = Len(Greeting) + Len(Line)
  BY <1>4 DEF Rests
<1>6. 0 + Rests(ss) <= SectorSize
  BY <1>5, Lengths
<1>7. Flows(ss, 0)
  <2>1. 0 + Len(Greeting) = Len(Greeting)
    BY Lengths
  <2> QED BY <1>4, <2>1, SpellsGreeting DEF Flows
<1>8. Reads(SeenBy(G, f), f.sclust, f.size, hm)
  <2>1. \A n \in Nat : \A c : ~ Leads(SeenBy(G, f)[Fat].next, 0, n, c)
    BY LeadsCluster, ClusterNumbers
  <2> QED BY <2>1 DEF Reads
<1> QED BY <1>1, <1>2, <1>3, <1>6, <1>7, <1>8 DEF Appends

\* A new file takes two strings.
LEMMA StringsTwo == Len(<<Greeting, Line>>) = 2 /\ <<Greeting, Line>> # <<>>
  OBVIOUS

\* The first directory sector has the entry that f_open finds.
LEMMA OpenFirst ==
  ASSUME FatInv, SoundInv, Healthy, Find, Used # {}
  PROVE  /\ First = 1 /\ Sane(chip, kept, harm) /\ Leaks(chip, early) /\ early \in Nat
         /\ Leaks(chip, EarlyNow) /\ EntryTyped(chip[Dir(1)])
<1>1. Ram = chip /\ Done = chip /\ pc = "open" /\ ~ erased /\ DiskTyped(chip)
  BY OpenReads
<1>2. SoundDisk /\ SoundFile /\ early \in Nat
  BY HealthyPhases DEF SoundInv
<1>3. Sane(chip, kept, harm) /\ Leaks(chip, early) /\ Leaks(chip, EarlyNow)
  BY <1>1, <1>2 DEF SoundDisk, SoundFile
<1>4. First \in 1 .. Root /\ \A j \in 1 .. Root : j < First => chip[Dir(j)].kind = "blank"
  BY OpenReads
<1>5. chip[Dir(1)].kind # "blank" /\ 1 \in 1 .. Root
  BY <1>3, Sectors DEF Sane
<1>6. First = 1
  BY <1>4, <1>5
<1> QED BY <1>1, <1>2, <1>3, <1>5, <1>6, Reading

\* f_open makes a new entry: the file is empty.
LEMMA OpenNewSound == ASSUME FatInv, SoundInv, OpenNew PROVE SoundInv'
<1> DEFINE e == Entry("file", 0, 0)
<1>1. /\ Find /\ Used # {} /\ Lookup(First).kind = "free"
      /\ winsect' = Dir(First) /\ win' = e /\ wflag' = TRUE
      /\ file' = [NoFile EXCEPT !.dirSect = Dir(First), !.modified = TRUE]
      /\ pc' = "put" /\ left' = <<Greeting, Line>>
      /\ UNCHANGED <<chip, queue, erased, formatting, harm, kept, early>>
  BY DEF OpenNew, disk, memory
<1>2. pc = "open" /\ queue = <<>> /\ Done = chip /\ DiskTyped(chip)
  BY <1>1, OpenReads
<1>3. ASSUME Healthy
      PROVE  /\ Sane(Done', kept, harm) /\ Leaks(Done', EarlyNow) /\ Sane(Ram', kept, harm) /\ SoundFile'
  <2>1. /\ First = 1 /\ Sane(chip, kept, harm) /\ Leaks(chip, early) /\ early \in Nat
        /\ Leaks(chip, EarlyNow) /\ EntryTyped(chip[Dir(1)])
    BY <1>1, <1>3, OpenFirst
  <2>2. chip[Dir(1)].kind = "free"
    <3>1. Lookup(1) = chip[Dir(1)]
      BY <1>1, OpenReads, Sectors
    <3> QED BY <1>1, <2>1, <3>1
  <2>3. chip[Dir(1)].clust = 0 /\ chip[Dir(1)].size = 0
    BY <2>1, <2>2 DEF EntryTyped, EndOfTable, Entry
  <2>4. \A c \in Cluster : kept[c] = 0
    BY <2>1, <2>3, ClusterNumbers DEF Sane, Whole
  <2>5. file' = [dirSect |-> Dir(1), sclust |-> 0, size |-> 0, fptr |-> 0, clust |-> 0, sect |-> 0,
                 buf |-> Bytes("zero"), dirty |-> FALSE, modified |-> TRUE]
    BY <1>1, <2>1 DEF NoFile
  <2>6. e.kind = "file" /\ e.clust = 0 /\ e.size = 0
    BY DEF Entry
  <2> HIDE DEF e
  <2>7. Done' = chip /\ Ram' = With(chip, Dir(1), e)
    BY <1>1, <1>2, <2>1 DEF Done, Ram
  <2>8. Ram'[Dir(1)] = e /\ \A t \in Sector : t # Dir(1) => Ram'[t] = chip[t]
    BY <1>2, <2>7, Sectors DEF With, DiskTyped
  <2>9. Ram'[Fat] = chip[Fat]
    BY <2>8, Sectors
  <2>10. Sane(Ram', kept, harm)
    BY <2>4, <2>6, <2>8 DEF Sane, Whole
  <2>11. Cardinality(Lost(Ram'[Fat].next, 0)) <= early
    BY <2>1, <2>3, <2>9 DEF Leaks
  <2>12. file'.sclust = 0 /\ file'.size = 0 /\ file'.fptr = 0 /\ file'.clust = 0 /\ file'.sect = 0 /\ file'.dirSect = Dir(1)
    BY <2>5
  <2>13. Appends(Done', Ram', file', <<Greeting, Line>>, harm, early)
    BY <2>3, <2>6, <2>7, <2>8, <2>9, <2>11, <2>12, AppendsStart
  <2>14. SoundFile'
    BY <1>1, <2>12, <2>13, StringsTwo DEF SoundFile
  <2> QED BY <2>1, <2>7, <2>10, <2>14
<1> QED BY <1>1, <1>2, <1>3, SoundSteps

\* f_open finds the file: empty, or to be sought.
LEMMA OpenOldSound == ASSUME FatInv, SoundInv, OpenOld PROVE SoundInv'
<1>1. /\ Find /\ Used # {} /\ Lookup(First).kind = "file"
      /\ winsect' = Dir(First) /\ win' = Lookup(First)
      /\ file' = [NoFile EXCEPT !.dirSect = Dir(First), !.sclust = win'.clust, !.size = win'.size]
      /\ \/ file'.size = 0 /\ pc' = "put" /\ left' = <<Greeting, Line>>
         \/ file'.size # 0 /\ pc' = "seek" /\ left' = <<Line>>
      /\ UNCHANGED <<chip, queue, erased, wflag, formatting, harm, kept, early>>
  BY DEF OpenOld, disk, memory
<1>2. pc = "open" /\ queue = <<>> /\ Done = chip /\ Ram = chip /\ DiskTyped(chip) /\ ~ wflag
  BY <1>1, OpenReads
<1>3. Ram' = Ram /\ Done' = chip /\ queue' = <<>>
  BY <1>1, <1>2 DEF Ram, Done
<1>4. ASSUME Healthy PROVE SoundFile'
  <2>1. /\ First = 1 /\ Sane(chip, kept, harm) /\ Leaks(chip, early) /\ early \in Nat
        /\ EntryTyped(chip[Dir(1)])
    BY <1>1, <1>4, OpenFirst
  <2>2. Lookup(1) = chip[Dir(1)]
    BY <1>1, OpenReads, Sectors
  <2>3. PICK b : b = chip[Dir(1)]
    OBVIOUS
  <2>4. file' = [dirSect |-> Dir(1), sclust |-> b.clust, size |-> b.size, fptr |-> 0, clust |-> 0, sect |-> 0,
                 buf |-> Bytes("zero"), dirty |-> FALSE, modified |-> FALSE]
    BY <1>1, <2>1, <2>2, <2>3 DEF NoFile
  <2>5. /\ file'.sclust = b.clust /\ file'.size = b.size /\ file'.fptr = 0 /\ file'.clust = 0 /\ file'.sect = 0
        /\ file'.dirSect = Dir(1)
    BY <2>4
  <2>6. CASE file'.size = 0 /\ pc' = "put" /\ left' = <<Greeting, Line>>
    <3>1. b.size = 0
      BY <2>5, <2>6
    <3>2. b.clust = 0
      <4>1. Whole(chip, b.clust, b.size, kept, harm)
        BY <2>1, <2>3 DEF Sane
      <4> QED BY <3>1, <4>1 DEF Whole
    <3>3. Cardinality(Lost(chip[Fat].next, 0)) <= early
      BY <2>1, <2>3, <3>2 DEF Leaks
    <3>4. Appends(chip, chip, file', <<Greeting, Line>>, harm, early)
      BY <2>3, <2>5, <3>1, <3>2, <3>3, AppendsStart
    <3> QED BY <1>1, <1>2, <1>3, <2>5, <2>6, <3>4, StringsTwo DEF SoundFile
  <2>7. CASE file'.size # 0 /\ pc' = "seek" /\ left' = <<Line>>
    BY <1>1, <1>2, <1>3, <2>1, <2>3, <2>5, <2>7 DEF SoundFile
  <2> QED BY <1>1, <2>6, <2>7
<1> QED BY <1>1, <1>2, <1>3, <1>4, SoundQuiet

-----------------------------------------------------------------------------
(* f_lseek stays on the chain. *)

\* The file that is sought is the one that is recorded.
LEMMA SeekSound ==
  ASSUME FatInv, SoundInv, Healthy, pc = "seek", queue = <<>>
  PROVE  /\ ~ wflag /\ Ram = chip /\ Done = chip /\ ~ erased /\ DiskTyped(chip) /\ early \in Nat
         /\ left = <<Line>> /\ file.sclust = chip[Dir(1)].clust /\ file.size = chip[Dir(1)].size
         /\ file.dirSect = Dir(1)
         /\ file.sclust \in Cluster /\ file.size \in Nat /\ file.size > 0 /\ file.size # Huge
         /\ Whole(chip, file.sclust, file.size, kept, harm)
         /\ Heads(chip[Fat].next, file.sclust) /\ Links(chip[Fat].next)
         /\ Cardinality(Lost(chip[Fat].next, file.sclust)) <= early
         /\ file.clust # Eoc
<1>1. /\ SoundDisk /\ SoundFile /\ ~ erased /\ Done = chip /\ DiskTyped(chip) /\ early \in Nat
      /\ (~ wflag => Ram = Done) /\ Coherent(Done, kept)
  BY HealthyPhases DEF SoundInv
<1>2. /\ ~ wflag /\ left = <<Line>> /\ file.dirSect = Dir(1) /\ Leaks(Ram, early)
      /\ file.sclust = Ram[Dir(1)].clust /\ file.size = Ram[Dir(1)].size
  BY <1>1 DEF SoundFile
<1>3. Ram = chip /\ Coherent(chip, kept)
  BY <1>1, <1>2
<1>4. SeekTyped(file) /\ FileTyped(file)
  BY DEF FatInv, Typed
<1>5. file.size > 0 /\ file.size \in Nat /\ (file.clust = Eoc => file.size = Huge)
  BY <1>4 DEF SeekTyped, FileTyped
<1>6. Sane(chip, kept, harm)
  BY <1>1 DEF SoundDisk
<1>7. Whole(chip, file.sclust, file.size, kept, harm)
  BY <1>2, <1>3, <1>6 DEF Sane
<1>8. file.sclust \in Cluster /\ Reaches(chip[Fat].next, file.sclust, file.size)
  BY <1>5, <1>7 DEF Whole
<1>9. Recorded = chip[Dir(1)] /\ Heads(chip[Fat].next, file.sclust)
  BY <1>1, <1>2, <1>3, <1>6, <1>8, SaneRecorded
<1>10. Links(chip[Fat].next)
  BY <1>1, Reading
<1>11. file.size # Huge
  <2>1. PICK n \in Nat, c \in Cluster : Leads(chip[Fat].next, file.sclust, n, c) /\ file.size <= Upto(n + 1, 0)
    BY <1>8 DEF Reaches
  <2>2. n <= LastCluster - 2
    BY <1>9, <1>10, <2>1, LeadsShort
  <2>3. PICK l \in Nat : l = LastCluster - 1
    BY ClusterNumbers
  <2>4. n < l /\ SectorSize \in Nat
    BY <2>2, <2>3, ClusterNumbers
  <2>5. Upto(n, 0) + SectorSize <= Upto(l, 0) /\ Upto(n + 1, 0) = Upto(n, 0) + SectorSize
    BY <2>4, UptoOrder, UptoNumber
  <2>6. Upto(l, 0) = SectorSize * l
    <3>1. ASSUME NEW x \in Nat, NEW y \in Nat PROVE x * y + 0 = y * x
      BY Z3
    <3> QED BY <2>4, <3>1 DEF Upto
  <2>7. Huge = Upto(l, 0) + 1
    BY <2>3, <2>6 DEF Huge
  <2>8. Upto(l, 0) \in Nat /\ Upto(n, 0) \in Nat /\ Upto(n + 1, 0) \in Nat
    <3>1. l \in Nat /\ n \in Nat /\ n + 1 \in Nat /\ 0 \in Nat
      OBVIOUS
    <3> QED BY ONLY <3>1, UptoNumber
  <2> QED BY <1>5, <2>1, <2>4, <2>5, <2>7, <2>8
<1>12. Cardinality(Lost(chip[Fat].next, file.sclust)) <= early
  BY <1>2, <1>3 DEF Leaks
<1> QED BY <1>1, <1>2, <1>3, <1>5, <1>7, <1>8, <1>9, <1>10, <1>11, <1>12

\* A step along the chain changes the position in the file only.
LEMMA SeekMoves ==
  ASSUME FatInv, SoundInv, pc = "seek", pc' = "seek", queue = <<>>, queue' = <<>>, Ram' = Ram,
         UNCHANGED <<chip, erased, formatting, harm, kept, early>>,
         Healthy => /\ UNCHANGED <<left, wflag>>
                    /\ file'.dirSect = file.dirSect /\ file'.sclust = file.sclust /\ file'.size = file.size
  PROVE  SoundInv'
<1>1. Healthy => SoundFile'
  BY DEF SoundInv, SoundFile
<1> QED BY <1>1, SoundQuiet

\* f_lseek begins with the first cluster of the chain.
LEMMA SeekFirstSound == ASSUME FatInv, SoundInv, SeekFirst PROVE SoundInv'
<1>1. /\ pc = "seek" /\ queue = <<>> /\ queue' = <<>> /\ file.clust = 0
      /\ UNCHANGED <<chip, queue, erased, winsect, left, formatting, harm, kept, early>>
  BY DEF SeekFirst, disk, memory
<1>2. CASE ~ Healthy
  BY <1>1, <1>2 DEF SoundInv, Healthy
<1>3. CASE Healthy
  <2>1. file.sclust \in Cluster /\ ~ wflag
    BY <1>1, <1>3, SeekSound
  <2>2. file.sclust # 0 /\ file.clust \notin Cluster
    BY <1>1, <2>1, ClusterNumbers
  <2>3. ~ SeekNeedsFat
    BY <2>2 DEF SeekNeedsFat
  <2>4. PICK r : /\ r = (IF SeekNeedsFat THEN CreateChain(FatNow, last, 0) ELSE Chain(file.sclust, FatNow, last))
                 /\ TakeFat(SeekNeedsFat, r)
                 /\ file' = [file EXCEPT !.sclust = r.clust, !.clust = r.clust]
                 /\ pc' = IF r.clust = 0 THEN "put" ELSE pc
    BY DEF SeekFirst
  <2>5. r.clust = file.sclust
    BY <2>3, <2>4 DEF Chain
  <2>6. UNCHANGED <<win, wflag>> /\ pc' = "seek"
    BY <1>1, <2>2, <2>3, <2>4, <2>5 DEF TakeFat
  <2>7. Ram' = Ram
    <3>1. Done' = Done
      BY <1>1 DEF Done
    <3> QED BY <1>1, <2>6, <3>1 DEF Ram
  <2>8. file'.dirSect = file.dirSect /\ file'.sclust = file.sclust /\ file'.size = file.size
    <3>1. FileTyped(file)
      BY DEF FatInv, Typed
    <3> QED BY <2>4, <2>5, <3>1 DEF FileTyped
  <2> QED BY <1>1, <2>6, <2>7, <2>8, SeekMoves
<1> QED BY <1>2, <1>3

\* The chain reaches the end of the file.
LEMMA SeekBehindSound == ASSUME FatInv, SoundInv, SeekBehind PROVE SoundInv'
<1>1. /\ pc = "seek" /\ queue = <<>> /\ queue' = <<>> /\ Ahead /\ (SeekNeedsFat => winsect = Fat)
      /\ UNCHANGED <<chip, queue, erased, mounted, winsect, formatting, harm, kept, early>>
  BY DEF SeekBehind, disk, memory
<1>2. CASE ~ Healthy
  BY <1>1, <1>2 DEF SoundInv, Healthy
<1>3. CASE Healthy
  <2>1. PICK F : F = chip[Fat].next
    OBVIOUS
  <2>2. /\ Heads(F, file.sclust) /\ Links(F) /\ file.clust # Eoc /\ Ram = chip /\ ~ wflag /\ file.size \in Nat
        /\ file.size > 0 /\ Whole(chip, file.sclust, file.size, kept, harm)
    BY <1>1, <1>3, <2>1, SeekSound
  <2>3. FileTyped(file) /\ SeekAt(Ram, file, kept) /\ mounted
    BY <1>1, <1>3 DEF FatInv, Typed, Coherence, Healthy, Phased
  <2>4. file.clust \in Cluster /\ file.clust # 0
    BY <1>1, <2>2, <2>3, ClusterNumbers DEF Ahead, FileTyped
  <2>5. PICK n \in Nat : file.fptr = Upto(n, 0) /\ Leads(F, file.sclust, n, file.clust)
    BY <2>1, <2>2, <2>3, <2>4 DEF SeekAt
  <2>6. PICK m \in Nat, e \in Cluster : Leads(F, file.sclust, m, e) /\ Upto(m, 0) < file.size /\ file.size <= Upto(m + 1, 0)
    BY <2>1, <2>2 DEF Whole, Reaches
  <2>7. n < m
    <3>1. SUFFICES ASSUME m <= n PROVE FALSE
      BY <2>5, <2>6
    <3>2. SectorSize \in Nat /\ m + 1 <= n + 1 /\ m + 1 \in Nat /\ n + 1 \in Nat
      BY <3>1, ClusterNumbers
    <3>3. Upto(m + 1, 0) \in Nat /\ Upto(n + 1, 0) \in Nat /\ Upto(n, 0) \in Nat /\ Upto(n + 1, 0) = Upto(n, 0) + SectorSize
      BY <3>2, UptoNumber
    <3>4. Upto(m + 1, 0) <= Upto(n + 1, 0)
      <4>1. CASE m = n
        BY <3>3, <4>1
      <4>2. CASE m # n
        <5>1. m + 1 < n + 1
          BY <3>1, <4>2
        <5>2. Upto(m + 1, 0) + SectorSize <= Upto(n + 1, 0)
          BY <3>2, <5>1, UptoOrder
        <5> QED BY <3>2, <3>3, <5>2
      <4> QED BY <4>1, <4>2
    <3>5. file.size - file.fptr > SectorSize
      BY <1>1 DEF Ahead
    <3> QED BY <2>2, <2>5, <2>6, <3>2, <3>3, <3>4, <3>5
  <2>8. F[file.clust] \in Cluster
    <3>1. PICK d \in Cluster : Leads(F, file.sclust, n, d) /\ F[d] \in Cluster
      BY <2>6, <2>7, LeadsBefore
    <3>2. d = file.clust
      BY <2>5, <3>1, LeadsTo
    <3> QED BY <3>1, <3>2
  <2>9. SeekNeedsFat
    BY <1>1, <2>4 DEF SeekNeedsFat
  <2>10. PICK r : /\ r = CreateChain(FatNow, last, file.clust) /\ TakeFat(TRUE, r)
                  /\ r.clust # 0 /\ r.clust # 1 => /\ file' = [file EXCEPT !.fptr = @ + SectorSize, !.clust = r.clust]
                                                   /\ pc' = pc /\ left' = left
    BY <2>9 DEF SeekBehind
  <2>11. FatNow = F
    <3>1. winsect = Fat /\ Fat \in System
      BY <1>1, <2>9 DEF System
    <3>2. win = Ram[Fat]
      BY <2>3, <3>1 DEF FatInv, Windowed
    <3> QED BY <2>1, <2>2, <3>1, <3>2 DEF FatNow
  <2>12. r.clust = F[file.clust] /\ r.fat = F
    BY <2>4, <2>8, <2>10, <2>11, ClusterNumbers DEF CreateChain, Chain
  <2>13. r.clust # 0 /\ r.clust # 1
    BY <2>8, <2>12, ClusterNumbers
  <2>14. /\ r.fat = Ram[Fat].next => wflag' = wflag /\ Ram' = Ram
    BY <1>1, <2>2, <2>3, <2>9, <2>10, <2>12, FatTaken
  <2>15. wflag' = wflag /\ Ram' = Ram
    BY <2>1, <2>2, <2>12, <2>14
  <2>16. pc' = pc /\ left' = left /\ file' = [file EXCEPT !.fptr = @ + SectorSize, !.clust = r.clust]
    BY <2>10, <2>13
  <2>17. file'.dirSect = file.dirSect /\ file'.sclust = file.sclust /\ file'.size = file.size
    BY <2>3, <2>16 DEF FileTyped
  <2> QED BY <1>1, <2>15, <2>16, <2>17, SeekMoves
<1> QED BY <1>2, <1>3

\* The end of the file, with its last sector in the buffer.
LEMMA SeekEndSound == ASSUME FatInv, SoundInv, SeekEnd PROVE SoundInv'
<1>1. /\ pc = "seek" /\ queue = <<>> /\ queue' = <<>> /\ file.clust # 0 /\ ~ (file.size - file.fptr > SectorSize)
      /\ pc' = "put" /\ file' = Sought /\ left' = left
      /\ UNCHANGED <<chip, queue, erased, winsect, win, wflag, formatting, harm, kept, early>>
  BY DEF SeekEnd, Ahead, disk, memory, fs
<1>2. Done' = Done /\ Ram' = Ram
  <2>1. Done' = Done
    BY <1>1 DEF Done
  <2> QED BY <1>1, <2>1 DEF Ram
<1>3. ASSUME Healthy PROVE SoundFile'
  <2>1. PICK F : F = chip[Fat].next
    OBVIOUS
  <2>2. /\ ~ wflag /\ Ram = chip /\ Done = chip /\ DiskTyped(chip) /\ left = <<Line>> /\ file.dirSect = Dir(1)
        /\ file.sclust = chip[Dir(1)].clust /\ file.size = chip[Dir(1)].size
        /\ file.sclust \in Cluster /\ file.size \in Nat /\ file.size > 0
        /\ Whole(chip, file.sclust, file.size, kept, harm)
        /\ Cardinality(Lost(F, file.sclust)) <= early /\ file.clust # Eoc
    BY <1>1, <1>3, <2>1, SeekSound
  <2>3. FileTyped(file) /\ SeekAt(Ram, file, kept) /\ SeekTyped(file)
    BY <1>1, <1>3 DEF FatInv, Typed, Coherence, Healthy
  <2>4. file.clust \in Cluster /\ file.clust # 0 /\ file.fptr \in Nat /\ file.sect = 0
    BY <1>1, <2>2, <2>3, ClusterNumbers DEF FileTyped, SeekTyped
  <2>5. PICK n \in Nat : file.fptr = Upto(n, 0) /\ file.fptr < file.size /\ Leads(F, file.sclust, n, file.clust)
    BY <2>1, <2>2, <2>3, <2>4 DEF SeekAt
  <2>6. PICK r \in 1 .. SectorSize : file.size = Upto(n, r)
    <3>1. PICK q : q = file.size - file.fptr
      OBVIOUS
    <3>2. q \in 1 .. SectorSize /\ q \in Nat /\ file.size = file.fptr + q
      BY <1>1, <2>2, <2>4, <2>5, <3>1, ClusterNumbers
    <3>3. Upto(n, q) = Upto(n, 0) + q
      BY <3>2, UptoNumber
    <3> QED BY <2>5, <3>2, <3>3, Zenon
  <2>7. /\ file'.dirSect = file.dirSect /\ file'.sclust = file.sclust /\ file'.size = file.size
        /\ file'.fptr = file.size /\ file'.clust = file.clust
        /\ \/ file'.sect = 0 /\ file.size % SectorSize = 0
           \/ file'.sect = file.clust /\ file'.buf = chip[Data(file.clust)]
    BY <1>1, <2>3, <2>4 DEF Sought, FileTyped
  <2>8. AtEnd(F, file')
    <3>1. r < SectorSize => file.size % SectorSize # 0
      BY <2>6, UptoRest
    <3>2. r < SectorSize => file'.sect = file'.clust
      BY <2>7, <3>1
    <3> QED BY <2>5, <2>6, <2>7, <3>2 DEF AtEnd
  <2>9. SeenBy(chip, file') = chip
    <3>1. CASE file'.sect = 0
      BY <3>1 DEF SeenBy
    <3>2. CASE file'.sect # 0
      <4>1. file'.sect = file.clust /\ file'.buf = chip[Data(file.clust)] /\ Data(file.clust) \in Sector
        BY <2>4, <2>7, <3>2, Sectors
      <4> QED BY <2>2, <3>2, <4>1, WritingSame DEF SeenBy
    <3> QED BY <3>1, <3>2
  <2>10. Reads(SeenBy(chip, file'), file'.sclust, file'.size, harm)
    BY <2>2, <2>7, <2>9, ClusterNumbers DEF Whole
  <2>11. Older(chip, F, file')
    <3>1. Grown(F, F)
      BY DEF Grown
    <3> QED BY <2>1, <2>2, <2>7, <3>1 DEF Older
  <2>12. Flows(left, file'.size) \/ Stuck(F, file')
    <3>1. CASE LineEnds(file.size)
      <4>1. PICK ss : ss = left
        OBVIOUS
      <4>2. Len(ss) = 1 /\ ss[1] = Line
        BY <2>2, <4>1
      <4> QED BY <2>7, <3>1, <4>1, <4>2, SpellsNext DEF Flows
    <3>2. CASE FillsDisk(F, file.sclust, file.size)
      BY <2>7, <3>2 DEF Stuck, FillsDisk
    <3> QED BY <2>1, <2>2, <3>1, <3>2, ClusterNumbers DEF Whole
  <2>13. Appends(chip, chip, file', left, harm, early)
    <3>1. chip[Dir(1)].clust # 0
      BY <2>2, ClusterNumbers
    <3> QED BY <2>1, <2>2, <2>7, <2>8, <2>10, <2>11, <2>12, <3>1 DEF Appends
  <2>14. Len(left') <= 2 /\ left' # <<>>
    BY <1>1, <2>2
  <2> QED BY <1>1, <1>2, <2>2, <2>7, <2>13, <2>14 DEF SoundFile
<1> QED BY <1>1, <1>2, <1>3, SoundQuiet

\* A file at its end has nothing, or ends on its chain.
LEMMA AtEndReaches ==
  ASSUME NEW F, NEW f, AtEnd(F, f)
  PROVE  \/ f.size = 0 /\ f.fptr = 0 /\ f.clust = 0 /\ f.sclust = 0 /\ f.sect = 0
         \/ /\ f.size \in Nat /\ f.size > 0 /\ f.fptr = f.size /\ f.sclust \in Cluster /\ f.clust \in Cluster
            /\ Reaches(F, f.sclust, f.size)
<1>1. f.fptr = f.size
  BY DEF AtEnd
<1>2. CASE f.size = 0 /\ f.clust = 0 /\ f.sclust = 0 /\ f.sect = 0
  BY <1>1, <1>2
<1>3. ASSUME NEW n \in Nat, NEW r \in 1 .. SectorSize, f.fptr = Upto(n, r), Leads(F, f.sclust, n, f.clust)
      PROVE  /\ f.size \in Nat /\ f.size > 0 /\ f.fptr = f.size /\ f.sclust \in Cluster /\ f.clust \in Cluster
             /\ Reaches(F, f.sclust, f.size)
  <2>1. SectorSize \in Nat /\ r \in Nat /\ r >= 1 /\ r <= SectorSize
    BY ClusterNumbers
  <2>2. Upto(n, r) \in Nat /\ Upto(n, r) >= r /\ Upto(n, r) = Upto(n, 0) + r /\ Upto(n, 0) \in Nat
        /\ Upto(n + 1, 0) = Upto(n, 0) + SectorSize
    BY <2>1, UptoNumber
  <2>3. f.sclust \in Cluster /\ f.clust \in Cluster
    BY <1>3, LeadsCluster
  <2>4. Upto(n, 0) < f.size /\ f.size <= Upto(n + 1, 0)
    BY <1>1, <1>3, <2>1, <2>2
  <2> QED BY <1>1, <1>3, <2>1, <2>2, <2>3, <2>4 DEF Reaches
<1> QED BY <1>2, <1>3 DEF AtEnd

\* What the file has put is on the disk when its buffer is.
LEMMA CloseDataSound == ASSUME FatInv, SoundInv, CloseData PROVE SoundInv'
<1>1. /\ pc = "close" /\ queue = <<>> /\ file.dirty /\ pc' = pc
      /\ queue' = <<Write(Data(file.sect), file.buf)>> /\ file' = [file EXCEPT !.dirty = FALSE]
      /\ UNCHANGED <<chip, erased, mounted, winsect, win, wflag, left, formatting, harm, kept, early>>
  BY DEF CloseData, fs, memory
<1>2. Typed /\ Windowed /\ FileTyped(file) /\ file.sect \in Cluster
  BY <1>1 DEF FatInv, Typed, FileTyped
<1>3. ASSUME Healthy
      PROVE  Sane(Done', kept, harm) /\ Leaks(Done', EarlyNow) /\ Sane(Ram', kept, harm) /\ SoundFile'
  <2>1. SoundDisk /\ SoundFile /\ DiskTyped(chip) /\ DiskTyped(Ram)
    BY <1>3, HealthyPhases DEF SoundInv
  <2>2. PICK c, b : c \in Cluster /\ c = file.sect /\ b = file.buf
    BY <1>2
  <2>3. queue' = <<Write(Data(c), b)>>
    BY <1>1, <2>2
  <2>4. /\ Done = chip /\ DiskTyped(Done') /\ Done'[Data(c)] = b
        /\ \A t \in Sector : t # Data(c) => Done'[t] = chip[t]
    BY <1>1, <1>2, <2>2, <2>3, QueueData
  <2>5. /\ DiskTyped(Ram') /\ Ram'[Data(c)] = b /\ \A t \in Sector : t # Data(c) => Ram'[t] = Ram[t]
    BY <1>1, <1>2, <2>2, <2>3, QueueDataOnly
  <2>6. /\ Sane(chip, kept, harm) /\ Sane(Ram, kept, harm) /\ Leaks(chip, EarlyNow)
        /\ Appends(chip, Ram, file, left, harm, early)
    BY <1>1, <2>1, <2>4 DEF SoundDisk, SoundFile
  <2>7. /\ Older(chip, Ram[Fat].next, file) /\ Older(Ram, Ram[Fat].next, file)
        /\ Reads(SeenBy(Ram, file), file.sclust, file.size, harm) /\ file.size \in Nat
    BY <1>2, <2>6 DEF Appends, FileTyped
  <2>8. Sane(Done', kept, harm)
    BY <1>2, <2>1, <2>2, <2>4, <2>6, <2>7, SaneData
  <2>9. Sane(Ram', kept, harm)
    BY <1>2, <2>1, <2>2, <2>5, <2>6, <2>7, SaneData
  <2>10. /\ Done'[Fat] = chip[Fat] /\ Done'[Dir(1)] = chip[Dir(1)]
         /\ Ram'[Fat] = Ram[Fat] /\ Ram'[Dir(1)] = Ram[Dir(1)]
    BY <2>4, <2>5, Sectors
  <2>11. Leaks(Done', EarlyNow)
    BY <2>6, <2>10, LeaksElsewhere
  <2>12. /\ file'.dirSect = file.dirSect /\ file'.sclust = file.sclust /\ file'.size = file.size
         /\ file'.fptr = file.fptr /\ file'.clust = file.clust /\ file'.sect = file.sect /\ file'.buf = file.buf
         /\ file'.modified = file.modified
    BY <1>1, <1>2 DEF FileTyped
  <2>13. Reads(SeenBy(Ram', file'), file'.sclust, file'.size, harm)
    <3>1. \A d \in Cluster : SeenBy(Ram', file')[Data(d)] = SeenBy(Ram, file)[Data(d)]
      BY <2>1, <2>2, <2>5, <2>12, Sectors, ClusterNumbers DEF SeenBy, With, DiskTyped
    <3>2. SeenBy(Ram', file')[Fat] = SeenBy(Ram, file)[Fat]
      BY <2>1, <2>2, <2>5, <2>10, <2>12, Sectors DEF SeenBy, With, DiskTyped
    <3> QED BY <2>7, <2>12, <3>1, <3>2, ReadsElsewhere
  <2>14. Appends(Done', Ram', file', left, harm, early)
    <3>1. AtEnd(Ram'[Fat].next, file')
      BY <2>6, <2>10, <2>12 DEF Appends, AtEnd
    <3>2. Older(Done', Ram'[Fat].next, file') /\ Older(Ram', Ram'[Fat].next, file')
      BY <2>7, <2>10, <2>12 DEF Older
    <3>3. Stuck(Ram[Fat].next, file) => Stuck(Ram'[Fat].next, file')
      BY <2>10, <2>12 DEF Stuck
    <3> QED BY <2>6, <2>10, <2>12, <2>13, <3>1, <3>2, <3>3 DEF Appends
  <2>15. SoundFile'
    BY <1>1, <2>1, <2>12, <2>14 DEF SoundFile
  <2> QED BY <2>8, <2>9, <2>11, <2>15
<1> QED BY <1>1, <1>3, SoundSteps

\* The entry makes the file one that is recorded.
LEMMA CloseEntrySound == ASSUME FatInv, SoundInv, CloseEntry PROVE SoundInv'
<1> DEFINE e == Entry("file", file.sclust, file.size)
<1>1. /\ pc = "close" /\ queue = <<>> /\ file.modified /\ ~ file.dirty /\ winsect = file.dirSect
      /\ win' = e /\ wflag' = FALSE /\ queue' = <<Write(winsect, e)>>
      /\ file' = [file EXCEPT !.modified = FALSE] /\ pc' = "closed"
      /\ UNCHANGED <<chip, erased, winsect, left, formatting, harm, kept, early>>
  BY DEF CloseEntry, memory
<1>2. ASSUME Healthy
      PROVE  Sane(Done', kept, harm) /\ Leaks(Done', EarlyNow) /\ Sane(Ram', kept, harm) /\ SoundFile'
  <2>1. /\ SoundDisk /\ SoundFile /\ DiskTyped(chip) /\ DiskTyped(Ram) /\ Done = chip /\ early \in Nat
        /\ FileTyped(file) /\ PutAt(Ram, file, kept)
    BY <1>1, <1>2, HealthyPhases DEF SoundInv, FatInv, Coherence, WritesFile, Healthy
  <2>2. /\ Sane(Ram, kept, harm) /\ Appends(chip, Ram, file, left, harm, early) /\ file.dirSect = Dir(1) /\ left = <<>>
    BY <1>1, <2>1 DEF SoundDisk, SoundFile
  <2>3. e.kind = "file" /\ e.clust = file.sclust /\ e.size = file.size
    BY DEF Entry
  <2> HIDE DEF e
  <2>4. Done' = With(chip, Dir(1), e) /\ Ram' = Done'
    <3>1. Head(queue').sect = Dir(1) /\ Head(queue').content = e /\ queue' # <<>>
      BY <1>1, <2>2 DEF Write
    <3> QED BY <1>1, <3>1 DEF Done, Ram
  <2>5. Done'[Dir(1)] = e /\ \A t \in Sector : t # Dir(1) => Done'[t] = chip[t]
    BY <2>1, <2>4, Sectors DEF With, DiskTyped
  <2>6. \A t \in Sector : t # Dir(1) => Ram[t] = chip[t]
    BY <1>1, <2>1, <2>2 DEF Ram, With, DiskTyped
  <2>7. Done'[Fat] = Ram[Fat] /\ \A c \in Cluster : Done'[Data(c)] = Ram[Data(c)]
    BY <2>5, <2>6, Sectors
  <2>8. SeenBy(Ram, file) = Ram
    <3>1. CASE file.sect = 0
      BY <3>1 DEF SeenBy
    <3>2. CASE file.sect # 0
      <4>1. file.buf = Ram[Data(file.sect)] /\ Data(file.sect) \in Sector
        BY <1>1, <2>1, <3>2, Sectors DEF PutAt, Buffered, FileTyped
      <4> QED BY <2>1, <3>2, <4>1, WritingSame DEF SeenBy
    <3> QED BY <3>1, <3>2
  <2>9. Reads(Done', file.sclust, file.size, harm)
    <3>1. Reads(Ram, file.sclust, file.size, harm)
      BY <2>2, <2>8 DEF Appends
    <3> QED BY <2>7, <3>1, ReadsElsewhere
  <2>10. Ram[Dir(1)].clust \in {0, file.sclust} /\ AtEnd(Ram[Fat].next, file)
    BY <2>2 DEF Appends, Older
  <2>11. Whole(Ram, Ram[Dir(1)].clust, Ram[Dir(1)].size, kept, harm)
    BY <2>2 DEF Sane
  <2>12. Whole(Done', file.sclust, file.size, kept, harm)
    <3>1. CASE file.size = 0 /\ file.sclust = 0
      <4>1. \A c \in Cluster : kept[c] = 0
        BY <2>10, <2>11, <3>1, ClusterNumbers DEF Whole
      <4> QED BY <3>1, <4>1 DEF Whole
    <3>2. CASE file.size \in Nat /\ file.size > 0 /\ file.sclust \in Cluster /\ Reaches(Ram[Fat].next, file.sclust, file.size)
      <4>1. KeptOn(Ram[Fat].next, kept, file.sclust)
        <5>1. CASE \A c \in Cluster : kept[c] = 0
          BY <5>1 DEF KeptOn
        <5>2. CASE ~ (\A c \in Cluster : kept[c] = 0)
          BY <2>10, <2>11, <5>2, ClusterNumbers DEF Whole
        <5> QED BY <5>1, <5>2
      <4>2. LineEnds(file.size) \/ FillsDisk(Ram[Fat].next, file.sclust, file.size)
        <5>1. Flows(left, file.size) \/ Stuck(Ram[Fat].next, file)
          BY <2>2 DEF Appends
        <5>2. Len(left) = 0
          BY <2>2
        <5> QED BY <2>2, <3>2, <5>1, <5>2 DEF Flows, Stuck
      <4> QED BY <2>7, <2>9, <3>2, <4>1, <4>2 DEF Whole
    <3> QED BY <2>10, <3>1, <3>2, AtEndReaches
  <2>13. Sane(Done', kept, harm)
    BY <2>3, <2>5, <2>12 DEF Sane
  <2>14. Leaks(Done', early)
    BY <2>2, <2>3, <2>5, <2>7 DEF Leaks, Appends
  <2>15. Leaks(Done', EarlyNow)
    BY <2>1, <2>14, EarlyBounds, LeaksMore
  <2>16. file'.dirSect = Dir(1)
    BY <1>1, <2>1, <2>2 DEF FileTyped
  <2>17. SoundFile'
    BY <1>1, <2>4, <2>14, <2>16 DEF SoundFile
  <2> QED BY <2>4, <2>13, <2>15, <2>17
<1> QED BY <1>1, <1>2, SoundSteps

\* What a close records is on the chain.
LEMMA CloseDoneSound == ASSUME FatInv, SoundInv, CloseDone PROVE SoundInv'
<1>1. /\ pc = "closed" /\ queue = <<>> /\ pc' = "idle"
      /\ kept' = [c \in Cluster |-> Longest(kept[c], InFile(c))]
      /\ UNCHANGED <<chip, queue, erased, winsect, win, wflag, formatting, harm, early>>
  BY DEF CloseDone, disk, fs
<1>2. SUFFICES ASSUME Healthy PROVE SoundDisk' /\ SoundFile'
  BY <1>1 DEF SoundInv, Healthy
<1>3. /\ SoundDisk /\ SoundFile /\ ~ erased /\ DiskTyped(chip) /\ Done = chip /\ early \in Nat /\ KeptTyped(kept)
      /\ (~ wflag => Ram = Done) /\ Coherent(Done, kept)
  BY <1>1, <1>2, HealthyPhases DEF SoundInv
<1>4. ~ wflag /\ Leaks(Ram, early)
  BY <1>1, <1>3 DEF SoundFile
<1>5. Ram = chip /\ Done' = chip /\ Ram' = chip
  BY <1>1, <1>3, <1>4 DEF Done, Ram
<1>6. PICK a, z, F : a = chip[Dir(1)].clust /\ z = chip[Dir(1)].size /\ F = chip[Fat].next
  OBVIOUS
<1>7. Sane(chip, kept, harm)
  BY <1>1, <1>3 DEF SoundDisk
<1>8. Recorded.clust = a /\ Whole(chip, a, z, kept, harm)
  BY <1>3, <1>6, <1>7, SaneRecorded DEF Sane
<1>9. ASSUME NEW c \in Cluster
      PROVE  /\ kept'[c] > 0 => kept[c] > 0 \/ \E n \in Nat : Leads(F, a, n, c)
             /\ kept[c] = 0 /\ (\A n \in Nat : ~ Leads(F, a, n, c)) => kept'[c] = 0
  <2>1. InFile(c) \in 0 .. SectorSize /\ kept[c] \in 0 .. SectorSize /\ SectorSize \in Nat
    BY <1>3, InFileNumber, ClusterNumbers DEF KeptTyped
  <2>2. (\A n \in Nat : ~ Leads(F, a, n, c)) => InFile(c) = 0
    BY <1>3, <1>6, <1>8, InFileNot
  <2>3. kept'[c] = Longest(kept[c], InFile(c))
    BY <1>1
  <2>4. kept'[c] = kept[c] \/ kept'[c] = InFile(c)
    BY <2>3 DEF Longest
  <2> QED BY <2>1, <2>2, <2>4
<1>10. Whole(chip, a, z, kept', harm)
  <2>1. CASE a = 0 /\ z = 0 /\ \A c \in Cluster : kept[c] = 0
    <3>1. \A n \in Nat : \A c : ~ Leads(F, a, n, c)
      BY <2>1, LeadsCluster, ClusterNumbers
    <3> QED BY <1>9, <2>1, <3>1 DEF Whole
  <2>2. CASE a \in Cluster
    <3>1. KeptOn(F, kept, a)
      BY <1>6, <1>8, <2>2, ClusterNumbers DEF Whole
    <3>2. KeptOn(F, kept', a)
      BY <1>9, <3>1 DEF KeptOn
    <3> QED BY <1>6, <1>8, <2>2, <3>2, ClusterNumbers DEF Whole
  <2> QED BY <1>8, <2>1, <2>2 DEF Whole
<1>11. Sane(chip, kept', harm)
  BY <1>6, <1>7, <1>10 DEF Sane
<1>12. Leaks(chip, EarlyNow')
  <2>1. early \in Nat /\ early' = early
    BY <1>1, <1>3
  <2>2. EarlyNow' = early' + 1 \/ EarlyNow' = early'
    BY Zenon DEF EarlyNow
  <2>3. EarlyNow' \in Nat /\ early <= EarlyNow'
    BY ONLY <2>1, <2>2
  <2> QED BY <1>4, <1>5, <2>1, <2>3, LeaksMore
<1>13. SoundDisk'
  BY <1>1, <1>5, <1>11, <1>12 DEF SoundDisk
<1>14. SoundFile'
  BY <1>1, <1>4, <1>5 DEF SoundFile
<1> QED BY <1>13, <1>14

\* A volume that was formatted to the end has no file and no cluster taken.
LEMMA FormatDoneSound == ASSUME FatInv, SoundInv, FormatDone PROVE SoundInv'
<1>1. /\ pc = "format" /\ queue = <<>> /\ pc' = "idle" /\ formatting' = FALSE /\ harm' = {} /\ early' = 0
      /\ UNCHANGED <<chip, queue, erased, winsect, win, wflag, kept>>
  BY DEF FormatDone, disk, fs
<1>2. Typed /\ Phased /\ Formatted
  BY DEF FatInv
<1>3. ~ wflag /\ ~ erased /\ \A c \in Cluster : kept[c] = 0
  BY <1>1, <1>2 DEF Phased, Typed, Formatted
<1>4. Done' = chip /\ Ram' = chip
  BY <1>1, <1>3 DEF Done, Ram
<1>5. \A s \in FreshSectors : chip[s] = Fresh(s)
  <2>1. Len(queue) = 0
    BY <1>1
  <2>2. ~ \E i \in 1 .. Len(queue) : TRUE
    BY <2>1
  <2> QED BY <1>1, <1>2, <2>2 DEF Formatted
<1>6. chip[Fat] = EmptyFat /\ chip[Dir(1)] = EndOfTable
  <2>1. Fat \in FreshSectors /\ Dir(1) \in FreshSectors /\ Dir(1) \in Dirs /\ Dir(1) # Fat
    BY Sectors DEF FreshSectors, System
  <2> QED BY <1>5, <2>1 DEF Fresh
<1>7. \A c \in Cluster : chip[Fat].next[c] = Free
  BY <1>6 DEF EmptyFat, Table
<1>8. chip[Dir(1)].kind = "free" /\ chip[Dir(1)].clust = 0 /\ chip[Dir(1)].size = 0
  BY <1>6 DEF EndOfTable, Entry
<1>9. Sane(chip, kept, {})
  BY <1>3, <1>8 DEF Sane, Whole
<1>10. \A m \in Nat : Leaks(chip, m)
  <2>1. Lost(chip[Fat].next, chip[Dir(1)].clust) = {}
    BY <1>7 DEF Lost
  <2>2. Cardinality(Lost(chip[Fat].next, chip[Dir(1)].clust)) = 0
    BY <2>1, FS_EmptySet
  <2> QED BY <2>2 DEF Leaks
<1>11. EarlyNow' \in Nat
  <2>1. EarlyNow' = early' + 1 \/ EarlyNow' = early'
    BY Zenon DEF EarlyNow
  <2> QED BY ONLY <1>1, <2>1
<1>12. SoundDisk'
  BY <1>1, <1>4, <1>9, <1>10, <1>11 DEF SoundDisk
<1>13. SoundFile'
  BY <1>1, <1>3, <1>4, <1>10 DEF SoundFile
<1> QED BY <1>12, <1>13 DEF SoundInv

\* The chains of E have the text, on the data sectors of G.
ReadsOn(E, G, a, z, hm) ==
  \A n \in Nat, c \in Cluster, i \in 1 .. SectorSize :
    Leads(E, a, n, c) /\ Upto(n, i) <= z /\ Data(c) \notin hm => G[Data(c)][i] = Text(Upto(n, i) - 1)

\* The cluster of a position.
LEMMA UptoPlace ==
  ASSUME NEW n \in Nat, NEW m \in Nat, NEW i \in 1 .. SectorSize
  PROVE  Upto(n, i) <= Upto(m + 1, 0) <=> n <= m
<1>1. SectorSize \in Nat /\ i \in Nat /\ i >= 1 /\ i <= SectorSize /\ 0 \in Nat /\ m + 1 \in Nat /\ n + 1 \in Nat
  BY ClusterNumbers
<1>2. Upto(n, i) = Upto(n, 0) + i /\ Upto(n, 0) \in Nat /\ Upto(m, 0) \in Nat /\ Upto(m + 1, 0) \in Nat
  BY <1>1, UptoNumber
<1>3. Upto(m + 1, 0) = Upto(m, 0) + SectorSize
  BY <1>1, UptoNumber
<1>4. CASE n = m
  BY <1>1, <1>2, <1>3, <1>4
<1>5. CASE n < m
  <2>1. Upto(n, 0) + SectorSize <= Upto(m, 0)
    BY <1>5, UptoOrder
  <2> QED BY <1>1, <1>2, <1>3, <1>5, <2>1
<1>6. CASE n > m
  <2>1. n = m + 1 \/ m + 1 < n
    BY <1>6
  <2>2. Upto(m + 1, 0) <= Upto(n, 0)
    <3>1. CASE n = m + 1
      BY <1>2, <3>1
    <3>2. CASE m + 1 < n
      <4>1. Upto(m + 1, 0) + SectorSize <= Upto(n, 0)
        BY <1>1, <3>2, UptoOrder
      <4> QED BY <1>1, <1>2, <4>1
    <3> QED BY <2>1, <3>1, <3>2
  <2> QED BY <1>1, <1>2, <1>6, <2>2
<1> QED BY <1>4, <1>5, <1>6

\* What is put behind a chain lies behind the file.
LEMMA ReadsStretched ==
  ASSUME NEW F, NEW n, NEW c, CanStretch(F, n, c), NEW a, a # n, NEW z \in Nat, Reaches(F, a, z),
         NEW G, NEW hm, ReadsOn(F, G, a, z, hm)
  PROVE  ReadsOn(Stretched(F, n, c), G, a, z, hm)
<1>1. SUFFICES ASSUME NEW m \in Nat, NEW d \in Cluster, NEW i \in 1 .. SectorSize,
                      Leads(Stretched(F, n, c), a, m, d), Upto(m, i) <= z, Data(d) \notin hm
      PROVE  G[Data(d)][i] = Text(Upto(m, i) - 1)
  BY DEF ReadsOn
<1>2. \/ Leads(F, a, m, d)
      \/ c # 0 /\ \E k \in Nat : m = k + 1 /\ Leads(F, a, k, c)
  BY <1>1, StretchedBack
<1>3. CASE Leads(F, a, m, d)
  BY <1>1, <1>3 DEF ReadsOn
<1>4. ASSUME c # 0, NEW k \in Nat, m = k + 1, Leads(F, a, k, c) PROVE FALSE
  <2>1. F[c] = Eoc
    BY <1>4 DEF CanStretch
  <2>2. PICK l \in Nat : (\E e \in Cluster : Leads(F, a, l, e)) /\ z <= Upto(l + 1, 0)
    BY DEF Reaches
  <2>3. l <= k
    <3>1. SUFFICES ASSUME k < l PROVE FALSE
      OBVIOUS
    <3>2. PICK e \in Cluster : Leads(F, a, l, e)
      BY <2>2
    <3>3. PICK d2 \in Cluster : Leads(F, a, k, d2) /\ F[d2] \in Cluster
      BY <3>1, <3>2, LeadsBefore
    <3>4. d2 = c
      BY <1>4, <3>3, LeadsTo
    <3> QED BY <2>1, <3>3, <3>4, ClusterNumbers
  <2>4. ~ (m <= l)
    BY <1>4, <2>3
  <2>5. ~ (Upto(m, i) <= Upto(l + 1, 0))
    BY <2>4, UptoPlace
  <2>6. Upto(m, i) \in Nat /\ Upto(l + 1, 0) \in Nat
    <3>1. i \in Nat /\ l + 1 \in Nat /\ 0 \in Nat
      BY ClusterNumbers
    <3> QED BY <3>1, UptoNumber
  <2> QED BY <1>1, <2>2, <2>5, <2>6
<1> QED BY <1>2, <1>3, <1>4

\* A disk stays sound when a chain is stretched.
LEMMA SaneStretched ==
  ASSUME NEW G, NEW kp, NEW hm, Sane(G, kp, hm), NEW n, NEW c, CanStretch(G[Fat].next, n, c),
         G[Dir(1)].clust \in Cluster => G[Dir(1)].clust # n,
         NEW H, H[Dir(1)] = G[Dir(1)], H[Fat].next = Stretched(G[Fat].next, n, c),
         \A d \in Cluster : H[Data(d)] = G[Data(d)]
  PROVE  Sane(H, kp, hm)
<1>1. PICK a, z, F, E : a = G[Dir(1)].clust /\ z = G[Dir(1)].size /\ F = G[Fat].next /\ E = H[Fat].next
  OBVIOUS
<1>2. /\ CanStretch(F, n, c) /\ E = Stretched(F, n, c) /\ (a \in Cluster => a # n)
      /\ Whole(G, a, z, kp, hm) /\ H[Dir(1)].clust = a /\ H[Dir(1)].size = z /\ H[Dir(1)].kind # "blank"
  BY <1>1 DEF Sane
<1>3. CASE a = 0 /\ z = 0 /\ \A d \in Cluster : kp[d] = 0
  BY <1>2, <1>3 DEF Sane, Whole
<1>4. CASE ~ (a = 0 /\ z = 0 /\ \A d \in Cluster : kp[d] = 0)
  <2>1. /\ a \in Cluster /\ z \in Nat /\ z > 0
        /\ Reaches(F, a, z) /\ KeptOn(F, kp, a) /\ Reads(G, a, z, hm)
        /\ LineEnds(z) \/ FillsDisk(F, a, z)
    BY <1>1, <1>2, <1>4 DEF Whole
  <2>2. Reaches(E, a, z)
    BY <1>2, <2>1, StretchedForward DEF Reaches
  <2>3. KeptOn(E, kp, a)
    BY <1>2, <2>1, StretchedForward DEF KeptOn
  <2>4. ReadsOn(F, G, a, z, hm)
    BY <1>1, <2>1 DEF ReadsOn, Reads
  <2>5. ReadsOn(E, G, a, z, hm)
    BY <1>2, <2>1, <2>4, ReadsStretched
  <2>6. Reads(H, a, z, hm)
    BY <1>1, <2>5 DEF ReadsOn, Reads
  <2>7. LineEnds(z)
    <3>1. n \in FreeIn(F)
      BY <1>2 DEF CanStretch, FreeIn
    <3> QED BY <2>1, <3>1 DEF FillsDisk
  <2> QED BY <1>1, <1>2, <2>1, <2>2, <2>3, <2>6, <2>7 DEF Sane, Whole
<1> QED BY <1>3, <1>4

\* The bytes that are taken go on with the text.
LEMMA ReadsTaken ==
  ASSUME NEW E, Links(E), NEW a, Heads(E, a), NEW c \in Cluster, NEW m \in Nat, Leads(E, a, m, c),
         NEW z \in Nat, z = file.fptr, NEW q \in 0 .. SectorSize - 1, q = file.fptr % SectorSize, z = Upto(m, q),
         NEW T \in Nat, T = Taken, T + q <= SectorSize, \A i \in 1 .. T : Head(left)[i] = Text(z + i - 1),
         NEW G, NEW hm, ReadsOn(E, G, a, z, hm),
         NEW b, \A i \in 1 .. q : b[i] = G[Data(c)][i],
         NEW H, H[Data(c)] = Filled(b), \A d \in Cluster : d # c => H[Data(d)] = G[Data(d)]
  PROVE  ReadsOn(E, H, a, z + T, hm)
<1>1. SUFFICES ASSUME NEW n \in Nat, NEW d \in Cluster, NEW i \in 1 .. SectorSize,
                      Leads(E, a, n, d), Upto(n, i) <= z + T, Data(d) \notin hm
      PROVE  H[Data(d)][i] = Text(Upto(n, i) - 1)
  BY DEF ReadsOn
<1>2. SectorSize \in Nat /\ i \in Nat /\ q \in Nat /\ i >= 1 /\ i <= SectorSize /\ 0 \in Nat /\ q < SectorSize
  BY ClusterNumbers
<1>3. /\ Upto(m, q) = Upto(m, 0) + q /\ Upto(m, 0) \in Nat /\ Upto(m + 1, 0) = Upto(m, 0) + SectorSize
      /\ Upto(n, i) \in Nat
  BY <1>2, UptoNumber
<1>4. CASE d = c
  <2>1. n = m
    BY <1>1, <1>4, LeadsOnce
  <2>2. Upto(n, i) = Upto(m, 0) + i
    BY <1>2, <2>1, UptoNumber
  <2>3. CASE i <= q
    <3>1. Upto(n, i) <= z
      BY <1>2, <1>3, <2>2, <2>3
    <3>2. G[Data(d)][i] = Text(Upto(n, i) - 1)
      BY <1>1, <3>1 DEF ReadsOn
    <3>3. i \in 1 .. q /\ i \in 1 .. SectorSize /\ i <= file.fptr % SectorSize /\ file.fptr \in Nat
      BY <1>2, <2>3
    <3>4. Filled(b)[i] = b[i]
      BY <3>3, FilledBehind
    <3> QED BY <1>4, <3>2, <3>3, <3>4
  <2>4. CASE ~ (i <= q)
    <3>1. PICK k : k = i - q
      OBVIOUS
    <3>2. k \in 1 .. T /\ Upto(n, i) - 1 = z + k - 1
      <4>1. PICK u, w : u = Upto(m, 0) /\ w = Upto(n, i)
        OBVIOUS
      <4>2. u \in Nat /\ w = u + i /\ z = u + q /\ w <= z + T
        BY <1>1, <1>3, <2>2, <4>1
      <4>3. k \in 1 .. T /\ w - 1 = z + k - 1
        BY ONLY <1>2, <2>4, <3>1, <4>2, T \in Nat
      <4> QED BY <4>1, <4>3
    <3>3. Filled(b)[i] = Head(left)[k]
      <4>1. k \in 1 .. Taken /\ k = i - (file.fptr % SectorSize)
        BY <3>1, <3>2
      <4> QED BY <4>1 DEF Filled
    <3>4. Head(left)[k] = Text(z + k - 1)
      BY <3>2
    <3> QED BY <1>4, <3>2, <3>3, <3>4
  <2> QED BY <2>3, <2>4
<1>5. CASE d # c
  <2>1. n # m
    BY <1>1, <1>5, LeadsTo
  <2>2. Upto(n, i) <= Upto(m + 1, 0)
    BY <1>1, <1>2, <1>3
  <2>3. n < m
    <3>1. n <= m
      BY <2>2, UptoPlace
    <3> QED BY <2>1, <3>1
  <2>4. Upto(n, 0) + SectorSize <= Upto(m, 0) /\ Upto(n, i) = Upto(n, 0) + i /\ Upto(n, 0) \in Nat
    BY <1>2, <2>3, UptoOrder, UptoNumber
  <2>5. Upto(n, i) <= z
    BY <1>2, <1>3, <2>4
  <2>6. G[Data(d)][i] = Text(Upto(n, i) - 1)
    BY <1>1, <2>5 DEF ReadsOn
  <2> QED BY <1>5, <2>6
<1> QED BY <1>4, <1>5

\* The file is at its end, at cluster c of the chain from a on the FAT E of the
\* disk G, and f has taken a part of the string into the buffer b; K is the
\* disk with the buffer before that.
Takes(D, G, E, K, a, c, b, f, m, hm, l) ==
  /\ left # <<>> /\ left \in Seq(Seq(STRING) \ {<<>>}) /\ Len(left) <= 2
  /\ file.fptr \in Nat /\ file.size = file.fptr /\ Flows(left, file.fptr)
  /\ c \in Cluster /\ HasTaken(f, a, c, b)
  /\ DiskTyped(G) /\ E = G[Fat].next /\ Links(E) /\ Heads(E, a)
  /\ m \in Nat /\ Leads(E, a, m, c) /\ file.fptr = Upto(m, file.fptr % SectorSize)
  /\ Older(D, E, f) /\ Older(G, E, f)
  /\ G[Dir(1)].clust = 0 => file.size + Rests(left) <= SectorSize /\ E[a] = Eoc
  /\ ReadsOn(E, K, a, file.fptr, hm)
  /\ \A i \in 1 .. file.fptr % SectorSize : b[i] = K[Data(c)][i]
  /\ \A d \in Cluster : d # c => G[Data(d)] = K[Data(d)]
  /\ Cardinality(Lost(E, a)) <= l

\* Then f is at its end again, with what is left of the string.
LEMMA AppendsTaken ==
  ASSUME NEW D, NEW G, NEW E, NEW K, NEW a, NEW c, NEW b, NEW f, NEW m, NEW hm, NEW l,
         Takes(D, G, E, K, a, c, b, f, m, hm, l)
  PROVE  Appends(D, G, f, Rest, hm, l)
<1>0. /\ left # <<>> /\ left \in Seq(Seq(STRING) \ {<<>>}) /\ Len(left) <= 2
      /\ file.fptr \in Nat /\ file.size = file.fptr /\ Flows(left, file.fptr)
      /\ c \in Cluster /\ HasTaken(f, a, c, b)
      /\ DiskTyped(G) /\ E = G[Fat].next /\ Links(E) /\ Heads(E, a)
      /\ m \in Nat /\ Leads(E, a, m, c) /\ file.fptr = Upto(m, file.fptr % SectorSize)
      /\ Older(D, E, f) /\ Older(G, E, f)
      /\ (G[Dir(1)].clust = 0 => file.size + Rests(left) <= SectorSize /\ E[a] = Eoc)
      /\ ReadsOn(E, K, a, file.fptr, hm)
      /\ (\A i \in 1 .. file.fptr % SectorSize : b[i] = K[Data(c)][i])
      /\ (\A d \in Cluster : d # c => G[Data(d)] = K[Data(d)])
      /\ Cardinality(Lost(E, a)) <= l
  BY DEF Takes
<1> USE <1>0
<1>1. PICK z, q, T : z = file.fptr /\ q = file.fptr % SectorSize /\ T = Taken
  OBVIOUS
<1>2. z \in Nat /\ q \in 0 .. SectorSize - 1 /\ SectorSize \in Nat /\ q \in Nat
  <2>1. file.fptr \in Nat
    OBVIOUS
  <2> QED BY ONLY <1>1, <2>1, InSector, ClusterNumbers
<1>3. T \in Nat /\ T >= 1 /\ T + q <= SectorSize
  BY <1>1, TakenStrings
<1>4. /\ f.sclust = a /\ f.clust = c /\ f.sect = c /\ f.buf = Filled(b)
      /\ f.fptr = z + T /\ f.size = f.fptr
  BY <1>1 DEF HasTaken
<1>5. z = Upto(m, q) /\ Upto(m, q + T) = z + T /\ q + T \in 1 .. SectorSize
  <2>1. q + T \in 1 .. SectorSize /\ q + T \in Nat
    BY <1>2, <1>3
  <2>2. Upto(m, q + T) = Upto(m, 0) + (q + T) /\ Upto(m, q) = Upto(m, 0) + q /\ Upto(m, 0) \in Nat
    BY <1>2, <2>1, UptoNumber
  <2>3. PICK u, v, w : u = Upto(m, q + T) /\ v = Upto(m, q) /\ w = Upto(m, 0)
    OBVIOUS
  <2>4. v = z
    BY <1>1, <2>3, Zenon
  <2>5. u = w + (q + T) /\ v = w + q /\ w \in Nat
    BY <2>2, <2>3, Zenon
  <2>6. u = z + T
    BY ONLY <1>2, <1>3, <2>4, <2>5
  <2> QED BY <2>1, <2>3, <2>4, <2>6, Zenon
<1>6. AtEnd(E, f)
  BY <1>4, <1>5 DEF AtEnd
<1>7. ReadsOn(E, SeenBy(G, f), a, z + T, hm)
  <2>1. Data(c) \in Sector /\ c # 0 /\ \A d \in Cluster : Data(d) \in Sector /\ (d # c => Data(d) # Data(c))
    BY Sectors, ClusterNumbers
  <2>2. PICK H : H = SeenBy(G, f)
    OBVIOUS
  <2>3. H[Data(c)] = Filled(b) /\ \A d \in Cluster : d # c => H[Data(d)] = K[Data(d)]
    BY <1>4, <2>1, <2>2 DEF SeenBy, With, DiskTyped
  <2>4. \A i \in 1 .. T : Head(left)[i] = Text(z + i - 1)
    BY <1>1, FlowsOn
  <2>5. ReadsOn(E, K, a, z, hm) /\ \A i \in 1 .. q : b[i] = K[Data(c)][i]
    BY <1>1
  <2>6. ReadsOn(E, H, a, z + T, hm)
    <3>1. /\ Links(E) /\ Heads(E, a) /\ c \in Cluster /\ m \in Nat /\ Leads(E, a, m, c)
          /\ z \in Nat /\ z = file.fptr /\ q \in 0 .. SectorSize - 1 /\ q = file.fptr % SectorSize /\ z = Upto(m, q)
          /\ T \in Nat /\ T = Taken /\ T + q <= SectorSize
      BY <1>1, <1>2, <1>3, <1>5
    <3> QED BY ONLY <2>3, <2>4, <2>5, <3>1, ReadsTaken
  <2> QED BY <2>2, <2>6
<1>8. Reads(SeenBy(G, f), f.sclust, f.size, hm)
  <2>1. SeenBy(G, f)[Fat] = G[Fat]
    BY Sectors DEF SeenBy, With, DiskTyped
  <2> QED BY <1>4, <1>7, <2>1 DEF Reads, ReadsOn
<1>9. Flows(Rest, f.size)
  BY <1>1, <1>4, FlowsOn
<1>10. Rests(Rest) + Taken = Rests(left) /\ Rests(left) \in Nat /\ Rests(left) > 0
  BY RestsLess
<1>11. G[Dir(1)].clust = 0 => f.size + Rests(Rest) <= SectorSize /\ E[f.sclust] = Eoc
  <2>1. SUFFICES ASSUME G[Dir(1)].clust = 0 PROVE f.size + Rests(Rest) <= SectorSize /\ E[f.sclust] = Eoc
    OBVIOUS
  <2>2. z + Rests(left) <= SectorSize /\ E[a] = Eoc
    BY <1>1, <2>1
  <2>3. f.size + Rests(Rest) = z + Rests(left)
    <3>1. PICK u, v : u = Rests(Rest) /\ v = Rests(left)
      OBVIOUS
    <3>2. u + T = v /\ v \in Nat
      BY <1>1, <1>10, <3>1
    <3>3. u \in Nat
      BY RestsLess, <3>1
    <3> QED BY <1>2, <1>3, <1>4, <3>1, <3>2, <3>3
  <2> QED BY <1>4, <2>2, <2>3
<1> QED BY <1>4, <1>6, <1>8, <1>9, <1>11 DEF Appends

\* The buffer of the file lies over its sector only.
LEMMA SeenValues ==
  ASSUME NEW G, DiskTyped(G), NEW f, f.sect \in Cluster
  PROVE  /\ SeenBy(G, f)[Fat] = G[Fat] /\ SeenBy(G, f)[Data(f.sect)] = f.buf
         /\ \A d \in Cluster : d # f.sect => SeenBy(G, f)[Data(d)] = G[Data(d)]
<1>1. /\ Data(f.sect) \in Sector /\ f.sect # 0 /\ Fat \in Sector /\ Fat # Data(f.sect)
      /\ \A d \in Cluster : Data(d) \in Sector /\ (d # f.sect => Data(d) # Data(f.sect))
  BY Sectors, ClusterNumbers
<1> QED BY <1>1 DEF SeenBy, With, DiskTyped

\* A position within a sector is not the end of a chain.
LEMMA NotStuckInside ==
  ASSUME NEW F, NEW f, f.size # 0, f.size % SectorSize # 0
  PROVE  ~ Stuck(F, f)
<1>1. \A n \in Nat : Upto(n + 1, 0) % SectorSize = 0
  BY UptoRest, ClusterNumbers
<1> QED BY <1>1 DEF Stuck, FillsDisk

\* Within a sector the buffer takes the string.
LEMMA PutInsideSound == ASSUME FatInv, SoundInv, PutInside PROVE SoundInv'
<1>1. /\ pc = "put" /\ pc' = pc /\ queue = <<>> /\ queue' = <<>> /\ left # <<>> /\ file.fptr % SectorSize # 0
      /\ file' = Putting(file, file.clust, file.buf) /\ left' = Rest
      /\ UNCHANGED <<chip, queue, erased, mounted, winsect, win, wflag, formatting, harm, kept, early>>
  BY DEF PutInside, AtBoundary, disk, memory, fs
<1>2. Typed /\ Coherence /\ FileTyped(file) /\ left \in Seq(Seq(STRING) \ {<<>>})
  BY DEF FatInv, Typed
<1>3. Ram' = Ram
  BY <1>1, WindowKept
<1>4. ASSUME Healthy PROVE SoundFile'
  <2>1. SoundFile /\ DiskTyped(Ram) /\ Done' = Done
    BY <1>1, <1>4, HealthyPhases DEF SoundInv, Done
  <2>2. /\ Appends(Done, Ram, file, left, harm, early) /\ Len(left) <= 2
        /\ file.dirSect = Dir(1)
    BY <1>1, <2>1 DEF SoundFile
  <2>3. PICK E : E = Ram[Fat].next
    OBVIOUS
  <2>4. Links(E)
    BY <2>1, <2>3, Reading
  <2>5. /\ AtEnd(E, file) /\ Older(Done, E, file) /\ Older(Ram, E, file)
        /\ Reads(SeenBy(Ram, file), file.sclust, file.size, harm)
        /\ Flows(left, file.size) \/ Stuck(E, file)
        /\ Cardinality(Lost(E, file.sclust)) <= early
        /\ Ram[Dir(1)].clust = 0 => file.size + Rests(left) <= SectorSize /\ (file.sclust # 0 => E[file.sclust] = Eoc)
    BY <2>2, <2>3 DEF Appends
  <2>6. 0 % SectorSize = 0
    BY ClusterNumbers
  <2>7. /\ file.size \in Nat /\ file.size > 0 /\ file.fptr = file.size /\ file.sclust \in Cluster
        /\ file.clust \in Cluster /\ file.fptr \in Nat
    BY <1>1, <2>5, <2>6, AtEndReaches
  <2>8. PICK n \in Nat, r \in 1 .. SectorSize :
          /\ file.fptr = Upto(n, r) /\ Leads(E, file.sclust, n, file.clust)
          /\ r < SectorSize => file.sect = file.clust
    BY <2>5, <2>7 DEF AtEnd
  <2>9. file.fptr % SectorSize = r /\ file.sect = file.clust
    BY <1>1, <2>8, UptoRest, ClusterNumbers
  <2>10. Heads(E, file.sclust)
    <3>1. PutAt(Ram, file, kept)
      BY <1>1, <1>2, <1>4 DEF Coherence, WritesFile, Healthy
    <3>2. EntryFits(E, kept, file.sclust, file.size)
      BY <2>3, <3>1 DEF PutAt
    <3> QED BY <2>7, <3>2, ClusterNumbers DEF EntryFits
  <2>11. Flows(left, file.fptr)
    BY <1>1, <2>5, <2>7, NotStuckInside
  <2>12. HasTaken(file', file.sclust, file.clust, file.buf)
    <3>1. file = Started(file.sclust)
      BY <1>2 DEF FileTyped, Started
    <3>2. HasTaken(Putting(Started(file.sclust), file.clust, file.buf), file.sclust, file.clust, file.buf)
      BY <1>1, <1>2, <2>7, ClusterNumbers, PuttingFile
    <3>3. file' = Putting(Started(file.sclust), file.clust, file.buf)
      BY <1>1, <3>1
    <3> QED BY <3>2, <3>3
  <2>13. PICK f, a, c, b, K :
           /\ f = file' /\ a = file.sclust /\ c = file.clust /\ b = file.buf /\ K = SeenBy(Ram, file)
    OBVIOUS
  <2>14. /\ a \in Cluster /\ c \in Cluster /\ HasTaken(f, a, c, b) /\ Heads(E, a) /\ Leads(E, a, n, c)
         /\ Cardinality(Lost(E, a)) <= early
    BY <2>5, <2>7, <2>8, <2>10, <2>12, <2>13
  <2>15. file.fptr = Upto(n, file.fptr % SectorSize)
    BY <2>8, <2>9
  <2>16. /\ K[Fat] = Ram[Fat] /\ K[Data(c)] = b
         /\ \A d \in Cluster : d # c => Ram[Data(d)] = K[Data(d)]
    BY <2>1, <2>7, <2>9, <2>13, SeenValues
  <2>17. ReadsOn(E, K, a, file.fptr, harm)
    BY <2>3, <2>5, <2>7, <2>13, <2>16 DEF Reads, ReadsOn
  <2>18. Older(Done, E, f) /\ Older(Ram, E, f)
    <3>1. /\ f.sclust = file.sclust /\ f.size = file.size + Taken /\ Taken \in Nat
          /\ Ram[Dir(1)].size \in Nat /\ Done[Dir(1)].size \in Nat
      <4>1. EntryTyped(Ram[Dir(1)]) /\ EntryTyped(Done[Dir(1)])
        BY <1>4, HealthyPhases, Reading, Sectors
      <4> QED BY <1>1, <1>2, <2>7, <2>13, <2>14, <4>1, TakenStrings DEF HasTaken, EntryTyped
    <3> QED BY <2>5, <2>7, <3>1 DEF Older
  <2>19. Ram[Dir(1)].clust = 0 => file.size + Rests(left) <= SectorSize /\ E[a] = Eoc
    BY <2>5, <2>7, <2>13, ClusterNumbers
  <2>20. \A i \in 1 .. file.fptr % SectorSize : b[i] = K[Data(c)][i]
    BY <2>16
  <2>21. Appends(Done, Ram, f, Rest, harm, early)
    <3>1. /\ left # <<>> /\ left \in Seq(Seq(STRING) \ {<<>>}) /\ Len(left) <= 2
          /\ file.fptr \in Nat /\ file.size = file.fptr /\ Flows(left, file.fptr)
          /\ DiskTyped(Ram) /\ E = Ram[Fat].next /\ Links(E) /\ n \in Nat
      BY <1>1, <1>2, <2>1, <2>2, <2>3, <2>4, <2>7, <2>11
    <3>2. Takes(Done, Ram, E, K, a, c, b, f, n, harm, early)
      BY ONLY <2>14, <2>15, <2>16, <2>17, <2>18, <2>19, <2>20, <3>1 DEF Takes
    <3> QED BY ONLY <3>2, AppendsTaken
  <2>22. Len(left') <= 2 /\ (left' = <<>> => file'.modified)
    BY <1>1, <1>2, <2>2, <2>7, <2>12, RestsLess, TakenStrings DEF HasTaken
  <2>23. file'.dirSect = Dir(1)
    BY <2>2, <2>12 DEF HasTaken
  <2>24. Appends(Done', Ram', file', left', harm', early')
    BY <1>1, <1>3, <2>1, <2>13, <2>21
  <2> QED BY <1>1, <2>22, <2>23, <2>24 DEF SoundFile
<1> QED BY <1>1, <1>3, <1>4, SoundQuiet

\* On a sound volume a file at a boundary is empty, or ends with its chain.
AtFullSector(F, f) ==
  /\ f.size \in Nat /\ f.size > 0 /\ f.fptr = f.size /\ f.sclust \in Cluster /\ f.clust \in Cluster
  /\ Heads(F, f.sclust) /\ F[f.clust] # Free /\ Reaches(F, f.sclust, f.size)
  /\ \E n \in Nat : f.size = Upto(n + 1, 0) /\ Leads(F, f.sclust, n, f.clust)
AtStart(f) == f.size = 0 /\ f.fptr = 0 /\ f.clust = 0 /\ f.sclust = 0 /\ f.sect = 0

\* What usb_write knows at a boundary.
LEMMA BoundaryEnd ==
  ASSUME FatInv, SoundInv, Healthy, pc = "put", file.fptr % SectorSize = 0
  PROVE  /\ AtStart(file) \/ AtFullSector(Ram[Fat].next, file)
         /\ Appends(Done, Ram, file, left, harm, early) /\ Len(left) <= 2
         /\ SoundDisk /\ SoundFile /\ file.dirSect = Dir(1)
<1>1. Coherence /\ SoundDisk /\ SoundFile
  BY DEF FatInv, SoundInv
<1>2. /\ Appends(Done, Ram, file, left, harm, early) /\ Len(left) <= 2 /\ file.dirSect = Dir(1)
  BY <1>1 DEF SoundFile
<1>3. PICK E : E = Ram[Fat].next
  OBVIOUS
<1>4. AtEnd(E, file) /\ Links(E)
  BY <1>2, <1>3, HealthyPhases, Reading DEF Appends
<1>5. ASSUME ~ AtStart(file) PROVE AtFullSector(E, file)
  <2>1. /\ file.size \in Nat /\ file.size > 0 /\ file.fptr = file.size /\ file.sclust \in Cluster
        /\ file.clust \in Cluster /\ Reaches(E, file.sclust, file.size)
    BY <1>4, <1>5, AtEndReaches DEF AtStart
  <2>2. PICK n \in Nat, r \in 1 .. SectorSize : file.fptr = Upto(n, r) /\ Leads(E, file.sclust, n, file.clust)
    BY <1>4, <2>1 DEF AtEnd
  <2>3. file.size = Upto(n + 1, 0)
    BY <2>1, <2>2, UptoRest, ClusterNumbers
  <2>4. Heads(E, file.sclust)
    <3>1. PutAt(Ram, file, kept)
      BY <1>1 DEF Coherence, WritesFile, Healthy
    <3>2. EntryFits(E, kept, file.sclust, file.size)
      BY <1>3, <3>1 DEF PutAt
    <3> QED BY <2>1, <3>2, ClusterNumbers DEF EntryFits
  <2>5. E[file.clust] # Free
    BY <1>4, <2>2, <2>4, LeadsTaken
  <2> QED BY <2>1, <2>2, <2>3, <2>4, <2>5 DEF AtFullSector
<1> QED BY <1>1, <1>2, <1>3, <1>5

\* The end of a chain that ends a file at a boundary.
LEMMA FillsLast ==
  ASSUME NEW F, NEW f, AtFullSector(F, f)
  PROVE  /\ FreeIn(F) = {} /\ F[f.clust] = Eoc => Stuck(F, f)
         /\ Stuck(F, f) => FreeIn(F) = {} /\ F[f.clust] = Eoc
<1>1. PICK n \in Nat : f.size = Upto(n + 1, 0) /\ Leads(F, f.sclust, n, f.clust)
  BY DEF AtFullSector
<1>2. f.clust \in Cluster /\ f.size # 0
  BY DEF AtFullSector
<1>3. FreeIn(F) = {} /\ F[f.clust] = Eoc => Stuck(F, f)
  BY <1>1, <1>2 DEF Stuck, FillsDisk
<1>4. ASSUME Stuck(F, f) PROVE FreeIn(F) = {} /\ F[f.clust] = Eoc
  <2>1. PICK m \in Nat, c \in Cluster : Leads(F, f.sclust, m, c) /\ F[c] = Eoc /\ f.size = Upto(m + 1, 0)
    BY <1>2, <1>4 DEF Stuck, FillsDisk
  <2>2. m = n
    <3>1. /\ Upto(m + 1, 0) = Upto(m, 0) + SectorSize /\ Upto(n + 1, 0) = Upto(n, 0) + SectorSize
          /\ Upto(m, 0) \in Nat /\ Upto(n, 0) \in Nat
      BY UptoNumber
    <3>2. SectorSize \in Nat /\ SectorSize > 0
      BY ClusterNumbers
    <3>3. Upto(m, 0) = Upto(n, 0)
      <4>1. PICK u, v, x, y, s : u = Upto(m, 0) /\ v = Upto(n, 0) /\ x = Upto(m + 1, 0) /\ y = Upto(n + 1, 0) /\ s = SectorSize
        OBVIOUS
      <4>2. x = u + s /\ y = v + s /\ u \in Nat /\ v \in Nat /\ s \in Nat /\ x = y
        BY <1>1, <2>1, <3>1, <3>2, <4>1, Zenon
      <4>3. u = v
        BY ONLY <4>2
      <4> QED BY <4>1, <4>3
    <3>4. ~ (m < n) /\ ~ (n < m)
      BY <3>1, <3>2, <3>3, UptoOrder
    <3> QED BY <3>4
  <2>3. c = f.clust
    BY <1>1, <2>1, <2>2, LeadsTo
  <2> QED BY <1>4, <2>1, <2>3 DEF Stuck
<1> QED BY <1>3, <1>4

\* On a full disk the rest of the strings is lost.
LEMMA PutFullSound ==
  ASSUME FatInv, SoundInv, pc = "put", pc' = pc, queue = <<>>, queue' = <<>>, left # <<>>,
         file.fptr % SectorSize = 0,
         UNCHANGED <<chip, erased, formatting, harm, kept, early>>, Ram' = Ram,
         file' = [file EXCEPT !.modified = TRUE], left' = Tail(left),
         NEW F, F = Ram[Fat].next, FreeIn(F) = {}, file.fptr # 0 => F[file.clust] = Eoc
  PROVE  SoundInv'
<1>1. ASSUME Healthy PROVE SoundFile'
  <2>1. /\ AtStart(file) \/ AtFullSector(F, file)
        /\ Appends(Done, Ram, file, left, harm, early) /\ Len(left) <= 2 /\ file.dirSect = Dir(1)
    BY <1>1, BoundaryEnd
  <2>2. FileTyped(file) /\ left \in Seq(Seq(STRING) \ {<<>>}) /\ Done' = Done
    BY <1>1, HealthyPhases DEF Done
  <2>3. file.fptr \in Nat /\ file.size \in Nat
    BY <2>2 DEF FileTyped
  <2>4. /\ file'.dirSect = file.dirSect /\ file'.sclust = file.sclust /\ file'.size = file.size
        /\ file'.fptr = file.fptr /\ file'.clust = file.clust /\ file'.sect = file.sect /\ file'.buf = file.buf
        /\ file'.modified = TRUE
    BY <2>2 DEF FileTyped
  <2>5. Stuck(F, file)
    <3>1. CASE AtStart(file)
      BY <3>1 DEF AtStart, Stuck
    <3>2. CASE AtFullSector(F, file)
      <4>1. file.fptr # 0
        BY <3>2 DEF AtFullSector
      <4> QED BY <3>2, <4>1, FillsLast
    <3> QED BY <2>1, <3>1, <3>2
  <2>6. /\ Len(left') <= 2 /\ Rests(left') \in Nat /\ Rests(left') <= Rests(left) /\ Rests(left) \in Nat
    BY <2>1, <2>2, <2>3, RestsLess
  <2>7. Appends(Done', Ram', file', left', harm, early)
    <3>1. AtEnd(F, file') /\ Stuck(F, file') /\ SeenBy(Ram, file') = SeenBy(Ram, file)
      BY <2>1, <2>4, <2>5 DEF AtEnd, Stuck, SeenBy, Appends
    <3>2. Older(Done, F, file') /\ Older(Ram, F, file')
      BY <2>1, <2>4 DEF Appends, Older
    <3>3. Ram[Dir(1)].clust = 0 => /\ file'.size + Rests(left') <= SectorSize
                                   /\ file'.sclust # 0 => F[file'.sclust] = Eoc
      <4>1. SUFFICES ASSUME Ram[Dir(1)].clust = 0
                     PROVE  /\ file'.size + Rests(left') <= SectorSize
                            /\ file'.sclust # 0 => F[file'.sclust] = Eoc
        OBVIOUS
      <4>2. file.size + Rests(left) <= SectorSize /\ (file.sclust # 0 => F[file.sclust] = Eoc)
        BY <2>1, <4>1 DEF Appends
      <4>3. SectorSize \in Nat
        BY ClusterNumbers
      <4> QED BY <2>3, <2>4, <2>6, <4>2, <4>3
    <3>4. Reads(SeenBy(Ram, file'), file'.sclust, file'.size, harm) /\ Cardinality(Lost(F, file'.sclust)) <= early
      BY <2>1, <2>4, <3>1 DEF Appends
    <3> QED BY <2>2, <3>1, <3>2, <3>3, <3>4 DEF Appends
  <2> QED BY <2>1, <2>4, <2>6, <2>7 DEF SoundFile
<1> QED BY <1>1, SoundQuiet

\* The disks, when the sector before a boundary is queued.
Queued(K) ==
  /\ DiskTyped(Done') /\ Sane(Done', kept, harm) /\ Leaks(Done', EarlyNow)
  /\ Done'[Fat] = chip[Fat] /\ Done'[Dir(1)] = chip[Dir(1)]
  /\ K[Fat] = Ram[Fat] /\ K[Dir(1)] = Ram[Dir(1)] /\ Sane(K, kept, harm)
  /\ \A e \in Cluster : Done'[Data(e)] = K[Data(e)]

\* The disks that are sound, with the sector before the boundary.
LEMMA BoundaryQueued ==
  ASSUME FatInv, SoundInv, Healthy, pc = "put", queue = <<>>, file.fptr % SectorSize = 0,
         UNCHANGED <<chip, formatting, kept>>,
         queue' = IF file.dirty THEN <<Write(Data(file.sect), file.buf)>> ELSE <<>>,
         \A t \in Sector : t # Fat => Ram[t] = chip[t]
  PROVE  Queued(SeenBy(Ram, file))
<1>1. /\ Appends(Done, Ram, file, left, harm, early) /\ SoundDisk
      /\ Typed /\ Coherence /\ DiskTyped(chip) /\ DiskTyped(Ram) /\ FileTyped(file) /\ Done = chip /\ ~ erased
  BY BoundaryEnd, HealthyPhases DEF FatInv
<1>2. /\ DiskTyped(Done') /\ \A t \in Sector : t \notin Stores => Done'[t] = chip[t]
  BY PutWrites
<1>3. Done'[Fat] = chip[Fat] /\ Done'[Dir(1)] = chip[Dir(1)]
  BY <1>2, Sectors
<1>4. /\ Sane(chip, kept, harm) /\ Leaks(chip, EarlyNow) /\ Sane(Ram, kept, harm)
  BY <1>1 DEF SoundDisk
<1>5. Leaks(Done', EarlyNow)
  BY <1>3, <1>4, LeaksElsewhere
<1>6. PICK K : K = SeenBy(Ram, file)
  OBVIOUS
<1>7. CASE file.sect = 0
  <2>1. ~ file.dirty /\ K = Ram
    BY <1>1, <1>6, <1>7, ClusterNumbers DEF FileTyped, SeenBy
  <2>2. Done' = chip
    BY <2>1 DEF Done
  <2>3. \A e \in Cluster : Done'[Data(e)] = K[Data(e)]
    BY <2>1, <2>2, Sectors
  <2> QED BY <1>2, <1>3, <1>4, <1>5, <1>6, <2>1, <2>2, <2>3 DEF Queued
<1>8. CASE file.sect \in Cluster
  <2>1. /\ K[Fat] = Ram[Fat] /\ K[Data(file.sect)] = file.buf
        /\ \A d \in Cluster : d # file.sect => K[Data(d)] = Ram[Data(d)]
    BY <1>1, <1>6, <1>8, SeenValues
  <2>2. \A t \in Sector : t # Data(file.sect) => K[t] = Ram[t]
    BY <1>1, <1>6, <1>8, Sectors, ClusterNumbers DEF SeenBy, With, DiskTyped
  <2>3. \A e \in Cluster : Done'[Data(e)] = K[Data(e)]
    <3>1. \A e \in Cluster : Ram[Data(e)] = chip[Data(e)] /\ Data(e) \in Sector /\ (e # file.sect => Data(e) # Data(file.sect))
      BY Sectors
    <3>2. CASE file.dirty
      <4>1. Done'[Data(file.sect)] = file.buf /\ \A t \in Sector : t # Data(file.sect) => Done'[t] = chip[t]
        BY <1>1, <1>8, <3>2, QueueData
      <4> QED BY <2>1, <3>1, <4>1
    <3>3. CASE ~ file.dirty
      <4>1. Done' = chip
        BY <3>3 DEF Done
      <4>2. file.buf = Ram[Data(file.sect)]
        <5>1. PutAt(Ram, file, kept)
          BY <1>1 DEF Coherence, WritesFile, Healthy
        <5> QED BY <1>8, <3>3, <5>1, ClusterNumbers DEF PutAt, Buffered
      <4> QED BY <1>8, <2>1, <3>1, <4>1, <4>2
    <3> QED BY <3>2, <3>3
  <2>4. /\ Older(chip, Ram[Fat].next, file) /\ Older(Ram, Ram[Fat].next, file)
        /\ Reads(SeenBy(Ram, file), file.sclust, file.size, harm) /\ file.size \in Nat
    BY <1>1 DEF Appends, FileTyped
  <2>5. Sane(K, kept, harm)
    BY <1>1, <1>4, <1>8, <2>1, <2>2, <2>4, SaneData
  <2>6. \A t \in Sector : t # Data(file.sect) => Done'[t] = chip[t]
    <3>1. SUFFICES ASSUME NEW t \in Sector, t # Data(file.sect), t \in Stores PROVE Done'[t] = chip[t]
      BY <1>2
    <3>2. PICK e \in Cluster : t = Data(e) /\ e # file.sect
      BY <3>1 DEF Stores
    <3>3. Ram[Data(e)] = chip[Data(e)]
      BY Sectors
    <3> QED BY <2>1, <2>3, <3>2, <3>3
  <2>7. Sane(Done', kept, harm)
    <3>1. Done'[Data(file.sect)] = file.buf
      BY <1>8, <2>1, <2>3
    <3> QED BY <1>1, <1>4, <1>8, <2>4, <2>6, <3>1, SaneData
  <2>8. K[Dir(1)] = Ram[Dir(1)]
    BY <2>2, Sectors
  <2> QED BY <1>2, <1>3, <1>5, <1>6, <2>1, <2>3, <2>5, <2>7, <2>8 DEF Queued
<1> QED BY <1>1, <1>7, <1>8 DEF FileTyped

\* The FAT F that create_chain leaves of E, where the file goes on in cluster
\* d behind c.
GoesOn(E, F, c, d) ==
  \/ c # 0 /\ E[c] \in Cluster /\ d = E[c] /\ F = E
  \/ CanStretch(E, d, c) /\ F = Stretched(E, d, c)

\* The recorded file keeps its chain in the new FAT.
LEMMA EntryNotFree ==
  ASSUME NEW G, DiskTyped(G), NEW kp, NEW hm, Sane(G, kp, hm), Coherent(G, kp), G[Dir(1)].clust \in Cluster
  PROVE  G[Fat].next[G[Dir(1)].clust] # Free
<1>1. EntryTyped(G[Dir(1)]) /\ G[Dir(1)].kind # "blank" /\ 1 \in 1 .. Root
  BY Reading, Sectors DEF Sane
<1>2. G[Dir(1)].kind = "file"
  BY <1>1, ClusterNumbers DEF EntryTyped, EndOfTable, Entry
<1>3. EntryFits(G[Fat].next, kp, G[Dir(1)].clust, G[Dir(1)].size)
  BY <1>1, <1>2 DEF Coherent
<1> QED BY <1>3, ClusterNumbers DEF EntryFits, Heads

\* A disk is sound with the FAT that create_chain leaves.
LEMMA SaneGoesOn ==
  ASSUME NEW G, DiskTyped(G), NEW kp, Coherent(G, kp), NEW hm, Sane(G, kp, hm), NEW K, Sane(K, kp, hm),
         K[Fat] = G[Fat], K[Dir(1)] = G[Dir(1)],
         NEW c, NEW d \in Cluster, NEW F, GoesOn(G[Fat].next, F, c, d),
         NEW H, DiskTyped(H), H[Fat].next = F, H[Dir(1)] = G[Dir(1)], \A e \in Cluster : H[Data(e)] = K[Data(e)]
  PROVE  Sane(H, kp, hm)
<1>1. CASE F = G[Fat].next
  <2>1. H[Fat] = K[Fat]
    BY <1>1, Reading
  <2> QED BY <2>1, SaneElsewhere
<1>2. CASE CanStretch(G[Fat].next, d, c) /\ F = Stretched(G[Fat].next, d, c)
  <2>1. CanStretch(K[Fat].next, d, c) /\ H[Fat].next = Stretched(K[Fat].next, d, c) /\ H[Dir(1)] = K[Dir(1)]
    BY <1>2
  <2>2. K[Dir(1)].clust \in Cluster => K[Dir(1)].clust # d
    BY <1>2, EntryNotFree DEF CanStretch
  <2> QED BY <2>1, <2>2, SaneStretched
<1> QED BY <1>1, <1>2 DEF GoesOn

\* That FAT has the links it had.
LEMMA GrownOn ==
  ASSUME NEW D, NEW E, Grown(D, E), NEW F, NEW c, NEW d, GoesOn(E, F, c, d)
  PROVE  Grown(D, F)
<1>1. CanStretch(E, d, c) => Grown(E, Stretched(E, d, c))
  BY GrownStretched
<1> QED BY <1>1, GrownMore DEF GoesOn

\* What a step at a boundary needs of the file and its chain; the names are
\* those of Takes.
Entering(E, F, K, a, d, m, hm, l) ==
  /\ Links(F) /\ Heads(F, a) /\ m \in Nat /\ file.fptr = Upto(m, 0) /\ Leads(F, a, m, d)
  /\ file.sclust \in {0, a} /\ (file.sclust = 0 => file.size = 0)
  /\ Flows(left, file.fptr)
  /\ ReadsOn(F, K, a, file.fptr, hm)
  /\ Cardinality(Lost(F, a)) <= l
  /\ Ram[Dir(1)].clust = 0 => file.size + Rests(left) <= SectorSize /\ F[a] = Eoc
  /\ file.size = file.fptr

\* The first cluster of the file.
LEMMA EnteringStart ==
  ASSUME FatInv, SoundInv, Healthy, pc = "put", left # <<>>, AtStart(file),
         Appends(Done, Ram, file, left, harm, early),
         NEW E, E = Ram[Fat].next, NEW d \in Cluster, NEW F, GoesOn(E, F, 0, d), NEW K
  PROVE  Entering(E, F, K, d, d, 0, harm, early)
<1>1. CanStretch(E, d, 0) /\ F = Stretched(E, d, 0)
  BY DEF GoesOn
<1>2. Links(F) /\ Heads(F, d) /\ F[d] = Eoc
  BY <1>1, StretchedLinks, StretchedFirst, StretchedValues
<1>3. file.fptr = Upto(0, 0) /\ Leads(F, d, 0, d)
  BY LeadsZero, UptoZero DEF AtStart
<1>4. ~ Stuck(E, file)
  BY <1>1 DEF Stuck, CanStretch, FreeIn
<1>5. Flows(left, file.fptr)
  BY <1>4 DEF Appends, AtStart
<1>6. ReadsOn(F, K, d, file.fptr, harm)
  <2>1. \A n \in Nat, i \in 1 .. SectorSize : ~ (Upto(n, i) <= 0)
    <3>1. SUFFICES ASSUME NEW n \in Nat, NEW i \in 1 .. SectorSize PROVE ~ (Upto(n, i) <= 0)
      OBVIOUS
    <3>2. i \in Nat /\ i >= 1
      BY ClusterNumbers
    <3>3. Upto(n, i) \in Nat /\ Upto(n, i) >= i
      BY <3>2, UptoNumber
    <3> QED BY <3>2, <3>3
  <2> QED BY <2>1 DEF ReadsOn, AtStart
<1>7. Cardinality(Lost(F, d)) <= early
  <2>1. PICK x, y : x = Cardinality(Lost(F, d)) /\ y = Cardinality(Lost(E, 0))
    OBVIOUS
  <2>2. x <= y
    BY <1>1, <2>1, LostFirst, LostLess
  <2>3. y <= early
    BY <2>1 DEF Appends, AtStart
  <2>4. x \in Nat /\ y \in Nat /\ early \in Nat
    BY <2>1, LostFinite, HealthyPhases
  <2> QED BY <2>1, <2>2, <2>3, <2>4
<1>8. Ram[Dir(1)].clust = 0 => file.size + Rests(left) <= SectorSize /\ F[d] = Eoc
  BY <1>2 DEF Appends
<1> QED BY <1>2, <1>3, <1>5, <1>6, <1>7, <1>8 DEF Entering, AtStart

\* The cluster behind a full one.
LEMMA EnteringNext ==
  ASSUME FatInv, SoundInv, Healthy, pc = "put", left # <<>>, Len(left) <= 2,
         NEW E, E = Ram[Fat].next, AtFullSector(E, file),
         Appends(Done, Ram, file, left, harm, early),
         NEW d \in Cluster, NEW F, GoesOn(E, F, file.clust, d), NEW K, K = SeenBy(Ram, file), K[Fat] = Ram[Fat]
  PROVE  \E m \in Nat : Entering(E, F, K, file.sclust, d, m, harm, early)
<1>1. PICK a, c : a = file.sclust /\ c = file.clust
  OBVIOUS
<1>2. /\ file.size \in Nat /\ file.size > 0 /\ file.fptr = file.size /\ a \in Cluster /\ c \in Cluster
      /\ Heads(E, a) /\ Reaches(E, a, file.size) /\ c # 0
  BY <1>1, ClusterNumbers DEF AtFullSector
<1>3. PICK n \in Nat : file.size = Upto(n + 1, 0) /\ Leads(E, a, n, c)
  BY <1>1 DEF AtFullSector
<1>4. GoesOn(E, F, c, d) /\ Links(E)
  BY <1>1, HealthyPhases, Reading
<1>5. Leads(F, a, n + 1, d)
  BY <1>2, <1>3, <1>4, LeadsNext, StretchedEnd DEF GoesOn
<1>6. Links(F) /\ Heads(F, a) /\ a # 0
  BY <1>2, <1>4, StretchedLinks, StretchedHeads, ClusterNumbers DEF GoesOn
<1>7. ~ Stuck(E, file)
  <2>1. SUFFICES ASSUME FreeIn(E) = {}, E[c] = Eoc PROVE FALSE
    BY <1>1, FillsLast
  <2> QED BY <1>4, <2>1, ClusterNumbers DEF GoesOn, CanStretch, FreeIn
<1>8. Flows(left, file.fptr)
  BY <1>2, <1>7 DEF Appends
<1>9. ReadsOn(F, K, a, file.fptr, harm)
  <2>1. ReadsOn(E, K, a, file.size, harm)
    BY <1>1 DEF Appends, Reads, ReadsOn
  <2>2. CanStretch(E, d, c) => ReadsOn(Stretched(E, d, c), K, a, file.size, harm)
    <3>1. CanStretch(E, d, c) => a # d
      BY <1>2 DEF CanStretch, Heads
    <3> QED BY <1>2, <2>1, <3>1, ReadsStretched
  <2> QED BY <1>2, <1>4, <2>1, <2>2 DEF GoesOn
<1>10. Cardinality(Lost(F, a)) <= early
  <2>1. PICK x, y : x = Cardinality(Lost(F, a)) /\ y = Cardinality(Lost(E, a))
    OBVIOUS
  <2>2. Lost(F, a) \subseteq Lost(E, a)
    BY <1>2, <1>3, <1>4, LostLonger DEF GoesOn
  <2>3. x <= y
    BY <2>1, <2>2, LostLess
  <2>4. y <= early
    BY <1>1, <2>1 DEF Appends
  <2>5. x \in Nat /\ y \in Nat /\ early \in Nat
    BY <2>1, LostFinite, HealthyPhases
  <2> QED BY <2>1, <2>3, <2>4, <2>5
<1>11. Ram[Dir(1)].clust # 0
  <2>1. SUFFICES ASSUME Ram[Dir(1)].clust = 0 PROVE FALSE
    OBVIOUS
  <2>2. file.size + Rests(left) <= SectorSize
    BY <2>1 DEF Appends
  <2>3. Rests(left) \in Nat /\ Rests(left) > 0
    BY <1>2, HealthyPhases, RestsLess
  <2>4. Upto(n + 1, 0) = Upto(n, 0) + SectorSize /\ Upto(n, 0) \in Nat /\ SectorSize \in Nat
    BY UptoNumber, ClusterNumbers
  <2>5. PICK u, v, s, z : u = Rests(left) /\ v = Upto(n, 0) /\ s = SectorSize /\ z = file.size
    OBVIOUS
  <2>6. z + u <= s /\ u \in Nat /\ u > 0 /\ z = v + s /\ v \in Nat /\ s \in Nat
    BY <1>3, <2>2, <2>3, <2>4, <2>5
  <2> QED BY ONLY <2>6
<1>12. n + 1 \in Nat
  OBVIOUS
<1>13. Entering(E, F, K, a, d, n + 1, harm, early)
  BY <1>1, <1>2, <1>3, <1>5, <1>6, <1>8, <1>9, <1>10, <1>11, <1>12 DEF Entering
<1> QED BY <1>1, <1>12, <1>13

\* The string goes on in cluster d, and the sector before is queued.
Boundary(E, F, c, d, a, b) ==
  /\ pc = "put" /\ pc' = pc /\ queue = <<>> /\ left # <<>> /\ file.fptr % SectorSize = 0
  /\ UNCHANGED <<chip, erased, formatting, harm, kept, early>>
  /\ E = Ram[Fat].next /\ c = (IF file.fptr = 0 THEN 0 ELSE file.clust)
  /\ d \in Cluster /\ GoesOn(E, F, c, d)
  /\ a = (IF file.sclust = 0 THEN d ELSE file.sclust)
  /\ file' = Putting(Started(a), d, b) /\ left' = Rest
  /\ queue' = IF file.dirty THEN <<Write(Data(file.sect), file.buf)>> ELSE <<>>
  /\ DiskTyped(Ram') /\ Ram'[Fat].next = F
  /\ \A t \in Sector : t # Fat => Ram[t] = Done[t] /\ Ram'[t] = Done'[t]

\* The file takes a part of the string at a boundary.
LEMMA BoundaryTakes ==
  ASSUME FatInv, SoundInv, Healthy,
         NEW E, NEW F, NEW c, NEW d, NEW a, NEW b, Boundary(E, F, c, d, a, b), NEW f, f = file'
  PROVE  /\ Sane(Done', kept, harm) /\ Leaks(Done', EarlyNow) /\ Sane(Ram', kept, harm)
         /\ HasTaken(f, a, d, b)
         /\ Appends(Done', Ram', f, Rest, harm, early)
<1>1. /\ pc = "put" /\ pc' = pc /\ queue = <<>> /\ left # <<>> /\ file.fptr % SectorSize = 0
      /\ UNCHANGED <<chip, erased, formatting, harm, kept, early>>
      /\ E = Ram[Fat].next /\ c = (IF file.fptr = 0 THEN 0 ELSE file.clust)
      /\ d \in Cluster /\ GoesOn(E, F, c, d)
      /\ a = (IF file.sclust = 0 THEN d ELSE file.sclust)
      /\ file' = Putting(Started(a), d, b) /\ left' = Rest
      /\ queue' = (IF file.dirty THEN <<Write(Data(file.sect), file.buf)>> ELSE <<>>)
      /\ DiskTyped(Ram') /\ Ram'[Fat].next = F
      /\ \A t \in Sector : t # Fat => Ram[t] = Done[t] /\ Ram'[t] = Done'[t]
  BY DEF Boundary
<1>2. /\ AtStart(file) \/ AtFullSector(E, file)
      /\ Appends(Done, Ram, file, left, harm, early) /\ Len(left) <= 2 /\ SoundDisk
  BY <1>1, BoundaryEnd
<1>3. /\ DiskTyped(chip) /\ DiskTyped(Ram) /\ Done = chip /\ FileTyped(file) /\ Coherent(Ram, kept)
      /\ left \in Seq(Seq(STRING) \ {<<>>})
  BY <1>1, HealthyPhases
<1>4. PICK K, G, D : K = SeenBy(Ram, file) /\ G = Ram' /\ D = Done'
  OBVIOUS
<1>5. Queued(K)
  <2>1. \A t \in Sector : t # Fat => Ram[t] = chip[t]
    BY <1>1, <1>3
  <2>2. UNCHANGED <<chip, formatting, kept>>
    BY <1>1
  <2> QED BY <1>1, <1>4, <2>1, <2>2, BoundaryQueued
<1>6. /\ DiskTyped(D) /\ Sane(D, kept, harm) /\ Leaks(D, EarlyNow)
      /\ D[Fat] = chip[Fat] /\ D[Dir(1)] = chip[Dir(1)]
      /\ K[Fat] = Ram[Fat] /\ K[Dir(1)] = Ram[Dir(1)] /\ Sane(K, kept, harm)
      /\ \A e \in Cluster : D[Data(e)] = K[Data(e)]
  BY <1>4, <1>5 DEF Queued
<1>7. /\ DiskTyped(G) /\ G[Fat].next = F /\ G[Dir(1)] = Ram[Dir(1)]
      /\ \A e \in Cluster : G[Data(e)] = K[Data(e)]
  BY <1>1, <1>3, <1>4, <1>6, Sectors
<1>8. Sane(G, kept, harm)
  <2>1. Sane(Ram, kept, harm) /\ GoesOn(Ram[Fat].next, F, c, d) /\ d \in Cluster
    BY <1>1, <1>2 DEF SoundDisk
  <2>2. PICK R : R = Ram
    OBVIOUS
  <2> QED BY <1>3, <1>6, <1>7, <2>1, <2>2, SaneGoesOn
<1>9. a \in Cluster
  BY <1>1, <1>2, ClusterNumbers DEF AtStart, AtFullSector
<1>10. HasTaken(f, a, d, b)
  BY <1>1, <1>3, <1>9, ClusterNumbers, PuttingFile
<1>11. \E m \in Nat : Entering(E, F, K, a, d, m, harm, early)
  <2>1. CASE AtStart(file)
    <3>1. c = 0 /\ a = d
      BY <1>1, <2>1, ClusterNumbers DEF AtStart
    <3>2. /\ pc = "put" /\ left # <<>> /\ E = Ram[Fat].next /\ d \in Cluster /\ GoesOn(E, F, 0, d)
          /\ Appends(Done, Ram, file, left, harm, early)
      BY <1>1, <1>2, <3>1
    <3>3. Entering(E, F, K, d, d, 0, harm, early)
      BY <2>1, <3>2, EnteringStart
    <3> QED BY <3>1, <3>3
  <2>2. CASE AtFullSector(E, file)
    <3>1. c = file.clust /\ a = file.sclust
      BY <1>1, <2>2, ClusterNumbers DEF AtFullSector
    <3> QED BY <1>1, <1>2, <1>4, <1>6, <2>2, <3>1, EnteringNext
  <2> QED BY <1>2, <2>1, <2>2
<1>12. PICK m \in Nat : Entering(E, F, K, a, d, m, harm, early)
  BY <1>11
<1>13. /\ Links(F) /\ Heads(F, a) /\ file.fptr = Upto(m, 0) /\ Leads(F, a, m, d)
       /\ file.sclust \in {0, a} /\ (file.sclust = 0 => file.size = 0)
       /\ Flows(left, file.fptr) /\ ReadsOn(F, K, a, file.fptr, harm)
       /\ Cardinality(Lost(F, a)) <= early
       /\ Ram[Dir(1)].clust = 0 => file.size + Rests(left) <= SectorSize /\ F[a] = Eoc
       /\ file.size = file.fptr
  BY <1>12 DEF Entering
<1>14. /\ Older(chip, E, file) /\ Older(Ram, E, file)
  BY <1>1, <1>2, <1>3 DEF Appends
<1>15. f.size = file.size + Taken /\ f.sclust = a /\ Taken \in Nat /\ file.size \in Nat /\ file.fptr \in Nat
  BY <1>1, <1>3, <1>10, <1>13, TakenStrings DEF HasTaken, FileTyped
<1>16. \A x : x \in {0, file.sclust} => x \in {0, f.sclust}
  BY <1>13, <1>15
<1>17. \A x \in Nat : x <= file.size => x <= f.size
  BY <1>15
<1>18. EntryTyped(chip[Dir(1)]) /\ EntryTyped(Ram[Dir(1)])
  BY <1>3, Reading, Sectors
<1>19. Older(D, F, f)
  <2>1. D[Dir(1)].clust \in {0, f.sclust} /\ D[Dir(1)].size <= f.size
    BY <1>6, <1>14, <1>16, <1>17, <1>18 DEF Older, EntryTyped
  <2>2. Grown(D[Fat].next, F)
    BY <1>1, <1>6, <1>14, GrownOn DEF Older
  <2> QED BY <2>1, <2>2 DEF Older
<1>20. Older(G, F, f)
  <2>1. G[Dir(1)].clust \in {0, f.sclust} /\ G[Dir(1)].size <= f.size
    BY <1>7, <1>14, <1>16, <1>17, <1>18 DEF Older, EntryTyped
  <2>2. Grown(G[Fat].next, F)
    BY <1>7 DEF Grown
  <2> QED BY <2>1, <2>2 DEF Older
<1>21. Takes(D, G, F, K, a, d, b, f, m, harm, early)
  <2>1. \A i \in 1 .. file.fptr % SectorSize : b[i] = K[Data(d)][i]
    BY <1>1
  <2>2. file.fptr = Upto(m, file.fptr % SectorSize)
    BY <1>1, <1>13
  <2>3. G[Dir(1)].clust = 0 => file.size + Rests(left) <= SectorSize /\ F[a] = Eoc
    BY <1>7, <1>13
  <2>4. /\ left # <<>> /\ left \in Seq(Seq(STRING) \ {<<>>}) /\ Len(left) <= 2
        /\ d \in Cluster
    BY <1>1, <1>2, <1>3
  <2> QED BY ONLY <1>7, <1>10, <1>12, <1>13, <1>15, <1>19, <1>20, <2>1, <2>2, <2>3, <2>4 DEF Takes
<1>22. Appends(D, G, f, Rest, harm, early)
  BY <1>21, AppendsTaken
<1> QED BY <1>4, <1>6, <1>8, <1>10, <1>22

\* The step that does is sound.
LEMMA BoundaryTakenSound ==
  ASSUME FatInv, SoundInv,
         NEW E, NEW F, NEW c, NEW d, NEW a, NEW b, Boundary(E, F, c, d, a, b)
  PROVE  SoundInv'
<1>1. /\ pc = "put" /\ pc' = pc /\ queue = <<>> /\ left # <<>> /\ left' = Rest
      /\ UNCHANGED <<chip, erased, formatting, harm, kept, early>>
  BY DEF Boundary
<1>2. ASSUME Healthy
      PROVE  Sane(Done', kept, harm) /\ Leaks(Done', EarlyNow) /\ Sane(Ram', kept, harm) /\ SoundFile'
  <2>1. PICK f : f = file'
    OBVIOUS
  <2>2. /\ Sane(Done', kept, harm) /\ Leaks(Done', EarlyNow) /\ Sane(Ram', kept, harm)
        /\ HasTaken(f, a, d, b) /\ Appends(Done', Ram', f, Rest, harm, early)
    BY <1>2, <2>1, BoundaryTakes
  <2>3. Appends(Done', Ram', file', left', harm', early')
    BY <1>1, <2>1, <2>2
  <2>4. /\ FileTyped(file) /\ left \in Seq(Seq(STRING) \ {<<>>}) /\ Len(left) <= 2 /\ file.dirSect = Dir(1)
    BY <1>1, <1>2, HealthyPhases DEF SoundInv, SoundFile
  <2>5. file.fptr \in Nat
    BY <2>4 DEF FileTyped
  <2>6. Len(left') <= 2 /\ (left' = <<>> => file'.modified) /\ file'.dirSect = Dir(1)
    BY <1>1, <2>1, <2>2, <2>4, <2>5, RestsLess, TakenStrings DEF HasTaken
  <2> QED BY <1>1, <2>2, <2>3, <2>6 DEF SoundFile
<1> QED BY <1>1, <1>2, SoundSteps

\* What PutBoundary does with the cluster it gets.
LEMMA BoundaryDoes ==
  ASSUME PutBoundary, PutNeedsFat, NEW c, c = (IF file.fptr = 0 THEN 0 ELSE file.clust),
         NEW r, r = CreateChain(FatNow, last, c)
  PROVE  /\ TakeFat(TRUE, r) /\ winsect = Fat
         /\ r.clust = 0 => file' = [file EXCEPT !.modified = TRUE] /\ left' = Tail(left) /\ queue' = queue
         /\ r.clust \in Cluster =>
              /\ \E b : file' = Putting(Started(IF file.sclust = 0 THEN r.clust ELSE file.sclust), r.clust, b)
              /\ left' = Rest
              /\ queue' = IF file.dirty THEN <<Write(Data(file.sect), file.buf)>> ELSE <<>>
<1> DEFINE s == IF PutNeedsFat THEN CreateChain(FatNow, last, IF file.fptr = 0 THEN 0 ELSE file.clust)
                ELSE Chain(file.sclust, FatNow, last)
           b == IF file.sect # r.clust /\ file.fptr < file.size THEN chip[Data(r.clust)] ELSE file.buf
<1>1. s = r
  OBVIOUS
<1>2. TakeFat(PutNeedsFat, s) /\ winsect = Fat
  BY DEF PutBoundary
<1>3. TakeFat(TRUE, r)
  <2>1. PutNeedsFat = TRUE
    BY DEF PutNeedsFat
  <2> HIDE DEF s
  <2> QED BY <1>1, <1>2, <2>1 DEF TakeFat
<1>4. /\ s.clust = 0 => file' = [file EXCEPT !.modified = TRUE] /\ left' = Tail(left) /\ queue' = queue
      /\ s.clust \in Cluster =>
           /\ file' = Putting([file EXCEPT !.sclust = IF @ = 0 THEN s.clust ELSE @], s.clust,
                              IF file.sect # s.clust /\ file.fptr < file.size THEN chip[Data(s.clust)] ELSE file.buf)
           /\ left' = Rest
           /\ queue' = IF file.dirty THEN <<Write(Data(file.sect), file.buf)>> ELSE <<>>
  <2>1. s.clust = 0 => s.clust \notin Cluster
    BY ClusterNumbers
  <2>2. CASE s.clust = 0
    BY <2>1, <2>2 DEF PutBoundary
  <2>3. CASE s.clust \in Cluster
    BY <2>1, <2>3 DEF PutBoundary
  <2> HIDE DEF s
  <2> QED BY <2>2, <2>3
<1>5. Started(IF file.sclust = 0 THEN r.clust ELSE file.sclust)
        = [file EXCEPT !.sclust = IF @ = 0 THEN r.clust ELSE @]
  BY DEF Started
<1> HIDE DEF s
<1> QED BY <1>1, <1>2, <1>3, <1>4, <1>5

\* At a boundary the file goes on in the next cluster of its chain, or in one
\* that was free, or the disk is full.
LEMMA PutBoundarySound == ASSUME FatInv, SoundInv, PutBoundary PROVE SoundInv'
<1>1. /\ pc = "put" /\ pc' = pc /\ queue = <<>> /\ left # <<>> /\ file.fptr % SectorSize = 0
      /\ UNCHANGED <<chip, erased, mounted, winsect, formatting, harm, kept, early>>
  BY DEF PutBoundary, AtBoundary, memory
<1>2. CASE ~ Healthy
  BY <1>1, <1>2 DEF SoundInv, Healthy
<1>3. CASE Healthy
  <2>1. PICK O, c : O = Ram[Fat].next /\ c = (IF file.fptr = 0 THEN 0 ELSE file.clust)
    OBVIOUS
  <2>2. AtStart(file) \/ AtFullSector(O, file)
    BY <1>1, <1>3, <2>1, BoundaryEnd
  <2>3. /\ Typed /\ Windowed /\ Phased /\ mounted /\ DiskTyped(Ram) /\ DiskTyped(chip) /\ Done = chip
    BY <1>1, <1>3, HealthyPhases DEF FatInv, Phased
  <2>4. PutNeedsFat
    BY <1>1, <2>2 DEF PutNeedsFat, AtBoundary, AtStart, AtFullSector
  <2>5. PICK r : r = CreateChain(FatNow, last, c)
    OBVIOUS
  <2>6. /\ TakeFat(TRUE, r) /\ winsect = Fat
        /\ r.clust = 0 => file' = [file EXCEPT !.modified = TRUE] /\ left' = Tail(left) /\ queue' = queue
        /\ r.clust \in Cluster =>
             /\ \E b : file' = Putting(Started(IF file.sclust = 0 THEN r.clust ELSE file.sclust), r.clust, b)
             /\ left' = Rest
             /\ queue' = IF file.dirty THEN <<Write(Data(file.sect), file.buf)>> ELSE <<>>
    BY <2>1, <2>4, <2>5, BoundaryDoes
  <2>7. Fat \in Sector /\ Fat \in System /\ Fat \notin Stores
    BY Sectors DEF System
  <2>8. FatNow = O /\ Links(O)
    BY <2>1, <2>3, <2>6, <2>7, Reading DEF FatNow, Windowed
  <2>9. c = 0 \/ (c \in Cluster /\ O[c] # Free)
    BY <2>1, <2>2 DEF AtFullSector, AtStart
  <2>10. \/ r.clust = 0 /\ r.fat = O /\ FreeIn(O) = {} /\ (c # 0 => O[c] = Eoc)
         \/ c # 0 /\ O[c] \in Cluster /\ r.clust = O[c] /\ r.fat = O
         \/ CanStretch(O, r.clust, c) /\ r.fat = Stretched(O, r.clust, c)
    BY <2>5, <2>8, <2>9, ChainSteps
  <2>11. Links(r.fat)
    BY <2>8, <2>10, StretchedLinks
  <2>12. CASE r.clust = 0
    <3>1. r.fat = O /\ FreeIn(O) = {} /\ (c # 0 => O[c] = Eoc)
      BY <2>10, <2>12, ClusterNumbers DEF CanStretch
    <3>2. file' = [file EXCEPT !.modified = TRUE] /\ left' = Tail(left) /\ queue' = <<>>
      BY <1>1, <2>6, <2>12
    <3>3. Ram' = Ram
      BY <1>1, <2>1, <2>3, <2>6, <2>11, <3>1, <3>2, FatTaken
    <3>4. file.fptr # 0 => O[file.clust] = Eoc
      <4>1. file.fptr # 0 => c = file.clust /\ c # 0
        BY <2>1, <2>2, ClusterNumbers DEF AtStart, AtFullSector
      <4> QED BY <3>1, <4>1
    <3> QED BY <1>1, <2>1, <3>1, <3>2, <3>3, <3>4, PutFullSound
  <2>13. CASE r.clust # 0
    <3>1. PICK d \in Cluster : d = r.clust
      BY <2>10, <2>13 DEF CanStretch
    <3>2. PICK F, a : F = r.fat /\ a = (IF file.sclust = 0 THEN d ELSE file.sclust)
      OBVIOUS
    <3>3. GoesOn(O, F, c, d)
      BY <2>10, <2>13, <3>1, <3>2 DEF GoesOn
    <3>4. PICK b : file' = Putting(Started(a), d, b)
      BY <2>6, <3>1, <3>2
    <3>5. left' = Rest /\ queue' = (IF file.dirty THEN <<Write(Data(file.sect), file.buf)>> ELSE <<>>)
      BY <2>6, <3>1
    <3>6. /\ DiskTyped(Done') /\ \A t \in Sector : t \notin Stores => Done'[t] = chip[t]
      <4>1. UNCHANGED <<chip, formatting, kept>>
        BY <1>1
      <4> QED BY <1>1, <3>5, <4>1, PutWrites
    <3>7. Done'[Fat] = Done[Fat]
      BY <2>3, <2>7, <3>6
    <3>8. /\ DiskTyped(Ram') /\ Ram'[Fat].next = F
          /\ \A t \in Sector : t # Fat => Ram[t] = Done[t] /\ Ram'[t] = Done'[t]
      BY <1>1, <2>3, <2>6, <2>11, <3>2, <3>6, <3>7, FatInWindow
    <3>9. Boundary(O, F, c, d, a, b)
      BY <1>1, <2>1, <3>1, <3>2, <3>3, <3>4, <3>5, <3>8 DEF Boundary
    <3> QED BY <3>9, BoundaryTakenSound
  <2> QED BY <2>12, <2>13
<1> QED BY <1>2, <1>3

\* Every step keeps it.
LEMMA SoundNext ==
  ASSUME FatInv, SoundInv, [FatNext]_fatVars
  PROVE  SoundInv'
BY EraseSound, ProgramSound, OutageSound, UsbWriteSound, WindowSound, OpenDeniedSound, OpenNewSound, OpenOldSound,
   SeekFirstSound, SeekBehindSound, SeekEndSound, PutInsideSound, PutBoundarySound, PutDoneSound,
   CloseDataSound, CloseEntrySound, CloseUnchangedSound, CloseDoneSound, FormatSound, FormatDoneSound, ListSound,
   SoundStutter
DEF FatNext, Run, FatFs

\* On a sound volume the disk holds the text, whatever is still in RAM.
THEOREM SoundAlways == FatSpec => [](FatInv /\ SoundInv)
<1>1. FatInit => FatInv /\ SoundInv
  BY FatInvInit, SoundInit
<1>2. FatInv /\ SoundInv /\ [FatNext]_fatVars => (FatInv /\ SoundInv)'
  BY FatInvNext, SoundNext
<1> QED BY <1>1, <1>2, PTL DEF FatSpec

\* The chip itself, with the sectors that would be cut now.
LEMMA SoundChip ==
  ASSUME FatInv, SoundInv, Sound
  PROVE  /\ DiskTyped(chip) /\ KeptTyped(kept) /\ Coherent(chip, kept)
         /\ Sane(chip, kept, Cut) /\ Leaks(chip, EarlyNow)
<1>1. ~ formatting /\ Cut \subseteq Stores /\ harm \subseteq Cut
  BY DEF Sound, Stores, Cut
<1>2. Healthy
  BY <1>1 DEF Healthy
<1>3. DiskTyped(chip) /\ DiskTyped(Done) /\ KeptTyped(kept) /\ Coherent(Done, kept) /\ SoundDisk
  BY <1>2, HealthyPhases DEF SoundInv
<1>4. CASE ~ erased
  <2>1. Cut = harm
    BY <1>4 DEF Cut
  <2>2. Coherent(chip, kept)
    BY <1>1, <1>4 DEF FatInv, Coherence
  <2> QED BY <1>3, <1>4, <2>1, <2>2 DEF SoundDisk
<1>5. CASE erased
  <2>1. Typed /\ queue # <<>>
    BY <1>5 DEF FatInv, Typed
  <2>2. Cut = harm \cup {Head(queue).sect}
    BY <1>5 DEF Cut
  <2>3. PICK c \in Cluster : Head(queue).sect = Data(c)
    BY <1>1, <2>2 DEF Stores
  <2>4. \A s \in Sector : s # Data(c) => chip[s] = Done[s]
    BY <2>1, <2>3, HeadTyped
  <2>5. chip[Fat] = Done[Fat] /\ chip[Dir(1)] = Done[Dir(1)]
    BY <2>4, Sectors
  <2>6. \A d \in Cluster : Data(d) \notin Cut => Data(d) \notin harm /\ chip[Data(d)] = Done[Data(d)]
    BY <2>2, <2>3, <2>4, Sectors
  <2>7. Sane(Done, kept, harm) /\ Leaks(Done, EarlyNow)
    BY <1>3 DEF SoundDisk
  <2>8. Sane(chip, kept, Cut)
    <3>1. PICK G, H : G = Done /\ H = chip
      OBVIOUS
    <3> QED BY <2>5, <2>6, <2>7, <3>1, SaneElsewhere
  <2>9. Leaks(chip, EarlyNow)
    BY <2>5, <2>7, LeaksElsewhere
  <2>10. Coherent(chip, kept)
    BY <1>3, <2>4, CoherentData
  <2> QED BY <1>3, <2>8, <2>9, <2>10
<1> QED BY <1>4, <1>5

\* On a volume whose FAT and directory were never cut the chain reaches the
\* end of the file, no byte a close recorded is missing, and every byte is that
\* of the text, unless its own sector was cut.
THEOREM TextIsKept == FatSpec => []TextKept
<1>1. FatInv /\ SoundInv => TextKept
  <2>1. ASSUME FatInv, SoundInv, Sound PROVE TextOn(Cut)
    BY <2>1, SoundChip, SaneText
  <2> QED BY <2>1 DEF TextKept, TextOn
<1> QED BY <1>1, SoundAlways, PTL

\* Each loss of power before the first close loses one cluster at most, and no
\* other step loses any.
THEOREM LeaksAreBounded == FatSpec => []LeakBounded
<1>1. FatInv /\ SoundInv => LeakBounded
  <2>1. ASSUME FatInv, SoundInv, Sound
        PROVE  Cardinality({c \in Cluster : chip[Fat].next[c] # Free /\ Place(c) = {}}) <= EarlyNow
    BY <2>1, SoundChip, LeaksPlaces
  <2> QED BY <2>1 DEF LeakBounded
<1> QED BY <1>1, SoundAlways, PTL
=============================================================================
