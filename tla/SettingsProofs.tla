---------------------------- MODULE SettingsProofs --------------------------
(***************************************************************************)
(* Theorems about Settings, for every set of records, cities and versions, *)
(* and every number of edits, failed writes, power cuts and starts.        *)
(***************************************************************************)
EXTENDS Settings, TLAPS

-----------------------------------------------------------------------------
(* The inductive invariant.                                                *)

\* At most one record of each domain.
OneRecord(f) ==
    /\ f = [d \in Domains |-> f[d]]
    /\ \A d \in Domains : \A r, q \in f[d] : r = q

\* A record that a load accepts was once given to a save.
Readable(f, g) ==
    \A d \in Domains : \A r \in f[d] : r.length = "full" /\ Validate(d, r) => r.data \in g[d]

FlashGiven ==
    /\ OneRecord(flash)
    /\ Readable(flash, given)
    /\ given = [d \in Domains |-> given[d]]

CopiesGiven ==
    /\ locale \in {Default["locale"]} \cup given["locale"]
    /\ display \in {Default["display"]} \cup given["display"]

\* A change of server that the WebSocket task has not followed yet is still to
\* be told to it, or waits in its queue.
ServerFollows ==
    main = "up" => notice \/ handler.do = "tell" \/ server = Load("api_region").region

\* The version acknowledged in flash is one that was accepted.
AckAccepted ==
    /\ version \in Versions
    /\ Load("disclaimer") \in accepted \cup {""}

IInv ==
    /\ FlashGiven
    /\ CopiesGiven
    /\ PinnedStays
    /\ ServerFollows
    /\ AckAccepted
    /\ DisclaimerSeen

-----------------------------------------------------------------------------
(* Lemmas: loads, saves and starts.                                        *)

LEMMA LoadGiven ==
    ASSUME NEW f, NEW g, NEW b, NEW d \in Domains, OneRecord(f), Readable(f, g)
    PROVE  LoadFrom(f, b, d) \in {Default[d]} \cup g[d]
<1>1. CASE \E r \in f[d] : r.length = "full" /\ Validate(d, r)
  <2>1. PICK r \in f[d] : r.length = "full" /\ Validate(d, r)
    BY <1>1
  <2>2. (CHOOSE q \in f[d] : TRUE) = r
    BY <2>1 DEF OneRecord
  <2>3. r.data \in g[d]
    BY <2>1 DEF Readable
  <2> QED
    BY <2>2, <2>3 DEF LoadFrom
<1>2. CASE ~(\E r \in f[d] : r.length = "full" /\ Validate(d, r))
  BY <1>2 DEF LoadFrom
<1> QED
  BY <1>1, <1>2

\* A load depends on the record alone.
LEMMA LoadSame ==
    ASSUME NEW f, NEW g, NEW b, NEW c, NEW d, d # "wifi", f[d] = g[d]
    PROVE  LoadFrom(f, b, d) = LoadFrom(g, c, d)
BY DEF LoadFrom

\* The store of profiles does not matter to the acknowledged version.
LEMMA AckAlwaysThere ==
    ASSUME NEW f, NEW b
    PROVE  LoadFrom(f, b, "disclaimer") = LoadFrom(f, FALSE, "disclaimer")
BY DEF LoadFrom

\* What was sealed is read back.
LEMMA LoadSealed ==
    ASSUME NEW f, NEW b, NEW d, NEW data, d # "wifi", InRange(d, data), f[d] = {Seal(d, data)}
    PROVE  LoadFrom(f, b, d) = data
<1>1. /\ Seal(d, data).length = "full" /\ Seal(d, data).data = data
      /\ Validate(d, Seal(d, data))
  BY DEF Seal, Validate
<1>2. (CHOOSE r \in f[d] : TRUE) = Seal(d, data)
  OBVIOUS
<1> QED
  BY <1>1, <1>2 DEF LoadFrom

LEMMA SaveFacts ==
    ASSUME FlashGiven, NEW d \in Domains, NEW data, NEW outcome, Save(d, data, outcome)
    PROVE  /\ FlashGiven'
           /\ \A e \in Domains : given[e] \subseteq given'[e]
           /\ data \in given'[d]
           /\ \A e \in Domains \ {d} : flash'[e] = flash[e]
           /\ flash'[d] \in {flash[d], {Seal(d, data)}}
           /\ d # "wifi" /\ outcome # "refused" => flash'[d] = {Seal(d, data)}
<1> USE DEF FlashGiven
<1>1. given' = [given EXCEPT ![d] = @ \cup {data}]
  BY DEF Save
<1>2. /\ given' = [e \in Domains |-> given'[e]]
      /\ \A e \in Domains : given[e] \subseteq given'[e]
      /\ data \in given'[d]
  BY <1>1
<1>3. flash' = flash \/ flash' = [flash EXCEPT ![d] = {Seal(d, data)}]
  BY DEF Save
<1>4. /\ flash' = [e \in Domains |-> flash'[e]]
      /\ \A e \in Domains \ {d} : flash'[e] = flash[e]
      /\ flash'[d] \in {flash[d], {Seal(d, data)}}
  BY <1>3 DEF OneRecord
<1>5. OneRecord(flash')
  BY <1>4 DEF OneRecord
<1>6. Readable(flash', given')
  <2>1. Seal(d, data).data = data
    BY DEF Seal
  <2> QED
    BY <1>2, <1>4, <2>1 DEF Readable
<1>7. d # "wifi" /\ outcome # "refused" => flash'[d] = {Seal(d, data)}
  BY DEF Save, OneRecord
<1> QED
  BY <1>2, <1>4, <1>5, <1>6, <1>7

\* After a start: `f` is what flash holds, all else is read from it.
LEMMA StartFacts ==
    ASSUME NEW f, NEW b, NEW v \in Versions, StartWith(f, b, v),
           OneRecord(f), Readable(f, given), given = [d \in Domains |-> given[d]],
           LoadFrom(f, FALSE, "disclaimer") \in accepted \cup {""},
           UNCHANGED <<given, accepted>>
    PROVE  /\ flash' = f
           /\ FlashGiven' /\ CopiesGiven' /\ ServerFollows' /\ AckAccepted' /\ DisclaimerSeen'
<1>1. /\ flash' = f /\ version' = v /\ main' = "read zone"
      /\ locale' = LoadFrom(f, FALSE, "locale") /\ display' = LoadFrom(f, FALSE, "display")
      /\ screen' = IF ShouldShow(LoadFrom(f, FALSE, "disclaimer"), v) THEN "disclaimer"
                   ELSE "dashboard"
  BY DEF StartWith, DisplayUp
<1>2. FlashGiven'
  BY <1>1 DEF FlashGiven
<1>3. CopiesGiven'
  <2>1. "locale" \in Domains /\ "display" \in Domains
    BY SettingsAssumption
  <2>2. /\ LoadFrom(f, FALSE, "locale") \in {Default["locale"]} \cup given["locale"]
        /\ LoadFrom(f, FALSE, "display") \in {Default["display"]} \cup given["display"]
    BY <2>1, LoadGiven
  <2> QED
    BY <1>1, <2>2 DEF CopiesGiven
<1>4. AckAccepted'
  <2>1. LoadFrom(flash', store', "disclaimer") = LoadFrom(f, FALSE, "disclaimer")
    <3>1. LoadFrom(flash', FALSE, "disclaimer") = LoadFrom(f, FALSE, "disclaimer")
      BY <1>1
    <3>2. LoadFrom(flash', store', "disclaimer") = LoadFrom(flash', FALSE, "disclaimer")
      BY AckAlwaysThere
    <3> QED
      BY <3>1, <3>2
  <2> QED
    BY <1>1, <2>1 DEF AckAccepted, Load
<1>5. DisclaimerSeen'
  <2>1. v # ""
    BY SettingsAssumption
  <2> QED
    BY <1>1, <2>1 DEF DisclaimerSeen, ShouldShow
<1> QED
  BY <1>1, <1>2, <1>3, <1>4, <1>5 DEF ServerFollows

\* What is loaded from a record that a step leaves alone stays the same.
LEMMA LoadStays ==
    ASSUME NEW d, d # "wifi", flash'[d] = flash[d]
    PROVE  Load(d)' = Load(d)
<1>1. LoadFrom(flash', store', d) = LoadFrom(flash, store, d)
  BY LoadSame
<1> QED
  BY <1>1 DEF Load

\* The copies were given to a save, and go on having been.
LEMMA CopiesStay ==
    ASSUME CopiesGiven, \A d \in Domains : given[d] \subseteq given'[d],
           locale' = locale \/ locale' \in given'["locale"],
           display' = display \/ display' \in given'["display"]
    PROVE  CopiesGiven'
<1>1. "locale" \in Domains /\ "display" \in Domains
  BY SettingsAssumption
<1> QED
  BY <1>1 DEF CopiesGiven

-----------------------------------------------------------------------------
(* The invariant holds at first and is kept by every step.                 *)

LEMMA InitIInv == Init => IInv
<1> SUFFICES ASSUME Init
             PROVE  IInv
  OBVIOUS
<1>1. /\ flash \in Found /\ version \in Versions /\ main = "read zone" /\ pinned = "none"
      /\ given = [d \in Domains |-> {r.data : r \in {r \in flash[d] : Validate(d, r)}}]
      /\ accepted = {LoadFrom(flash, TRUE, "disclaimer")}
  BY DEF Init
<1>2. OneRecord(flash)
  BY <1>1, SettingsAssumption DEF OneRecord
<1>3. Readable(flash, given) /\ given = [d \in Domains |-> given[d]]
  BY <1>1 DEF Readable
<1>4. CopiesGiven
  <2>1. "locale" \in Domains /\ "display" \in Domains
    BY SettingsAssumption
  <2>2. /\ LoadFrom(flash, TRUE, "locale") \in {Default["locale"]} \cup given["locale"]
        /\ LoadFrom(flash, TRUE, "display") \in {Default["display"]} \cup given["display"]
    BY <1>2, <1>3, <2>1, LoadGiven
  <2> QED
    BY <2>2 DEF Init, CopiesGiven
<1>5. AckAccepted
  <2>1. LoadFrom(flash, store, "disclaimer") = LoadFrom(flash, TRUE, "disclaimer")
    BY DEF LoadFrom
  <2> QED
    BY <1>1, <2>1 DEF AckAccepted, Load
<1>6. DisclaimerSeen
  <2>1. version # ""
    BY <1>1, SettingsAssumption
  <2> QED
    BY <1>1, <2>1 DEF Init, DisclaimerSeen, ShouldShow
<1> QED
  BY <1>1, <1>2, <1>3, <1>4, <1>5, <1>6
  DEF IInv, FlashGiven, PinnedStays, ServerFollows

\* A start, with what a power cut, an erased partition or a damaged record has
\* left in flash.
LEMMA StartsKeep ==
    ASSUME IInv, Start \/ (\E d \in Domains : Damage(d)) \/ PanicOnReset
    PROVE  IInv'
<1> USE DEF IInv
<1>1. /\ OneRecord(flash) /\ Readable(flash, given) /\ given = [d \in Domains |-> given[d]]
      /\ version \in Versions
      /\ "api_region" \in Domains /\ "disclaimer" \in Domains
  BY SettingsAssumption DEF FlashGiven, AckAccepted
<1>2. LoadFrom(flash, FALSE, "disclaimer") \in accepted \cup {""}
  <2>1. LoadFrom(flash, FALSE, "disclaimer") = LoadFrom(flash, store, "disclaimer")
    BY DEF LoadFrom
  <2> QED
    BY <2>1 DEF AckAccepted, Load
\* A record that no load accepts reads as none.
<1>3. ASSUME NEW f, \/ f["disclaimer"] = flash["disclaimer"]
                    \/ ~(\E r \in f["disclaimer"] : r.length = "full"
                                                    /\ Validate("disclaimer", r))
      PROVE  LoadFrom(f, FALSE, "disclaimer") \in accepted \cup {""}
  <2>1. CASE f["disclaimer"] = flash["disclaimer"]
    <3>1. LoadFrom(f, FALSE, "disclaimer") = LoadFrom(flash, FALSE, "disclaimer")
      BY <2>1 DEF LoadFrom
    <3> QED
      BY <1>2, <3>1
  <2>2. CASE ~(\E r \in f["disclaimer"] : r.length = "full" /\ Validate("disclaimer", r))
    BY <2>2, SettingsAssumption DEF LoadFrom
  <2> QED
    BY <1>3, <2>1, <2>2
<1>4. CASE Start
  <2>1. PICK v \in Versions, part \in Erasable, available \in BOOLEAN :
            /\ StartWith(Erased(flash, part), available, v)
            /\ lost' = (lost \/ part = "default partition")
            /\ UNCHANGED <<given, accepted, pinned>>
    BY <1>4 DEF Start
  <2> DEFINE f == Erased(flash, part)
  <2>2. /\ f = [d \in Domains |-> f[d]]
        /\ \A d \in Domains : f[d] \in {{}, flash[d]}
        /\ part # "default partition" => f["api_region"] = flash["api_region"]
    BY <1>1 DEF Erased, OneRecord
  <2> HIDE DEF f
  <2>3. OneRecord(f) /\ Readable(f, given)
    BY <1>1, <2>2 DEF OneRecord, Readable
  <2>4. LoadFrom(f, FALSE, "disclaimer") \in accepted \cup {""}
    BY <1>1, <1>3, <2>2
  <2>5. StartWith(f, available, v)
    BY <2>1 DEF f
  <2>6. /\ flash' = f
        /\ FlashGiven' /\ CopiesGiven' /\ ServerFollows' /\ AckAccepted' /\ DisclaimerSeen'
    BY <1>1, <2>1, <2>3, <2>4, <2>5, StartFacts
  <2>7. part # "default partition" => Load("api_region")' = Load("api_region")
    BY <2>2, <2>6, LoadStays
  <2>8. PinnedStays'
    BY <2>1, <2>7 DEF PinnedStays
  <2> QED
    BY <2>6, <2>8
<1>5. ASSUME NEW d \in Domains, Damage(d)
      PROVE  IInv'
  <2>1. PICK broken :
            /\ broken.length # "full" \/ broken.sum # "match"
            /\ StartWith([flash EXCEPT ![d] = {broken}], store, version)
            /\ lost' = (lost \/ d = "api_region")
            /\ UNCHANGED <<given, accepted, pinned>>
    BY <1>5 DEF Damage
  <2> DEFINE f == [flash EXCEPT ![d] = {broken}]
  <2>2. /\ f = [e \in Domains |-> f[e]]
        /\ f[d] = {broken} /\ \A e \in Domains \ {d} : f[e] = flash[e]
    BY <1>1 DEF OneRecord
  <2> HIDE DEF f
  <2>3. ~(broken.length = "full" /\ Validate(d, broken))
    BY <2>1 DEF Validate
  <2>4. OneRecord(f) /\ Readable(f, given)
    BY <1>1, <2>2, <2>3 DEF OneRecord, Readable
  <2>5. LoadFrom(f, FALSE, "disclaimer") \in accepted \cup {""}
    <3>1. CASE d = "disclaimer"
      <4>1. ~(\E r \in f["disclaimer"] : r.length = "full" /\ Validate("disclaimer", r))
        BY <2>2, <2>3, <3>1
      <4> QED
        BY <1>3, <4>1
    <3>2. CASE d # "disclaimer"
      <4>1. f["disclaimer"] = flash["disclaimer"]
        BY <1>1, <2>2, <3>2
      <4> QED
        BY <1>3, <4>1
    <3> QED
      BY <3>1, <3>2
  <2>6. StartWith(f, store, version)
    BY <2>1 DEF f
  <2>7. /\ flash' = f
        /\ FlashGiven' /\ CopiesGiven' /\ ServerFollows' /\ AckAccepted' /\ DisclaimerSeen'
    BY <1>1, <2>1, <2>4, <2>5, <2>6, StartFacts
  <2>8. d # "api_region" => Load("api_region")' = Load("api_region")
    BY <1>1, <2>2, <2>7, LoadStays
  <2>9. PinnedStays'
    BY <2>1, <2>8 DEF PinnedStays
  <2> QED
    BY <2>7, <2>9
<1>6. CASE PanicOnReset
  <2>1. StartWith(flash, store, version) /\ UNCHANGED <<given, accepted, pinned, lost>>
    BY <1>6 DEF PanicOnReset, history
  <2>2. /\ flash' = flash
        /\ FlashGiven' /\ CopiesGiven' /\ ServerFollows' /\ AckAccepted' /\ DisclaimerSeen'
    BY <1>1, <1>2, <2>1, StartFacts
  <2>3. Load("api_region")' = Load("api_region")
    BY <2>2, LoadStays
  <2>4. PinnedStays'
    BY <2>1, <2>3 DEF PinnedStays
  <2> QED
    BY <2>2, <2>4
<1> QED
  BY <1>4, <1>5, <1>6

\* A save of another record than the server's and the acknowledgement's.
LEMMA SavesKeep ==
    ASSUME IInv,
           \/ PickFormat \/ (\E city \in Cities : PickCity(city))
           \/ (\E list \in Lists : EditSymbols(list)) \/ (\E p \in ProfileSets : SaveProfiles(p))
           \/ EditDisplay
    PROVE  IInv'
<1> USE DEF IInv
<1>1. PICK d, data, outcome :
          /\ d \in Domains \ {"api_region", "disclaimer"}
          /\ Save(d, data, outcome)
          /\ UNCHANGED <<version, screen, main, notice, server, accepted, pinned, lost>>
          /\ locale' = locale \/ (d = "locale" /\ locale' = data)
          /\ display' = display \/ (d = "display" /\ display' = data)
          /\ handler' = handler \/ (handler = Idle /\ handler' = [do |-> "follow zone"])
  <2>1. {"locale", "symbols", "wifi", "display"} \subseteq Domains \ {"api_region", "disclaimer"}
    BY SettingsAssumption
  <2>2. CASE PickFormat
    BY <2>1, <2>2 DEF PickFormat, Tap, tasks
  <2>3. CASE \E city \in Cities : PickCity(city)
    BY <2>1, <2>3 DEF PickCity, Tap, tasks
  <2>4. CASE \E list \in Lists : EditSymbols(list)
    BY <2>1, <2>4 DEF EditSymbols, Tap, tasks
  <2>5. CASE \E p \in ProfileSets : SaveProfiles(p)
    BY <2>1, <2>5 DEF SaveProfiles, tasks
  <2>6. CASE EditDisplay
    BY <2>1, <2>6 DEF EditDisplay, Tap, tasks
  <2> QED
    BY <2>2, <2>3, <2>4, <2>5, <2>6
<1>2. /\ FlashGiven' /\ data \in given'[d]
      /\ \A e \in Domains : given[e] \subseteq given'[e]
      /\ \A e \in Domains \ {d} : flash'[e] = flash[e]
  BY <1>1, SaveFacts
<1>3. CopiesGiven'
  BY <1>1, <1>2, CopiesStay
<1>4. Load("api_region")' = Load("api_region") /\ Load("disclaimer")' = Load("disclaimer")
  <2>1. {"api_region", "disclaimer"} \subseteq Domains
    BY SettingsAssumption
  <2>2. flash'["api_region"] = flash["api_region"] /\ flash'["disclaimer"] = flash["disclaimer"]
    BY <1>1, <1>2, <2>1
  <2> QED
    BY <2>2, LoadStays
<1>5. PinnedStays' /\ AckAccepted' /\ DisclaimerSeen'
  BY <1>1, <1>4 DEF PinnedStays, AckAccepted, DisclaimerSeen
<1>6. ServerFollows'
  <2>1. handler' = handler \/ handler.do # "tell"
    <3>1. handler = Idle => handler.do # "tell"
      BY DEF Idle
    <3> QED
      BY <1>1, <3>1, Zenon
  <2> QED
    BY <1>1, <1>4, <2>1 DEF ServerFollows
<1> QED
  BY <1>2, <1>3, <1>5, <1>6

\* The disclaimer is accepted, whether or not that can be written.
LEMMA AcceptKeeps ==
    ASSUME IInv, Accept
    PROVE  IInv'
<1> USE DEF IInv
<1>1. PICK outcome : Save("disclaimer", version, outcome)
  BY DEF Accept
<1>2. /\ accepted' = accepted \cup {version}
      /\ UNCHANGED <<version, locale, display, main, handler, notice, server, pinned, lost>>
  BY DEF Accept, tasks
<1>3. "disclaimer" \in Domains /\ "api_region" \in Domains
  BY SettingsAssumption
<1>4. /\ FlashGiven'
      /\ \A e \in Domains : given[e] \subseteq given'[e]
      /\ \A e \in Domains \ {"disclaimer"} : flash'[e] = flash[e]
      /\ flash'["disclaimer"] \in {flash["disclaimer"], {Seal("disclaimer", version)}}
  BY <1>1, <1>3, SaveFacts
<1>5. CopiesGiven'
  BY <1>2, <1>4, CopiesStay
<1>6. Load("api_region")' = Load("api_region")
  <2>1. flash'["api_region"] = flash["api_region"]
    BY <1>3, <1>4
  <2> QED
    BY <2>1, LoadStays
<1>7. Load("disclaimer")' \in {Load("disclaimer"), version}
  <2>1. CASE flash'["disclaimer"] = flash["disclaimer"]
    BY <2>1, LoadStays
  <2>2. CASE flash'["disclaimer"] = {Seal("disclaimer", version)}
    <3>1. InRange("disclaimer", version)
      BY DEF InRange
    <3>2. LoadFrom(flash', store', "disclaimer") = version
      BY <2>2, <3>1, LoadSealed
    <3> QED
      BY <3>2 DEF Load
  <2> QED
    BY <1>4, <2>1, <2>2
<1>8. AckAccepted'
  BY <1>2, <1>7 DEF AckAccepted
<1>9. PinnedStays' /\ DisclaimerSeen' /\ ServerFollows'
  BY <1>2, <1>6 DEF PinnedStays, DisclaimerSeen, ServerFollows
<1> QED
  BY <1>4, <1>5, <1>8, <1>9

\* What apply_region_change() does to the record and to the handler.
LEMMA ApplyRegionFacts ==
    ASSUME FlashGiven, NEW new, NEW next, InRange("api_region", new), ApplyRegion(new, next)
    PROVE  /\ FlashGiven'
           /\ \A e \in Domains : given[e] \subseteq given'[e]
           /\ Load("disclaimer")' = Load("disclaimer")
           /\ \/ /\ Load("api_region")' = Load("api_region") /\ Load("api_region") = new
                 /\ handler' = next /\ lost' = lost
              \/ handler'.do = "tell" /\ new.source = "manual" /\ lost'
              \/ handler'.do = "tell" /\ new.source = "manual" /\ Load("api_region")' = new
              \/ handler'.do = "tell" /\ new.source # "manual" /\ lost' = lost
<1>1. CASE Load("api_region") = new /\ handler' = next /\ UNCHANGED <<flash, given, lost>>
  <2>1. FlashGiven'
    BY <1>1 DEF FlashGiven
  <2>2. Load("api_region")' = Load("api_region") /\ Load("disclaimer")' = Load("disclaimer")
    BY <1>1, LoadStays
  <2> QED
    BY <1>1, <2>1, <2>2
<1>2. ASSUME NEW outcome, Save("api_region", new, outcome), handler'.do = "tell",
             lost' = IF new.source = "manual" THEN outcome = "refused" ELSE lost
      PROVE  /\ FlashGiven'
             /\ \A e \in Domains : given[e] \subseteq given'[e]
             /\ Load("disclaimer")' = Load("disclaimer")
             /\ \/ new.source = "manual" /\ lost'
                \/ new.source = "manual" /\ Load("api_region")' = new
                \/ new.source # "manual" /\ lost' = lost
  <2>1. "api_region" \in Domains /\ "disclaimer" \in Domains
    BY SettingsAssumption
  <2>2. /\ FlashGiven'
        /\ \A e \in Domains : given[e] \subseteq given'[e]
        /\ \A e \in Domains \ {"api_region"} : flash'[e] = flash[e]
        /\ outcome # "refused" => flash'["api_region"] = {Seal("api_region", new)}
    BY <1>2, <2>1, SaveFacts
  <2>3. Load("disclaimer")' = Load("disclaimer")
    <3>1. flash'["disclaimer"] = flash["disclaimer"]
      BY <2>1, <2>2
    <3> QED
      BY <3>1, LoadStays
  <2>4. outcome # "refused" => Load("api_region")' = new
    <3>1. outcome # "refused" => LoadFrom(flash', store', "api_region") = new
      BY <2>2, LoadSealed
    <3> QED
      BY <3>1 DEF Load
  <2> QED
    BY <1>2, <2>2, <2>3, <2>4
<1>3. CASE \E outcome \in Outcomes :
             /\ Save("api_region", new, outcome) /\ handler'.do = "tell"
             /\ lost' = IF new.source = "manual" THEN outcome = "refused" ELSE lost
  BY <1>2, <1>3
<1> QED
  BY <1>1, <1>3 DEF ApplyRegion, NothingToChange, AfterSave

\* A server is chosen, by hand or with the time zone.
LEMMA RegionsKeep ==
    ASSUME IInv, FollowZone \/ (\E choice \in {"auto", "intl", "us"} : PickRegion(choice))
    PROVE  IInv'
<1> USE DEF IInv
<1>1. \A r \in {"intl", "us"}, s \in {"auto", "manual"} :
          InRange("api_region", [region |-> r, source |-> s])
  BY DEF InRange
<1>2. RegionOf(locale.city) \in {"intl", "us"}
  BY DEF RegionOf
\* A change is told; without one the server is the one it was.
<1>3. ASSUME FlashGiven', Load("disclaimer")' = Load("disclaimer"),
             \A e \in Domains : given[e] \subseteq given'[e],
             UNCHANGED <<locale, display, screen, version, main, notice, server, accepted>>,
             handler.do # "tell",
             handler'.do = "tell" \/ Load("api_region")' = Load("api_region"),
             PinnedStays'
      PROVE  IInv'
  <2>1. CopiesGiven'
    BY <1>3, CopiesStay
  <2>2. AckAccepted' /\ DisclaimerSeen'
    BY <1>3 DEF AckAccepted, DisclaimerSeen
  <2>3. ServerFollows'
    BY <1>3 DEF ServerFollows
  <2> QED
    BY <1>3, <2>1, <2>2, <2>3
<1>4. CASE FollowZone
  <2>1. /\ UNCHANGED <<locale, display, screen, version, main, notice, server, accepted, pinned>>
        /\ handler.do # "tell"
    BY <1>4 DEF FollowZone, tasks
  <2>2. CASE Load("api_region").source = "auto"
    <3> DEFINE new == [region |-> RegionOf(locale.city), source |-> "auto"]
    <3>1. ApplyRegion(new, [do |-> "zone"])
      BY <1>4, <2>2 DEF FollowZone
    <3>2. InRange("api_region", new) /\ new.source # "manual"
      BY <1>1, <1>2
    <3> HIDE DEF new
    <3>3. /\ FlashGiven' /\ Load("disclaimer")' = Load("disclaimer")
          /\ \A e \in Domains : given[e] \subseteq given'[e]
          /\ handler'.do = "tell" \/ Load("api_region")' = Load("api_region")
          /\ lost' = lost
      BY <3>1, <3>2, ApplyRegionFacts DEF FlashGiven
    <3>4. PinnedStays'
      BY <2>1, <2>2, <3>3 DEF PinnedStays
    <3> QED
      BY <1>3, <2>1, <3>3, <3>4
  <2>3. CASE Load("api_region").source # "auto"
    <3>1. UNCHANGED <<flash, given, lost>>
      BY <1>4, <2>3 DEF FollowZone
    <3>2. FlashGiven'
      BY <3>1 DEF FlashGiven
    <3>3. Load("api_region")' = Load("api_region") /\ Load("disclaimer")' = Load("disclaimer")
      BY <3>1, LoadStays
    <3>4. PinnedStays'
      BY <2>1, <3>1, <3>3 DEF PinnedStays
    <3> QED
      BY <1>3, <2>1, <3>1, <3>2, <3>3, <3>4
  <2> QED
    BY <2>2, <2>3
<1>5. ASSUME NEW choice \in {"auto", "intl", "us"}, PickRegion(choice)
      PROVE  IInv'
  <2> DEFINE new == IF choice = "auto" THEN [region |-> RegionOf(locale.city), source |-> "auto"]
                    ELSE [region |-> choice, source |-> "manual"]
  <2>1. /\ UNCHANGED <<locale, display, screen, version, main, notice, server, accepted>>
        /\ handler = Idle /\ ApplyRegion(new, Idle)
        /\ pinned' = IF choice = "auto" THEN "none" ELSE choice
    BY <1>5 DEF PickRegion, Tap, tasks
  <2>2. /\ InRange("api_region", new)
        /\ choice = "auto" => new.source # "manual"
        /\ choice # "auto" => new = [region |-> choice, source |-> "manual"]
                              /\ new.source = "manual"
    BY <1>1, <1>2
  <2> HIDE DEF new
  <2>3. /\ FlashGiven'
        /\ \A e \in Domains : given[e] \subseteq given'[e]
        /\ Load("disclaimer")' = Load("disclaimer")
        /\ \/ /\ Load("api_region")' = Load("api_region") /\ Load("api_region") = new
           \/ handler'.do = "tell" /\ new.source = "manual" /\ lost'
           \/ handler'.do = "tell" /\ new.source = "manual" /\ Load("api_region")' = new
           \/ handler'.do = "tell" /\ new.source # "manual"
    BY <2>1, <2>2, ApplyRegionFacts
  <2>4. PinnedStays'
    <3>1. CASE choice = "auto"
      BY <2>1, <3>1 DEF PinnedStays
    <3>2. CASE choice # "auto"
      BY <2>1, <2>2, <2>3, <3>2 DEF PinnedStays
    <3> QED
      BY <3>1, <3>2
  <2>5. handler.do # "tell"
    BY <2>1 DEF Idle
  <2> QED
    BY <1>3, <2>1, <2>3, <2>4, <2>5
<1> QED
  BY <1>4, <1>5

\* Steps that write nothing.
LEMMA OthersKeep ==
    ASSUME IInv,
           \/ ReadZone \/ SetZone \/ AppStateUp \/ TellTasks \/ ApplyZone \/ Reconnect
           \/ UpdateTimer \/ UNCHANGED vars
    PROVE  IInv'
<1> USE DEF IInv
<1>1. UNCHANGED <<flash, locale, display, screen, version, given, accepted, pinned, lost>>
  BY DEF ReadZone, SetZone, AppStateUp, TellTasks, ApplyZone, Reconnect, UpdateTimer, vars,
         history
<1>2. FlashGiven' /\ CopiesGiven'
  BY <1>1 DEF FlashGiven, CopiesGiven
<1>3. Load("api_region")' = Load("api_region") /\ Load("disclaimer")' = Load("disclaimer")
  BY <1>1, LoadStays
<1>4. PinnedStays' /\ AckAccepted' /\ DisclaimerSeen'
  BY <1>1, <1>3 DEF PinnedStays, AckAccepted, DisclaimerSeen
<1>5. ServerFollows'
  <2>1. CASE ReadZone \/ SetZone
    BY <2>1 DEF ReadZone, SetZone, ServerFollows
  <2>2. CASE AppStateUp \/ Reconnect
    BY <1>3, <2>2 DEF AppStateUp, Reconnect, ServerFollows
  <2>3. CASE TellTasks
    BY <2>3 DEF TellTasks, ServerFollows
  <2>4. CASE ApplyZone
    BY <1>3, <2>4 DEF ApplyZone, ServerFollows, tasks
  <2>5. CASE UpdateTimer \/ UNCHANGED vars
    BY <1>3, <2>5 DEF UpdateTimer, vars, ServerFollows, tasks
  <2> QED
    BY <2>1, <2>2, <2>3, <2>4, <2>5
<1> QED
  BY <1>2, <1>4, <1>5

LEMMA NextIInv == IInv /\ [Next]_vars => IInv'
<1> SUFFICES ASSUME IInv, [Next]_vars
             PROVE  IInv'
  OBVIOUS
<1> QED
  BY StartsKeep, SavesKeep, AcceptKeeps, RegionsKeep, OthersKeep DEF Next

-----------------------------------------------------------------------------
(* The display record: every one that a load can return, and the copy in    *)
(* memory, has its night window inside the day.                             *)

WindowInDay(d) == d \in DisplaySettings /\ d.start \in 0 .. Day - 1 /\ d.end \in 0 .. Day - 1

DisplayRecordsOK(f) ==
    \A r \in f["display"] : r.length = "full" /\ Validate("display", r) => WindowInDay(r.data)

DisplayOK == WindowInDay(display) /\ DisplayRecordsOK(flash)

LEMMA DefaultWindow == WindowInDay(Default["display"])
BY DisplayAssumption DEF WindowInDay, InRange

LEMMA LoadedWindow ==
    ASSUME NEW f, NEW b, OneRecord(f), DisplayRecordsOK(f)
    PROVE  WindowInDay(LoadFrom(f, b, "display"))
<1>1. CASE \E r \in f["display"] : r.length = "full" /\ Validate("display", r)
  <2>1. PICK r \in f["display"] : r.length = "full" /\ Validate("display", r)
    BY <1>1
  <2>2. (CHOOSE q \in f["display"] : TRUE) = r
    BY <2>1, SettingsAssumption DEF OneRecord
  <2>3. LoadFrom(f, b, "display") = r.data
    BY <2>1, <2>2 DEF LoadFrom
  <2>4. WindowInDay(r.data)
    BY <2>1 DEF DisplayRecordsOK
  <2> QED
    BY <2>3, <2>4
<1>2. CASE ~(\E r \in f["display"] : r.length = "full" /\ Validate("display", r))
  <2>1. LoadFrom(f, b, "display") = Default["display"]
    BY <1>2 DEF LoadFrom
  <2> QED
    BY <2>1, DefaultWindow
<1> QED
  BY <1>1, <1>2

\* A step that leaves the record and the copy alone.
LEMMA DisplayStays ==
    ASSUME DisplayOK, display' = display, flash'["display"] = flash["display"]
    PROVE  DisplayOK'
BY DEF DisplayOK, DisplayRecordsOK

\* A start reads what `f` holds.
LEMMA DisplayStarts ==
    ASSUME NEW f, NEW b, NEW v, StartWith(f, b, v), OneRecord(f), DisplayRecordsOK(f)
    PROVE  DisplayOK'
<1>1. flash' = f /\ display' = LoadFrom(f, FALSE, "display")
  BY DEF StartWith, DisplayUp
<1>2. WindowInDay(LoadFrom(f, FALSE, "display"))
  BY LoadedWindow
<1> QED
  BY <1>1, <1>2 DEF DisplayOK

LEMMA InitDisplay == Init => DisplayOK
<1> SUFFICES ASSUME Init
             PROVE  DisplayOK
  OBVIOUS
<1>1. flash \in Found /\ display = LoadFrom(flash, TRUE, "display")
  BY DEF Init
<1>2. OneRecord(flash)
  BY <1>1, SettingsAssumption DEF OneRecord
<1>3. DisplayRecordsOK(flash)
  <2> SUFFICES ASSUME NEW r \in flash["display"], Validate("display", r)
               PROVE  WindowInDay(r.data)
    BY DEF DisplayRecordsOK
  <2>1. r.data \in DisplaySettings
    BY <1>1, DisplayAssumption
  <2> QED
    BY <2>1 DEF WindowInDay, Validate, InRange
<1>4. WindowInDay(LoadFrom(flash, TRUE, "display"))
  BY <1>2, <1>3, LoadedWindow
<1> QED
  BY <1>1, <1>3, <1>4 DEF DisplayOK

\* What a handler makes of the record keeps the window inside the day.
LEMMA EditDisplayKeeps ==
    ASSUME FlashGiven, DisplayOK, EditDisplay
    PROVE  DisplayOK'
<1>1. WindowInDay(display)
  BY DEF DisplayOK
<1>2. WindowInDay(display')
  <2>1. CASE \E level \in Levels : display' = [display EXCEPT !.level = level]
    BY <1>1, <2>1, DisplayAssumption DEF WindowInDay, DisplaySettings
  <2>2. CASE display' = [display EXCEPT !.night = ~@]
    BY <1>1, <2>2 DEF WindowInDay, DisplaySettings
  <2>3. CASE \E m \in 0 .. Day - 1 : display' = [display EXCEPT !.start = m]
    BY <1>1, <2>3 DEF WindowInDay, DisplaySettings
  <2>4. CASE \E m \in 0 .. Day - 1 : display' = [display EXCEPT !.end = m]
    BY <1>1, <2>4 DEF WindowInDay, DisplaySettings
  <2> QED
    BY <2>1, <2>2, <2>3, <2>4 DEF EditDisplay
<1>3. flash'["display"] = flash["display"] \/ flash'["display"] = {Seal("display", display')}
  <2>1. PICK outcome : Save("display", display', outcome)
    BY DEF EditDisplay
  <2>2. "display" \in Domains
    BY SettingsAssumption
  <2>3. flash'["display"] \in {flash["display"], {Seal("display", display')}}
    BY <2>1, <2>2, SaveFacts
  <2> QED
    BY <2>3
<1>4. Seal("display", display').data = display'
  BY DEF Seal
<1> QED
  BY <1>2, <1>3, <1>4 DEF DisplayOK, DisplayRecordsOK

LEMMA NextDisplay == IInv /\ DisplayOK /\ [Next]_vars => DisplayOK'
<1> SUFFICES ASSUME IInv, DisplayOK, [Next]_vars
             PROVE  DisplayOK'
  OBVIOUS
<1>1. FlashGiven /\ OneRecord(flash) /\ DisplayRecordsOK(flash)
  BY DEF IInv, FlashGiven, DisplayOK
<1>2. "display" \in Domains
  BY SettingsAssumption
<1>3. CASE Start
  <2>1. PICK v \in Versions, part \in Erasable, available \in BOOLEAN :
            StartWith(Erased(flash, part), available, v)
    BY <1>3 DEF Start
  <2> DEFINE f == Erased(flash, part)
  <2>2. f = [d \in Domains |-> f[d]] /\ \A d \in Domains : f[d] \in {{}, flash[d]}
    BY <1>1 DEF Erased, OneRecord
  <2>3. StartWith(f, available, v)
    BY <2>1
  <2> HIDE DEF f
  <2>4. OneRecord(f) /\ DisplayRecordsOK(f)
    BY <1>1, <1>2, <2>2 DEF OneRecord, DisplayRecordsOK
  <2> QED
    BY <2>3, <2>4, DisplayStarts
<1>4. ASSUME NEW d \in Domains, Damage(d)
      PROVE  DisplayOK'
  <2>1. PICK broken : /\ broken.length # "full" \/ broken.sum # "match"
                      /\ StartWith([flash EXCEPT ![d] = {broken}], store, version)
    BY <1>4 DEF Damage
  <2> DEFINE f == [flash EXCEPT ![d] = {broken}]
  <2>2. f = [e \in Domains |-> f[e]] /\ f[d] = {broken} /\ \A e \in Domains \ {d} : f[e] = flash[e]
    BY <1>1 DEF OneRecord
  <2>3. StartWith(f, store, version)
    BY <2>1
  <2> HIDE DEF f
  <2>4. ~(broken.length = "full" /\ Validate("display", broken))
    BY <2>1 DEF Validate
  <2>5. OneRecord(f) /\ DisplayRecordsOK(f)
    BY <1>1, <1>2, <2>2, <2>4 DEF OneRecord, DisplayRecordsOK
  <2> QED
    BY <2>3, <2>5, DisplayStarts
<1>5. CASE PanicOnReset
  BY <1>1, <1>5, DisplayStarts DEF PanicOnReset
<1>6. CASE EditDisplay
  BY <1>1, <1>6, EditDisplayKeeps
\* The other handlers that save, save another record.
<1>7. ASSUME NEW d \in Domains \ {"display"}, NEW data, NEW outcome, Save(d, data, outcome),
             display' = display
      PROVE  DisplayOK'
  <2>1. flash'["display"] = flash["display"]
    BY <1>1, <1>2, <1>7, SaveFacts
  <2> QED
    BY <1>7, <2>1, DisplayStays
<1>8. {"locale", "symbols", "wifi", "disclaimer", "api_region"} \subseteq Domains \ {"display"}
  BY SettingsAssumption
<1>9. ASSUME NEW new, NEW next, ApplyRegion(new, next), display' = display
      PROVE  DisplayOK'
  <2>1. CASE UNCHANGED flash
    BY <1>9, <2>1, DisplayStays
  <2>2. CASE \E outcome \in Outcomes : Save("api_region", new, outcome)
    BY <1>7, <1>8, <1>9, <2>2
  <2> QED
    BY <1>9, <2>1, <2>2 DEF ApplyRegion
<1>10. CASE Accept \/ PickFormat
  BY <1>7, <1>8, <1>10 DEF Accept, PickFormat
<1>11. CASE \E city \in Cities : PickCity(city)
  BY <1>7, <1>8, <1>11 DEF PickCity
<1>12. CASE \E list \in Lists : EditSymbols(list)
  BY <1>7, <1>8, <1>12 DEF EditSymbols
<1>13. CASE \E p \in ProfileSets : SaveProfiles(p)
  BY <1>7, <1>8, <1>13 DEF SaveProfiles
<1>14. CASE FollowZone
  <2>1. CASE UNCHANGED flash
    BY <1>14, <2>1, DisplayStays DEF FollowZone
  <2> QED
    BY <1>9, <1>14, <2>1 DEF FollowZone
<1>15. CASE \E choice \in {"auto", "intl", "us"} : PickRegion(choice)
  BY <1>9, <1>15 DEF PickRegion
<1>16. CASE \/ ReadZone \/ SetZone \/ AppStateUp \/ TellTasks \/ ApplyZone \/ Reconnect
            \/ UpdateTimer \/ UNCHANGED vars
  <2>1. UNCHANGED <<flash, display>>
    BY <1>16 DEF ReadZone, SetZone, AppStateUp, TellTasks, ApplyZone, Reconnect, UpdateTimer, vars
  <2> QED
    BY <2>1, DisplayStays
<1> QED
  BY <1>3, <1>4, <1>5, <1>6, <1>10, <1>11, <1>12, <1>13, <1>14, <1>15, <1>16 DEF Next

-----------------------------------------------------------------------------
(* The night window: walking the clock and comparing minutes agree.          *)

\* The clock after `k` minutes.
LEMMA ClockAfter ==
    ASSUME NEW s \in 0 .. Day - 1, NEW k \in 0 .. Day - 1
    PROVE  (s + k) % Day = IF s + k < Day THEN s + k ELSE s + k - Day
<1>0. Day \in Nat \ {0}
  BY SettingsAssumption
<1>1. Day \in Nat \ {0} /\ s \in Nat /\ k \in Nat /\ s < Day /\ k < Day
  BY <1>0
<1>2. CASE s + k < Day
  <2>1. (s + k) % Day = s + k
    BY <1>1, <1>2
  <2> QED
    BY <1>2, <2>1
<1>3. CASE ~(s + k < Day)
  <2>1. (s + k) % Day = s + k - Day
    BY <1>1, <1>3
  <2> QED
    BY <1>3, <2>1
<1> QED
  BY <1>2, <1>3

LEMMA WindowIsCovered ==
    ASSUME NEW m \in 0 .. Day - 1, NEW s \in 0 .. Day - 1, NEW e \in 0 .. Day - 1
    PROVE  MinuteInWindow(m, s, e) <=> NightCovers(m, s, e)
<1> DEFINE clock(k) == IF s + k < Day THEN s + k ELSE s + k - Day
<1>0. Day \in Nat \ {0}
  BY SettingsAssumption
<1>1. /\ Day \in Nat \ {0} /\ m \in Nat /\ s \in Nat /\ e \in Nat
      /\ m < Day /\ s < Day /\ e < Day
  BY <1>0
<1>2. \A k \in 0 .. Day - 1 : (s + k) % Day = clock(k)
  BY ClockAfter
<1>3. NightCovers(m, s, e) <=>
          \E k \in 0 .. Day - 1 : clock(k) = m /\ \A j \in 0 .. k : clock(j) # e
  <2>1. \A k \in 0 .. Day - 1 : \A j \in 0 .. k : j \in 0 .. Day - 1
    BY <1>1
  <2> HIDE DEF clock
  <2> QED
    BY <1>2, <2>1 DEF NightCovers
<1>4. ASSUME MinuteInWindow(m, s, e)
      PROVE  \E k \in 0 .. Day - 1 : clock(k) = m /\ \A j \in 0 .. k : clock(j) # e
  <2> DEFINE k == IF s =< m THEN m - s ELSE m - s + Day
  <2>1. k \in 0 .. Day - 1 /\ clock(k) = m
    BY <1>1
  <2>2. \A j \in 0 .. k : clock(j) # e
    BY <1>1, <1>4 DEF MinuteInWindow
  <2> QED
    BY <2>1, <2>2
<1>5. ASSUME NEW k \in 0 .. Day - 1, clock(k) = m, \A j \in 0 .. k : clock(j) # e
      PROVE  MinuteInWindow(m, s, e)
  <2> DEFINE j == IF s =< e THEN e - s ELSE e - s + Day
  <2>1. j \in Nat /\ clock(j) = e
    BY <1>1
  <2>2. j > k
    <3>1. j =< k => j \in 0 .. k
      BY <1>1
    <3>2. ~(j \in 0 .. k)
      <4> HIDE DEF j, clock
      <4> QED
        BY <1>5, <2>1
    <3> QED
      BY <1>1, <3>1, <3>2
  <2> QED
    BY <1>1, <1>5, <2>2 DEF MinuteInWindow
<1> QED
  BY <1>3, <1>4, <1>5

-----------------------------------------------------------------------------
(* The theorems.                                                           *)

LEMMA SpecIInv == Spec => []IInv
<1> QED
  BY InitIInv, NextIInv, PTL DEF Spec

\* What settings_store and wifi_profile_store load is the default or a record
\* that was saved, whatever becomes of flash between two starts.
THEOREM LoadsAlwaysSaved == Spec => []LoadedWasSaved
<1>1. IInv => LoadedWasSaved
  <2> SUFFICES ASSUME IInv
               PROVE  \A d \in Domains : Load(d) \in {Default[d]} \cup given[d]
    BY DEF IInv, CopiesGiven, LoadedWasSaved
  <2> QED
    BY LoadGiven DEF IInv, FlashGiven, Load
<1> QED
  BY <1>1, SpecIInv, PTL

\* A server chosen by hand stays chosen: region_row_click_cb() and the time
\* zones never overwrite each other's choice.
THEOREM PinnedAlwaysStays == Spec => []PinnedStays
<1>1. IInv => PinnedStays
  BY DEF IInv
<1> QED
  BY <1>1, SpecIInv, PTL

\* The WebSocket task ends up at the server that is stored, failed writes and
\* starts in the middle of a handler included.
THEOREM StreamsAlwaysFromChosenServer == Spec => []StreamsFromChosenServer
<1>1. IInv => StreamsFromChosenServer
  BY DEF IInv, ServerFollows, StreamsFromChosenServer, Idle
<1> QED
  BY <1>1, SpecIInv, PTL

\* No version of the firmware shows its dashboard before its disclaimer was
\* accepted.
THEOREM DisclaimerAlwaysSeen == Spec => []DisclaimerSeen
<1>1. IInv => DisclaimerSeen
  BY DEF IInv
<1> QED
  BY <1>1, SpecIInv, PTL

\* Under every display record a handler can make or a start can read, the
\* comparisons of display_ui_logic_minute_in_window() cover exactly the minutes
\* the clock passes from the start of the window to its end.
THEOREM NightIsAlwaysDark == Spec => []NightIsDark
<1>1. DisplayOK => NightIsDark
  <2> SUFFICES ASSUME DisplayOK, NEW minute \in 0 .. Day - 1, NEW synced \in BOOLEAN
               PROVE  Target(display, minute, synced) =
                          IF display.night /\ synced /\ NightCovers(minute, display.start, display.end)
                          THEN NightLevel ELSE display.level
    BY DEF NightIsDark
  <2>1. MinuteInWindow(minute, display.start, display.end)
            <=> NightCovers(minute, display.start, display.end)
    BY WindowIsCovered DEF DisplayOK, WindowInDay
  <2> QED
    BY <2>1 DEF Target
<1>2. Spec => []DisplayOK
  BY InitDisplay, NextDisplay, SpecIInv, PTL DEF Spec
<1> QED
  BY <1>1, <1>2, PTL

=============================================================================
