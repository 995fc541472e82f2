---------------------------- MODULE SettingsMC ----------------------------
(***************************************************************************)
(* A small terminal: a time zone in the United States and one elsewhere,   *)
(* two firmware versions, a day of three minutes.                           *)
(***************************************************************************)
EXTENDS Settings

MCDomains == {"display", "symbols", "locale", "api_region", "disclaimer", "wifi"}

MCDefault ==
    [display |-> [level |-> 80, night |-> FALSE, start |-> 2, end |-> 1],
     symbols |-> "empty list", locale |-> [city |-> "none", h24 |-> TRUE],
     api_region |-> [region |-> "intl", source |-> "auto"], disclaimer |-> "", wifi |-> "no profiles"]

MCLayout == [display |-> 2, symbols |-> 2, locale |-> 3, api_region |-> 2, disclaimer |-> 1, wifi |-> 1]

MCJunk ==
    [display |-> [level |-> 100, night |-> TRUE, start |-> 0, end |-> 2],
     symbols |-> "junk", locale |-> [city |-> "junk", h24 |-> FALSE],
     api_region |-> [region |-> "us", source |-> "manual"], disclaimer |-> "junk", wifi |-> "junk"]

\* Flash is blank, or holds the records of a release that sealed the region and
\* the locale in an older layout.
MCFound ==
    {[d \in MCDomains |-> {}],
     [d \in MCDomains |->
        IF d \in {"locale", "api_region"}
        THEN {[length |-> "full", layout |-> MCLayout[d] - 1, sum |-> "match", data |-> MCJunk[d]]}
        ELSE {[length |-> "full", layout |-> MCLayout[d], sum |-> "match", data |-> MCDefault[d]]}]}
=============================================================================
