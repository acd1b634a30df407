------------------------------ MODULE Marketing ------------------------------
(***************************************************************************)
(* The marketing record and the logo of a cw20-base token.  They are two   *)
(* entries of the storage: the record says what kind of logo there is, and *)
(* the logo itself is stored apart.                                        *)
(***************************************************************************)
EXTENDS Integers

CONSTANTS
  Marketers,      \* addresses that call
  Texts,          \* project names and descriptions
  Blank,          \* a text of spaces, or none
  NotGiven,       \* an Option without a value
  NoInfo, NoLogo, \* nothing stored
  LogoSizes,      \* sizes of the logos of the calls
  LogoSizeCap     \* LOGO_SIZE_CAP

(* A logo is an address of one or holds one, whose first bytes are those of *)
(* its kind or not.                                                         *)
Logo == [kind : {"url", "svg", "png"}, proper : BOOLEAN, size : LogoSizes]
MarketingInfo ==
  [project : Texts \cup {Blank, NotGiven}, description : Texts \cup {Blank, NotGiven},
   marketing : Marketers \cup {NotGiven}, logo : {"url", "embedded", NotGiven}]

ASSUME MarketingAssumption ==
  /\ {Blank, NotGiven} \cap (Texts \cup Marketers) = {}
  /\ Blank # NotGiven /\ NotGiven \notin {"url", "embedded"}
  /\ NoInfo \notin MarketingInfo /\ NoLogo \notin Logo
  /\ LogoSizes \subseteq Nat /\ LogoSizeCap \in Nat

VARIABLES
  info,   \* MARKETING_INFO
  logo    \* LOGO

marketingVars == <<info, logo>>

MarketingTypeOK == info \in MarketingInfo \cup {NoInfo} /\ logo \in Logo \cup {NoLogo}

VerifyXmlLogo(l) == l.proper /\ l.size <= LogoSizeCap
VerifyPngLogo(l) == l.size <= LogoSizeCap /\ l.proper
VerifyLogo(l) ==
  /\ l.kind = "svg" => VerifyXmlLogo(l)
  /\ l.kind = "png" => VerifyPngLogo(l)

LogoInfo(l) == IF l = NoLogo THEN NotGiven ELSE IF l.kind = "url" THEN "url" ELSE "embedded"

(* A token may start without a record, and with one that says nothing.      *)
MarketingInit ==
  \/ info = NoInfo /\ logo = NoLogo
  \/ /\ logo \in {NoLogo} \cup {l \in Logo : VerifyLogo(l)}
     /\ info \in {i \in MarketingInfo : i.logo = LogoInfo(logo)}

MayMarket(sender) == info # NoInfo /\ info.marketing # NotGiven /\ info.marketing = sender

Updated(old, given) == IF given = NotGiven THEN old ELSE IF given = Blank THEN NotGiven ELSE given

(* Mutant: the logo does not keep the record. *)
SaysNothingInText(i) ==
  i.project = NotGiven /\ i.description = NotGiven /\ i.marketing = NotGiven

SaysNothing(i) ==
  i.project = NotGiven /\ i.description = NotGiven /\ i.marketing = NotGiven /\ i.logo = NotGiven

ExecuteUpdateMarketing(sender, project, description, marketing) ==
  LET new == [info EXCEPT !.project = Updated(@, project),
                          !.description = Updated(@, description),
                          !.marketing = Updated(@, marketing)]
  IN  /\ MayMarket(sender)
      /\ info' = IF SaysNothing(new) THEN NoInfo ELSE new
      /\ UNCHANGED logo

ExecuteUploadLogo(sender, new) ==
  /\ VerifyLogo(new)
  /\ MayMarket(sender)
  /\ logo' = new
  /\ info' = [info EXCEPT !.logo = LogoInfo(new)]

MarketingNext ==
  \E sender \in Marketers :
    \/ \E p, d \in Texts \cup {Blank, NotGiven}, m \in Marketers \cup {Blank, NotGiven} :
         ExecuteUpdateMarketing(sender, p, d, m)
    \/ \E new \in Logo : ExecuteUploadLogo(sender, new)

MarketingSpec == MarketingInit /\ [][MarketingNext]_marketingVars

(* query_marketing_info gives a record that says nothing where there is     *)
(* none; query_download_logo fails for an address.                          *)
QueryMarketingInfo ==
  IF info = NoInfo
  THEN [project |-> NotGiven, description |-> NotGiven, marketing |-> NotGiven, logo |-> NotGiven]
  ELSE info
Downloadable == logo # NoLogo /\ logo.kind # "url"

-----------------------------------------------------------------------------

(* The two entries agree whatever was updated, removed and uploaded: the    *)
(* record names the kind of the logo that is stored, so that what it calls  *)
(* embedded can be downloaded and has passed the checks, and no record is   *)
(* removed while a logo is left.                                            *)
InfoMatchesLogo ==
  /\ QueryMarketingInfo.logo = LogoInfo(logo)
  /\ Downloadable <=> QueryMarketingInfo.logo = "embedded"
  /\ Downloadable => logo.proper /\ logo.size <= LogoSizeCap
=============================================================================
