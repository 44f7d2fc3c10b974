----------------------------- MODULE Templates -----------------------------
(***************************************************************************)
(* The attestation templates of an issuer (lib.rs, storage.rs): a table of *)
(* defaults and a list of its names, which two pairs of functions write,   *)
(* create_template with set_attestation_template and save_template with    *)
(* set_template, and delete_template takes apart; attestations are created *)
(* from them by the same path as without them.                             *)
(*                                                                         *)
(* A template here has the fields that decide what is issued: the claim    *)
(* type and the default lifetime, which save_template does not set.        *)
(***************************************************************************)
EXTENDS Attestations, Lists, SequencesExt

CONSTANTS
    Names,        \* names, or template ids
    Lifetimes     \* default lifetimes given to create_template, or None

ASSUME LifetimeAssumption == Lifetimes \subseteq OptionTime

Template == [claimType: ClaimTypes, lifetime: OptionTime]

\* A template that is found is told from one that is not.
ASSUME TemplateAssumption == None \notin Template

VARIABLES
    templates,        \* StorageKey::AttestationTemplate: <<issuer, name>> -> template
    templateList,     \* StorageKey::AttestationTemplateList: issuer -> names
    templateFlag      \* StorageKey::RequireRegisteredClaimType

templateVars == <<templates, templateList, templateFlag>>
allTemplateVars == <<vars, templateVars>>

-----------------------------------------------------------------------------
(* Storage *)

has_template(issuer, name) == <<issuer, name>> \in DOMAIN templates

Listed(issuer, name) == \E k \in DOMAIN templateList[issuer] : templateList[issuer][k] = name

PutTemplate(issuer, name, template) ==
    templates' = [k \in DOMAIN templates \cup {<<issuer, name>>} |->
                     IF k = <<issuer, name>> THEN template ELSE templates[k]]

PushName(issuer, name) ==
    templateList' = [templateList EXCEPT ![issuer] = Append(@, name)]

\* The list is extended when the table has no entry yet ...
set_template(issuer, name, template) ==
    /\ PutTemplate(issuer, name, template)
    /\ IF has_template(issuer, name) THEN UNCHANGED templateList ELSE PushName(issuer, name)

\* Slip: a template that is written again moves to the end of the list.
set_attestation_template_ToEnd(issuer, name, template) ==
    /\ PutTemplate(issuer, name, template)
    /\ templateList' = [templateList EXCEPT ![issuer] =
                           Append(Filter(@, ToSet(@) \ {name}), name)]

\* ... or when the list has not.
set_attestation_template(issuer, name, template) ==
    /\ PutTemplate(issuer, name, template)
    /\ IF Listed(issuer, name) THEN UNCHANGED templateList ELSE PushName(issuer, name)

remove_template(issuer, name) ==
    /\ templates' = [k \in DOMAIN templates \ {<<issuer, name>>} |-> templates[k]]
    /\ templateList' = [templateList EXCEPT ![issuer] = Filter(@, ToSet(@) \ {name})]

-----------------------------------------------------------------------------
(* Entry points *)

get_template(issuer, name) ==
    IF has_template(issuer, name) THEN templates[<<issuer, name>>] ELSE None

list_templates(issuer) == templateList[issuer]

\* The flag is not the one that create_attestation looks at.
set_template_flag(required) ==
    /\ templateFlag' = required
    /\ UNCHANGED <<vars, templates, templateList>>

create_template(issuer, name, claimType, lifetime) ==
    /\ require_issuer(issuer)
    /\ templateFlag => claimType \in claimRegistry
    /\ set_attestation_template(issuer, name, [claimType |-> claimType, lifetime |-> lifetime])
    /\ UNCHANGED <<vars, templateFlag>>

\* The claim type need not be registered, whatever the flag says.
save_template(issuer, name, claimType) ==
    /\ require_issuer(issuer)
    /\ set_template(issuer, name, [claimType |-> claimType, lifetime |-> None])
    /\ UNCHANGED <<vars, templateFlag>>

\* An issuer that was removed may still delete its templates.
delete_template(issuer, name) ==
    /\ has_template(issuer, name)
    /\ remove_template(issuer, name)
    /\ UNCHANGED <<vars, templateFlag>>

\* An override wins over the default of the template.
ResolvedExpiration(template, override) ==
    CASE override # None -> override
      [] override = None /\ template.lifetime # None -> now + template.lifetime
      [] OTHER -> None

\* Slip: the template is taken for approved, and its attestation just stored.
create_attestation_from_template_Trusting(issuer, name, subject, override) ==
    LET template == templates[<<issuer, name>>]
    IN  /\ require_issuer(issuer)
        /\ require_not_paused
        /\ has_template(issuer, name)
        /\ validate_native_expiration(override)
        /\ Create(generate_id(issuer, subject, template.claimType, now),
                  NewAttestation(issuer, subject, template.claimType, now,
                                 ResolvedExpiration(template, override), None, "Native"),
                  issuer)
        /\ UNCHANGED <<policyVars, templateVars>>

create_attestation_from_template(issuer, name, subject, override) ==
    LET template == templates[<<issuer, name>>]
    IN  /\ require_issuer(issuer)
        /\ has_template(issuer, name)
        /\ validate_native_expiration(override)
        /\ create_attestation_internal(issuer, subject, template.claimType,
                                       ResolvedExpiration(template, override), None)
        /\ UNCHANGED templateVars

-----------------------------------------------------------------------------
(* Specification *)

FromTemplate ==
    \E i \in Issuers, n \in Names, s \in Subjects, e \in Expirations :
       create_attestation_from_template(i, n, s, e)

TemplateNext ==
    \/ Admins # {} /\ \E b \in RegistryFlags : set_template_flag(b)
    \/ \E i \in Issuers, n \in Names, c \in ClaimTypes :
          \/ \E l \in Lifetimes : create_template(i, n, c, l)
          \/ save_template(i, n, c)
    \/ \E i \in Issuers, n \in Names : delete_template(i, n)
    \/ FromTemplate

\* The settings that decide what may be issued from a template.
SettingsNext ==
    /\ \/ RegistryNext /\ UNCHANGED <<ledgerVars, policyVars, endorsements>>
       \/ PolicyNext /\ UNCHANGED <<ledgerVars, registryVars, endorsements>>
       \/ CloseLedger
    /\ UNCHANGED templateVars

TemplatesInit ==
    /\ Init
    /\ templates = [k \in {} |-> None]
    /\ templateList = [i \in Issuers |-> <<>>]
    /\ templateFlag = FALSE

TemplatesSpec == TemplatesInit /\ [][TemplateNext \/ SettingsNext]_allTemplateVars

-----------------------------------------------------------------------------
(* Properties *)

\* list_templates names exactly the templates that get_template finds, each
\* once, although two functions decide in different ways whether a name is
\* new and templates are overwritten and deleted through either.
TemplateListExact ==
    \A i \in Issuers :
       LET names == list_templates(i)
       IN  /\ \A n \in Names :
                 (\E k \in DOMAIN names : names[k] = n) <=> get_template(i, n) # None
           /\ \A j, k \in DOMAIN names : names[j] = names[k] => j = k

TemplateLists == INSTANCE IdList WITH Keys <- Issuers, lists <- templateList

\* The names stay in the order in which the templates were first created ("IDs
\* are in insertion order (first-created first)", list_templates in lib.rs),
\* however often a template is written again, and are those of the templates
\* there are.
ImplementsTemplateLists == TemplateLists!Spec /\ []TemplateListExact

\* A template is no way around the rules: what is issued from one obeys the
\* claim type registry, the whitelist and the clock as they
\* are when it is issued, even if the template was saved before the rules were
\* set, and nothing is issued from it once its issuer is removed.
TemplatesGiveNoExemption ==
    [][FromTemplate =>
         \A id \in DOMAIN attestations' \ DOMAIN attestations :
            /\ id.issuer \in issuers
            /\ requireRegistered => id.claimType \in claimRegistry
            /\ id.issuer \in whitelistMode => <<id.issuer, id.subject>> \in whitelist
            /\ attestations'[id].expiration # None => attestations'[id].expiration > now]_allTemplateVars
=============================================================================
