---------------------------- MODULE SmallSystems ----------------------------
(***************************************************************************)
(* The systems around the core that are small enough to be looked at       *)
(* together: admin console, public lists, revenue configurations, an       *)
(* item's pages, categories, and what a crawler finds.  They share no      *)
(* state, so each behaviour is one of them, and TLC visits their states    *)
(* one after the other and not their product.                              *)
(***************************************************************************)
EXTENDS AdminConsole, ReaderPages, RevenueConfigs, Taxonomy, Discovery

VARIABLE part      \* the one that moves

vars == <<consoleVars, listVars, configVars, readerVars, taxonomyVars, siteVars, part>>

Init ==
    /\ ConsoleInit /\ ListInit /\ ConfigInit /\ ReaderInit /\ TaxonomyInit /\ SiteInit
    /\ part \in {"console", "lists", "configs", "reader", "taxonomy", "site"}

Next ==
    \/ part = "console" /\ ConsoleNext /\ UNCHANGED <<listVars, configVars, readerVars, taxonomyVars, siteVars, part>>
    \/ part = "lists" /\ ListNext /\ UNCHANGED <<consoleVars, configVars, readerVars, taxonomyVars, siteVars, part>>
    \/ part = "configs" /\ ConfigNext /\ UNCHANGED <<consoleVars, listVars, readerVars, taxonomyVars, siteVars, part>>
    \/ part = "reader" /\ ReaderNext /\ UNCHANGED <<consoleVars, listVars, configVars, taxonomyVars, siteVars, part>>
    \/ part = "taxonomy" /\ TaxonomyNext /\ UNCHANGED <<consoleVars, listVars, configVars, readerVars, siteVars, part>>
    \/ part = "site" /\ SiteNext /\ UNCHANGED <<consoleVars, listVars, configVars, readerVars, taxonomyVars, part>>

Spec == Init /\ [][Next]_vars

\* docs/SEO.md, "Sitemaps" and "Robots": at every moment the sitemaps name exactly the
\* pages that exist and say "index", and a crawler reaches these by links as well
\* (Discovery has the exceptions).
SiteAgrees == part = "site" => SitemapsAgree
=============================================================================
