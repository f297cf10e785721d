------------------------------ MODULE MCServices ------------------------------
(* TLC instance of four components that share no state: the CV, the share    *)
(* cards, the publication of the articles and the visits.  A behaviour is    *)
(* one of any of them, the others staying at their initial state.            *)
EXTENDS CvFile, TLC

CONSTANTS Readers, Writers, Contents, NoObject
VARIABLES original, card, cardStep, held, overlap, failed
Cards == INSTANCE ShareCard WITH pc <- cardStep

CONSTANTS Editors, Posts, Slugs, Same, NoPost
VARIABLES posts, removed, subject, body, current, links, torn
Articles == INSTANCE BlogArticles

ASSUME ArticlesAssumption == Articles!BlogArticlesAssumption

CONSTANTS Beacons, Devices, Pages, Hosts, Site, Rows, Days, Limit, Threshold, MaxDuration
VARIABLES day, views, events, step, event, seen, doubled
Audience == INSTANCE Visit WITH found <- seen

ASSUME AudienceAssumption == Audience!VisitAssumption

VARIABLE scene
cardVars == <<original, card, cardStep, held, overlap, failed>>
articleVars == <<posts, removed, subject, body, current, links, torn>>
audienceVars == <<day, views, events, step, event, seen, doubled>>
allVars == <<scene, vars, cardVars, articleVars, audienceVars>>

AllInit ==
    /\ Init /\ Cards!Init /\ Articles!Init /\ Audience!Init
    /\ scene \in {"cv", "share card", "articles", "audience"}
    /\ scene # "share card" => original = NoObject

PlayCv ==
    /\ scene = "cv"
    /\ Next
    /\ UNCHANGED <<scene, cardVars, articleVars, audienceVars>>

PlayShareCard ==
    /\ scene = "share card"
    /\ Cards!Next
    /\ UNCHANGED <<scene, vars, articleVars, audienceVars>>

PlayArticles ==
    /\ scene = "articles"
    /\ Articles!Next
    /\ UNCHANGED <<scene, vars, cardVars, audienceVars>>

PlayAudience ==
    /\ scene = "audience"
    /\ Audience!Next
    /\ UNCHANGED <<scene, vars, cardVars, articleVars>>

AllNext == PlayCv \/ PlayShareCard \/ PlayArticles \/ PlayAudience

AllSpec == AllInit /\ [][AllNext]_allVars

\* The types of the four components.
TypesOK == TypeOK /\ Cards!TypeOK /\ Articles!TypeOK /\ Audience!TypeOK

\* The properties of the instances, under their names.
StaleOnlyByOverlap == Cards!StaleOnlyByOverlap
LinksHold == Articles!LinksHold
EngagementKept == Audience!EngagementKept
CountsAgree == Audience!CountsAgree

Interchangeable ==
    Permutations(Editors) \cup Permutations(Slugs) \cup Permutations(Beacons)
=============================================================================
