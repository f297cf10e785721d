------------------------------- MODULE MCImages -------------------------------
(* TLC instance of two services that keep images in the bucket and cite them  *)
(* in rows: the cover of a project and the images of the articles.  They      *)
(* share no state: a behaviour is one of either, the other staying at its     *)
(* initial state.                                                             *)
EXTENDS CoverImage, TLC

CONSTANTS Removals, Posts, Pictures, NoPost
VARIABLES existing, removed, cites, known, pictures, step, post, keys, abandoned, tardy
Articles == INSTANCE BlogImages
    WITH Images <- Pictures, bucket <- pictures, pc <- step, late <- tardy

ASSUME ArticlesAssumption == Articles!BlogImagesAssumption

VARIABLE scene
articleVars == <<existing, removed, cites, known, pictures, step, post, keys, abandoned, tardy>>
allVars == <<scene, vars, articleVars>>

ImagesInit == Init /\ Articles!Init /\ scene \in {"cover", "articles"}

PlayCover ==
    /\ scene = "cover"
    /\ Next
    /\ UNCHANGED <<scene, articleVars>>

PlayArticles ==
    /\ scene = "articles"
    /\ Articles!Next
    /\ UNCHANGED <<scene, vars>>

ImagesNext == PlayCover \/ PlayArticles

ImagesSpec == ImagesInit /\ [][ImagesNext]_allVars

\* The types of both services.
TypesOK == TypeOK /\ Articles!TypeOK

\* The properties of the instance, under their names.
CitedImagesStored == Articles!CitedImagesStored
ImagesAccounted == Articles!ImagesAccounted

\* Both services draw from the same model values (see the .cfg).
Interchangeable == Permutations(Requests) \cup Permutations(Keys) \cup Permutations(Removals)
=============================================================================
