------------------------------- MODULE Editor -------------------------------
(***************************************************************************)
(* The UI editor, seen at three levels: whose page an edit changes         *)
(* (PageRights), where in the files of a page it goes (EditorTree), and    *)
(* how the changed files get to disk (ConfigEditor).  Each level keeps its *)
(* own picture of the files and none reads another's; level says which one *)
(* a behaviour follows.                                                    *)
(***************************************************************************)
EXTENDS ConfigEditor

CONSTANTS
    Lists, Widgets, TreeStarts,
    PageEntries, NameOf, SlugOf, TitleSlug, NoSlug, ReadersOf, Editors, RestrictedTo,
    EditingUsers, AllowEditing, Hidden, Versions, FirstVersion, MaxChanges

VARIABLES
    level,
    tree, kind,                             \* EditorTree
    files, loaded, view, edited, changes    \* PageRights

Tree == INSTANCE EditorTree WITH Starts <- TreeStarts

Rights == INSTANCE PageRights WITH Entries <- PageEntries, edits <- changes

ASSUME PagesAssumption == Rights!RightsAssumption

ASSUME ListsAssumption == Tree!TreeAssumption

treeVars == <<tree, kind>>
rightsVars == <<files, loaded, view, edited, changes>>
editorVars == <<level, vars, treeVars, rightsVars>>

\* A level that is not followed stays at one of its starts.
EditorInit ==
    /\ level \in {"rights", "tree", "disk"}
    /\ Init /\ Tree!Init /\ Rights!RightsInit
    /\ level /= "disk" => disk = CHOOSE d \in Starts : TRUE
    /\ level /= "tree" => [tree |-> tree, kind |-> kind] = CHOOSE s \in TreeStarts : TRUE

EditorNext ==
    \/ level = "disk" /\ Next /\ UNCHANGED <<level, treeVars, rightsVars>>
    \/ level = "tree" /\ Tree!Next /\ UNCHANGED <<level, vars, rightsVars>>
    \/ level = "rights" /\ Rights!RightsNext /\ UNCHANGED <<level, vars, treeVars>>

EditorSpec == EditorInit /\ [][EditorNext]_editorVars

\* The properties of the levels, see their modules.
EditsArePermitted == level = "rights" => Rights!EditsArePermitted

\* However the lists are spread over files, and whatever versions the files, the
\* application and the browser are at, an edit changes what its user was shown
\* there, as it did on the screen, and nothing else (but for the moves of
\* MissesInclude): config-editor.go:455-520, 542-654.
EditsAreFaithful ==
    [][/\ level = "tree" => Tree!FaithfulStep
       /\ level = "rights" => Rights!ShownStep]_editorVars

\* "the content itself is not" lost when a file is rewritten
\* (docs/docs/ui-editor.md:127).
MovesLoseNothing == [][level = "tree" => Tree!LossStep]_editorVars
=============================================================================
