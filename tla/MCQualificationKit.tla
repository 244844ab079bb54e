-------------------------- MODULE MCQualificationKit --------------------------
EXTENDS QualificationKit

(***************************************************************************)
(* A testcase per criterion, one of which is only for level B and another  *)
(* only in the second version of the artifacts, and a selftest, which no   *)
(* requirement has; suites of which each test has any status, or none.     *)
(***************************************************************************)
Subtrees == [s1 |-> "stmt", m1 |-> "mcdc", t1 |-> "selftest"]
MCTree == <<{"s1", "d1", "t1"}, {"s1", "d1", "m1", "t1"}>>
MCTestcase ==
    [s1 |-> [chapter |-> "stmt", tc |-> TRUE, dolevel |-> "any"],
     d1 |-> [chapter |-> "decision", tc |-> TRUE, dolevel |-> "doB"],
     m1 |-> [chapter |-> "mcdc", tc |-> TRUE, dolevel |-> "any"],
     t1 |-> [chapter |-> "Appendix", tc |-> FALSE, dolevel |-> "any"]]

Note(kind, satisfied) == [kind |-> kind, satisfied |-> satisfied]
NotesOf == [s1 |-> <<Note("r0", TRUE), Note("sNoCov", TRUE)>>,
            m1 |-> <<Note("eNoCov", TRUE), Note("dtNoCov", FALSE), Note("r0c", TRUE)>>,
            t1 |-> <<Note("xBlock1", TRUE)>>]

Dir(t, status) == [subtree |-> Subtrees[t], status |-> status,
                   data |-> status # "none", notes |-> NotesOf[t]]
NoData(t, status) == [subtree |-> Subtrees[t], status |-> status,
                      data |-> FALSE, notes |-> <<>>]

Suite(level, dirs) ==
    [dolevel |-> level, target |-> level = "doA", board |-> FALSE,
     other |-> level = "doC", treeref |-> IF level = "doA" THEN 1 ELSE 2,
     gnatcov |-> "22", adc |-> TRUE, dirs |-> dirs]

MCSuites ==
    {Suite("doA", [s1 |-> s, m1 |-> m, t1 |-> t]) :
        s \in {Dir("s1", "OK"), Dir("s1", "FAILED"), NoData("s1", "UOK")},
        m \in {Dir("m1", "FAILED"), Dir("m1", "XFAIL"), NoData("m1", "none")},
        t \in {Dir("t1", "OK"), Dir("t1", "FAILED"), NoData("t1", "none")}}
MCReruns ==
    {Suite("doC", [s1 |-> Dir("s1", "OK"), m1 |-> NoData("m1", "none"),
                   t1 |-> Dir("t1", "OK")]),
     Suite("doC", [s1 |-> Dir("s1", "OK"), m1 |-> NoData("m1", "OK"),
                   t1 |-> NoData("t1", "none")]),
     Suite("none", [s1 |-> Dir("s1", "OK"), m1 |-> Dir("m1", "OK"),
                    t1 |-> NoData("t1", "none")]),
     Suite("doA", [s1 |-> Dir("s1", "OK"), m1 |-> NoData("m1", "ERROR"),
                   t1 |-> Dir("t1", "OK")]),
     [Suite("doA", [s1 |-> Dir("s1", "OK"), m1 |-> Dir("m1", "OK"),
                    t1 |-> Dir("t1", "FAILED")]) EXCEPT !.adc = FALSE]}

KitOptions == [dolevel |-> "doA", formats |-> <<"html", "pdf">>, parts |-> {},
        testsuite_dir |-> TRUE, rekit |-> FALSE, kitp |-> FALSE, gitpull |-> FALSE,
        gitreuse |-> FALSE, gitsource |-> FALSE, xgnatcov |-> "22"]

MCOptions ==
    {KitOptions,
     [KitOptions EXCEPT !.dolevel = "doC", !.formats = <<"pdf">>, !.gitreuse = TRUE,
                 !.xgnatcov = "none"],
     [KitOptions EXCEPT !.parts = {"str"}, !.rekit = TRUE, !.gitpull = TRUE,
                 !.formats = <<"pdf">>, !.xgnatcov = "21"],
     [KitOptions EXCEPT !.parts = {"tor", "plans"}, !.rekit = TRUE, !.gitpull = TRUE,
                 !.testsuite_dir = FALSE, !.formats = <<"html">>],
     [KitOptions EXCEPT !.parts = {"tor"}, !.gitreuse = TRUE, !.formats = <<"html">>],
     [KitOptions EXCEPT !.parts = {"tor"}, !.rekit = TRUE, !.dolevel = "doC",
                 !.formats = <<"html">>],
     [KitOptions EXCEPT !.parts = {"tor"}, !.rekit = TRUE, !.dolevel = "doB",
                 !.formats = <<"pdf">>],
     [KitOptions EXCEPT !.testsuite_dir = FALSE],
     [KitOptions EXCEPT !.gitpull = TRUE, !.gitsource = TRUE]}
=============================================================================
