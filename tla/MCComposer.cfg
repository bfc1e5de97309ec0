\* A contact and a group, two texts, two files.
CONSTANTS
    Friends = {ann}
    Groups = {team}
    None = None
    Texts = {t1, t2}
    Files = {f1, f2}
SPECIFICATION Spec
SYMMETRY Symmetry
CONSTRAINT FilesBeforeLate
INVARIANTS TypeOK CanSend EachInItsPlace
PROPERTY KeepsTexts
