-------------------------------- MODULE Game --------------------------------
(***************************************************************************)
(* Bash/Game/game.sh: a player walks in a walled field, picks up the one   *)
(* object and drops it again.  One action per key; a key's whole handler   *)
(* runs before the next key is read.  The state is what the script keeps,  *)
(* and what stands in the cells of the field on the screen, which the      *)
(* script changes by drawing and clearing single cells.  The messages      *)
(* below the field are left out.  Init, Next and the like carry the        *)
(* script's name, so that a module can extend this and another component.  *)
(***************************************************************************)
EXTENDS Integers

CONSTANTS LASTCOL, LASTROW,    \* the field's right and lower walls (11, 11)
          StartPos, StartObj   \* the first places of player and object (1,1; 5,5)

FIRSTCOL == 0
FIRSTROW == 0

ASSUME SizeAssumption == LASTCOL \in Nat /\ LASTROW \in Nat

Inner == (FIRSTCOL + 1 .. LASTCOL - 1) \X (FIRSTROW + 1 .. LASTROW - 1)
Cells == (FIRSTCOL .. LASTCOL) \X (FIRSTROW .. LASTROW)

ASSUME StartAssumption == StartPos \in Inner /\ StartObj \in Inner /\ StartPos # StartObj

VARIABLES POS,         \* <<POSX, POSY>>
          OBJ,         \* <<OBJX, OBJY>>
          DIRECTION,   \* "" until the first move
          SCORE,
          screen,      \* the character in each cell: "#", " ", "&" or "@"
          running

gameVars == <<POS, OBJ, DIRECTION, SCORE, screen, running>>

Corner == <<LASTCOL, LASTROW>>     \* where the script puts what is carried

Draw(scr, cell, ch) == [scr EXCEPT ![cell] = ch]

\* field.gamefile
Field == [cell \in Cells |-> IF cell \in Inner THEN " " ELSE "#"]

GameInit == /\ POS = StartPos
            /\ OBJ = StartObj
            /\ DIRECTION = ""
            /\ SCORE = 0
            /\ screen = Draw(Draw(Field, StartPos, "&"), StartObj, "@")
            /\ running = TRUE

\* NEW_POSX and NEW_POSY: the cell the player faces, or his own at the start.
Facing(direction) == CASE direction = "u" -> <<POS[1], POS[2] - 1>>
                       [] direction = "d" -> <<POS[1], POS[2] + 1>>
                       [] direction = "l" -> <<POS[1] - 1, POS[2]>>
                       [] direction = "r" -> <<POS[1] + 1, POS[2]>>
                       [] OTHER -> POS

\* Mutant of TestPosition: a right wall that is one cell too thin.
TestThinWall(cell) == IF \/ cell[1] <= FIRSTCOL \/ cell[1] > LASTCOL
                         \/ cell[2] <= FIRSTROW \/ cell[2] >= LASTROW THEN "wall"
                      ELSE IF cell = OBJ THEN "object" ELSE "free"

\* The carried object stands in a corner of the walls, which nobody can face.
TestPosition(cell) == IF cell \notin Inner THEN "wall"
                      ELSE IF cell = OBJ THEN "object" ELSE "free"

-----------------------------------------------------------------------------
\* The keys w, s, a and d turn the player, and move him if he can.
Move(direction) ==
  /\ running
  /\ DIRECTION' = direction
  /\ IF TestPosition(Facing(direction)) = "free"
     THEN /\ POS' = Facing(direction)
          /\ screen' = Draw(Draw(screen, POS, " "), Facing(direction), "&")
     ELSE UNCHANGED <<POS, screen>>
  /\ UNCHANGED <<OBJ, SCORE, running>>

\* The key e: ClearObject blanks the object's cell and puts it in the corner.
PickUp == /\ running
          /\ IF TestPosition(Facing(DIRECTION)) = "object"
             THEN /\ screen' = Draw(screen, OBJ, " ")
                  /\ OBJ' = Corner
                  /\ SCORE' = SCORE + 1
             ELSE UNCHANGED <<OBJ, SCORE, screen>>
          /\ UNCHANGED <<POS, DIRECTION, running>>

\* Mutant of Drop: the score is not looked at first.
DropAlways == /\ running
              /\ IF TestPosition(Facing(DIRECTION)) = "free"
                 THEN /\ OBJ' = Facing(DIRECTION)
                      /\ SCORE' = SCORE - 1
                      /\ screen' = Draw(screen, Facing(DIRECTION), "@")
                 ELSE UNCHANGED <<OBJ, SCORE, screen>>
              /\ UNCHANGED <<POS, DIRECTION, running>>

\* The key r.  Had the player no direction yet he would drop it on himself.
Drop == /\ running
        /\ IF SCORE # 0 /\ TestPosition(Facing(DIRECTION)) = "free"
           THEN /\ OBJ' = Facing(DIRECTION)
                /\ SCORE' = SCORE - 1
                /\ screen' = Draw(screen, Facing(DIRECTION), "@")
           ELSE UNCHANGED <<OBJ, SCORE, screen>>
        /\ UNCHANGED <<POS, DIRECTION, running>>

\* The key x.
Quit == running /\ running' = FALSE /\ UNCHANGED <<POS, OBJ, DIRECTION, SCORE, screen>>

GameNext == \/ \E direction \in {"u", "d", "l", "r"} : Move(direction)
            \/ PickUp
            \/ Drop
            \/ Quit

GameSpec == GameInit /\ [][GameNext]_gameVars

-----------------------------------------------------------------------------
GameTypeOK == /\ POS \in Inner
              /\ OBJ \in Inner \cup {Corner}
              /\ DIRECTION \in {"", "u", "d", "l", "r"}
              /\ SCORE \in {0, 1}
              /\ screen \in [Cells -> {"#", " ", "&", "@"}]
              /\ running \in BOOLEAN

\* There is one object, and the score tells where: carried and out of the field,
\* or in it, and then not under the player.
OneObject == /\ SCORE = 1 <=> OBJ = Corner
             /\ OBJ # POS

\* Something can be carried only after the player has turned to it.
CarriesAfterTurn == DIRECTION = "" => SCORE = 0

\* The screen, which is only ever changed cell by cell, shows walls, player and
\* object where the script believes them to be, and nothing else.
ScreenTrue ==
  screen = [cell \in Cells |-> IF cell = POS THEN "&"
                               ELSE IF cell = OBJ /\ SCORE = 0 THEN "@"
                               ELSE IF cell \in Inner THEN " " ELSE "#"]

GameInv == GameTypeOK /\ OneObject /\ CarriesAfterTurn
=============================================================================
