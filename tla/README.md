# ShiftN in TLA+

ShiftN is a Windows program that removes converging verticals from photographs
of buildings. It loads a photo, finds straight edges, fits the tilt of the
camera to them, shows the corrected picture next to the original, lets the user
change lines or parameters, and saves the result with the photo's metadata.
This directory holds TLA+ modules for the parts of the program that depend on
the order of things: worker threads, message pumping, buffers that change
hands, files that are replaced. TLC checks them on small instances, TLAPS
proves their safety properties, and two refinements, for all sizes.

Source lines are those of `src/ShiftN_Source/`; `V:n` stands for line *n* of
`ShiftNView.cpp`. Names in the modules are the names of the code where TLA+
allows it; the rest is German, as in the code.

## 1. The system

### Components

| Component | State it keeps | Operations | Modelled in |
|---|---|---|---|
| Line detection (`OnGo`, `calc_row`, `fill_row1/2`, `sort_row`, `plane_row`) | `struktur`, `mitte_offset`, `kp`, `countp`, `maxp`, completion events, paint flags `ergvo`, `struvo` | five phases on two threads | `RegionPass`, `LineTable`, `RegionPass_proofs` |
| Flood fills (`fill`, `fill2`, `mystack.h`) | direction layers, stacks, `l_schicht` | fill one region, count or record it | `FloodFill`, `FillAndFit_proofs` |
| Fit (`fithomography`) | verdicts in `struktur`, `globparam`, `globwinkel` | rounds of search and outlier marking | `LineFit`, `Fithomography`, `FillAndFit_proofs` |
| Image session (`lese_bild`, `alloc_bilder`, `OnLoad`, `OnDrop`, `OnCtrlV`, `OnBatch`, `OnParam`, `OnGoB`, adjust dialog, exit) | all image buffers, metadata, result flags, correction | load, close, correct, change parameters, batch, paint | `ImageSession`, `ImageSession_proofs` |
| Editing (mouse handlers, `OnDelMH`, `OnUpMH`, `OnDownMH`) | verdicts, `selection_mouse`, `selektion_vorhanden`, `m_rect` | click, drag, select lines, select a crop | `LineEdit`, `Commands_proofs` |
| Decoding of JPEG (`read_JPEG_file`) | `mbild`, `u`, `v`, `exifdreh` | read rows, turn upright | `JpegRows`, `JpegRows_proofs` |
| Saving (`schreibe_bild`, `write_JPEG_file`, jhead's `ProcessFile`) | the files | write, transfer EXIF, replace the original | `SaveImage`, `SaveImage_proofs` |
| Decoding of TIFF, BMP, clipboard | `mbild`, `tiff16r/g/b` | read | success and failure in `ImageSession` |
| Selecting and cutting (mouse handlers, first part of `schreibe_bild`, `cutter`) | `m_rect`, `selektion_vorhanden`, the part | drag with either button, select, cut, enlarge | `Crop`, `Resample_proofs` |
| Resampling and writing (`interpol_row`, `interpol16_row`, rest of `schreibe_bild`) | `nbild`, `tiff16n`, events | sample on two threads, sharpen, write four formats | `Resample`, `Resample_proofs` |
| Batch on the disk (`OnBatch`, `kleiner`, `sort_batch`) | `batchname`, the folder | choose, sort, read, name, write | `Batch`, `Commands_proofs` |
| Profile and metadata (`read_icc_profile`, `write_icc_profile`, jhead's `ReadJpegSections`, `DiscardAllButExif`, `WriteJpegFile`) | `icc_data_ptr`, `Sections` | split and join markers, copy sections | `Metadata`, `Metadata_proofs` |
| jhead's parsers of tags (`exif.cpp`, `iptc.cpp`, ...) | `ImageInfo` | parse | not modelled (third-party) |
| Settings, language, dialogs, frame, splash | registry, ini file | read, write, show | not modelled |
| libjpeg, libtiff, zlib | | | steps that may fail |

There are no tests in the repository. What it promises is in comments, in the
texts of the dialogs (`ShiftN.rc`) and in the help text that is painted into an
empty window (V:2530-2600).

### How they interact

Everything is global state of one process. The commands run on the main thread,
which hands work to two worker threads (`part` 0 and 1) and joins them on
manual-reset events before it goes on (V:5831-5842). Long work on the main
thread shows a modeless progress dialog, whose `StepIt` pumps messages while the
main window is disabled: input is not delivered then, but paints are.
So a paint (`OnDraw`, `bild_zeichnen`) may come in the middle of a command, and
must find out from flags (`speicher_voll`, `ergvo`, `struvo`, `x_global`) what
it may touch. `ImageSession` and `RegionPass` take this as their interleaving:
between two steps of a command there may be a paint, and the properties about
paints are therefore invariants of every state.

    Batch (names, files) --->  ImageSession  ---mbild---  JpegRows
    load / paste                    |  Go
                                    v
      FloodFill  --regions-->   RegionPass  ==implements==> LineTable
                                    |  struktur
                                    v
                              Fithomography ==implements==> LineFit
                                    |  verdicts, globparam, globwinkel
                                    v
                                LineEdit  ---which handler---+
                                    |  correction            v
                                    |                      Crop
                                    v                        |  the part
                                Resample  <------------------+
                                    |  pictures
                                    v
                                SaveImage (files)  ---  Metadata (their sections)

The boundaries are made so that each module takes as given what another one
shows. `RegionPass` takes from an image the sequence of its regions with two
sizes; that both fills find the same sequence with the same sizes is `FloodFill`'s
`BeideGleich`. `LineEdit` replaces each fit by what `LineFit` allows; that
`fithomography` allows nothing else is `Fithomography`'s refinement. `LineEdit`
knows of the crop rectangle only whether it belongs to the open image;
its corners are `Crop`'s, which `Resample` extends: the two share one state
because a save begins with what the mouse has left. `SaveImage` and `Metadata`
are the two sides of `write_JPEG_file`: which files there are after each system
call, and which sections the file that survives has.

### What is hard

* **Two threads, one array** (V:5486-5731). The second fill pass writes records
  into one array without a lock. The split point and the size come from the first
  pass; `fill2` writes a record before it is known whether the region is kept.
* **Walks over variable-length records** (V:5889-5906, 5544, 5594, 2672). Each
  walk finds the next header from the length in the last one. A gap, an overrun
  or a stale header derails every later walk.
* **Paints in the middle of commands** (V:2280, 2670).
* **Seven copies of the block that closes an image** (V:5018 and others), over a
  dozen buffers, after loads that failed at different points.
* **Marks that live across passes** (V:1501-1535): `-30` waits for the next pass.
* **Mouse handlers without capture** (V:7600-8399): buttons go down and up
  anywhere.
* **Files that are deleted, renamed and rewritten** (V:4557-4664, `jpgfile.cpp`).
* **Two copies of eight orientation cases** (V:1897-2080).
* **A part that is rounded four times** (V:4059-4116): from the screen to the
  result, to a size that may be enlarged, to columns and rows from the other end.
* **Two threads, one picture, twice** (V:4196-4285), and four writers that each
  read it in their own order (V:4286-4736).
* **An order that is not quite one** (V:6578), with which a list is sorted until
  no neighbours are out of order.
* **jhead called up to four times per save** (V:1057-1082), each call dropping
  some sections and rewriting the file.

The list with lines is in `PROJECT.json` under `hazards`.

## 2. The modules

### RegionPass: five phases, two threads

| Code | Action |
|---|---|
| start of a run, V:5733-5800 | `OnGo` |
| `ResetEvent`, `AfxBeginThread` for part 0, then 1, V:5832-5836 | `Starte` |
| `calc_row`, `fill_row1`, `fill_row2`, `sort_row`, `plane_row`: one step per region or record | `CalcRow`, `FillRow1`, `FillRow2`, `SortRow`, `PlaneRow` |
| waiting for both events | guard `AlleFertig` of `NachCalc`, `NachFill1`, ... |
| size and split of the array, V:5860-5875 | `Layout`, `CallocFehlt` |
| vote loop, V:5889-5906 | `Vote` |
| fewer than two lines, V:5932 | `ZuWenig` in `Urteil` |
| end of the run, V:5991 | `GoEnde` |

A region is reduced to the number of its pixels and of its distinct neighbours,
which is what the layout depends on. `struktur` is a function from addresses to
headers; writing a record removes the headers it covers, so an overlapping write
by the other thread is visible. All numeric criteria (contrast, plane fit, vote)
are free choices.

`marke` is the one history variable: the room needed by the first *r* regions as
the first pass counted it.

### LineTable: what a run promises

No threads, no addresses: a run ends with a table with one entry for each region
that is large enough, in scan order, partition 0 first, two of them usable; or
with none. `RegionPass` implements it: `Tabelle`, at its end, reads the table off
`struktur` by the walk that `bild_zeichnen` (V:2672) and the fit make, and the
mapping shows it between two runs.

### FloodFill: two copies of one algorithm

`fill` counts and `fill2` records; the array is sized by the first and written
by the second. One step is one turn of the fill loop: a pixel is popped and its
four or eight neighbours are pushed or counted. The module keeps the code's
order of visits, because what counts as a neighbour depends on the marks other
pixels carry at that moment.

### LineFit and Fithomography: the outlier search

Angles are floating-point numbers and stay outside. The threshold falls from
pass to pass, so which of the green lines a pass finds over its threshold is any
subset of those that are left; all else (marks, counts, when a pass, a round and
the search end, when the correction is 0) is the code's.
`LineFit` says what this amounts to: a round turns green lines red only if more
than `Mindest` (10) and more than `Anteil` (80 %) stay, and changes nothing else.
During a round the mapping takes the verdicts from before the round, so a
pass stutters and the end of a round is the abstract step.

### ImageSession: who owns the buffers

One command runs at a time; it is split where messages are pumped (`schritt`).
A buffer is known by the load it was made for (`nr`) and the analysis size. The
variables `schlecht` (something was freed or used that is not there) and
`gestoert` (out of memory, or a JPEG broken after its last row) are history.

| Code | Action |
|---|---|
| `OnLoad`, `OnDrop`, `OnCtrlV`, `OnCreate` | `Laden`, `Einfuegen`, `Start` |
| closing an image (seven copies) | `Raeume` |
| `lese_bild`, `read_JPEG_file`, TIFF and BMP readers | `Dekodiere`, `Unlesbar`, `JpegFehler`, `JpegSpaet`, `Gelesen` |
| `alloc_bilder`, `preprocessing` | `Belege`, `BelegeFehlt`, `Gefuellt` |
| `OnGo` | `Go`, `GoEnde` |
| `OnGoB` (fixed parameters of a batch) | `GoB`, `GoBEnde` |
| Reoptimize; the adjust dialog | `Reoptimize`..., `Anpassen`... |
| `OnBatch` (buffers and correction) | `Stapel`, `Naechstes`, `Sichern`, `StapelRaeumen`, `StapelEnde` |
| `OnParam` | `Parameter` |
| `bild_zeichnen` | operators `Bilder`, `Striche`, `Texte` (what a paint reads) |

### LineEdit: mouse and keyboard

The view never captures the mouse, so a button may be pressed inside and released
outside or the other way round, and the handlers come in any order with any
button flags. A point is the picture it lies in, the lines near it and the
lines that a rectangle to it encloses. The code decides whether a click
hits by reading the colour on the screen; lines on top of one another may hide it,
so `trifft` is a choice.

### JpegRows: orientation

Every sample is known by its place in the file. The orientation's meaning is
stated independently of the code's index arithmetic: the EXIF standard names, for
each value, the sides of the picture at which row 0 and column 0 are; `Abstand`
measures the distance of a place of `mbild` (rows from the bottom) from a side.

Sizes and addresses are 32-bit numbers and wrap (`Modul`): the size test compares
a `long` (`Long`), what `calloc` gets is `mu3au * v` modulo 2^32 (`gross`), and a
place is at its address modulo 2^32, which may lie beside it (`Adresse`, `Daneben`).

| Code | Action |
|---|---|
| size test, turn, `calloc`, V:1843-1882 and 1967-2006 | `Kopf` |
| a row of colour or grey samples, V:1895-1956, 2019-2080 | `ZeileFarbe`, `ZeileGrau` |
| end of the loop | `Fertig` |

### SaveImage: files

Each step is one change of the file system; the process may end after any. It
keeps `schreibe_bild`'s decisions about names (suffix, Save As, command line,
format), the temporary file, and jhead's rewriting of the new JPEG: once to copy
the EXIF data of the original, once more to take the orientation tag out.

Nearly every call may fail without the code noticing, and the save goes on.
`fehler` records as history what has failed so far: `"jpg"` (the JPEG does not
open), `"voll"` (jhead's rewriting is cut short), `"name"` (the rename at
the end), `"sonst"` (anything else).

| Code | Action | How it may fail |
|---|---|---|
| commands, V:4749-4980 | `Speichern`, `SpeichernUnter` | |
| TIFF and BMP in place, V:4286-4553 | `TifAuf`, `TifZu`, `BmpAuf`, `BmpZu` | does not open; is cut short |
| temporary JPEG, V:4557-4590, 1022 | `JpgAuf`, `JpgSchreiben` | does not open; libjpeg ends the process |
| sections of both files read, V:779-933 | `JheadUebertrag`, `JheadDrehen` | cannot be read, and nothing is rewritten |
| backup `.t`, V:934-942 | `JheadUmbenennen` | old backup stays, rename fails |
| `WriteJpegFile`, `jpgfile.cpp`:456-528 | `JheadAuf`, `JheadSchreiben` | does not open (the process ends); is cut short |
| backup removed, V:953-954 | `JheadAufraeumen` | stays |
| `remove`, `rename`, V:4660-4661 | `Entfernen`, `Ersetzen` | either, or both |

### Crop and Resample: from the mouse to the file

| Code | Action |
|---|---|
| button handlers inside the picture, V:7774, 8047, 8173 | `Druecken` |
| moves and releases with the left button, V:7854, 8163 | `ZiehenLinks` |
| the same with the right one, which keeps the picture's proportions in two loops, V:7893-7931, 8346-8394 | `ZiehenRechts`, `Weiten`, `Verengen` |
| release elsewhere, `OnSize`, `OnSetFocus` | `Loslassen`, `Verwerfen` |
| the part of a selection, V:4047-4116 | `SchneideAuswahl` |
| whole picture, or `cutter`, V:3596-3671 and 4117-4133 | `OhneAuswahl`, `Wachsen` |
| choice of passes, V:4196, 4241 | `Beginne`, `Durchgang` |
| start, columns, event, join, V:4220-4237, 3851-3912 | `Starte`, `Spalte`, `Fertig`, `Abgewartet` |
| TIFF, BMP, JPEG, clipboard, V:4286-4736 | `Schreibe` |

A column of `nbild` is known by the place it was sampled from, not by its
colours. `cutter` moves all four sides, tests the four corners and takes sides
back; its half-planes are exact integers, its step a fraction of a pixel
(`Einheit`). The right-button loops run one pixel per step, so that whether they
end is a question for the checker. The homography, the kernels' weights and
the areas that decide for one of `cutter`'s directions are left out; every
direction may win.

### Batch: names on the disk

`OnBatch` from the file dialog to the last file. Names are sequences of
character codes, because `kleiner`, cutting off the extension and collisions
depend on them. `kleiner` is written as the code compares: it goes one step past
the first difference and then looks which name has ended. A file may have other
extensions than the three that are written (`Endung`); one without has no dot in
its name. Every read, write, `remove` and `rename` may fail.

### Metadata: profile and sections

A file is the sequence of its sections. `read_icc_profile` and
`write_icc_profile` are operators; jhead's calls are steps, one per section,
because the array grows and drops while it reads: `LiesSektion`, `LiesSOS`,
`Behalte` (`DiscardAllButExif`), `Schreibe`, with `pass` for which of
`write_JPEG_file`'s calls is under way. A result may be opened again.

## 3. What TLC checks

| Run | Question | Bounds |
|---|---|---|
| `region_pass` | who writes where, what the walks and a paint read, over runs in a row; every Go ends; `LineTable` is implemented | 12 images: halves that are empty, begin, end or consist of regions that are too small; up to four regions each |
| `flood_fill` | both fills take the connected regions and agree | all two-coloured 3x3 images and a sample with three colours, inside a 4x4 layer |
| `fithomography` | `LineFit` is implemented; counts and marks | 5 lines, 3 rounds, at most 3 passes; limits 1 and 50 % |
| `image_session` | buffers, flags, origin of what is shown | 3 images, 2 sizes, batches of 2 |
| `line_edit` | lines and correction, crop and result | 3 lines, 2 images |
| `jpeg_rows` | every sample upright, once, inside the memory | 4x4, 4x6, 7x5, one size too small, one too large, one that wraps; all tags; numbers of 8 bits |
| `resample` | the part, its samples, the threads, the formats; every handler and save ends | two pictures (a trapezium of 9x10, shown at 5/2; 3x4 with a finer photo, shown at 7), 3 points, gestures of 2 moves, `cutter` in half pixels, enlarging in quarters |
| `batch` | order, names, each file as if alone; the batch ends | 6 files, batches of 3, 2 suffixes, 3 sets of formats |
| `metadata` | profile and sections of results, and of results of results | 766 photos, 2 loads, 2 saves of each, 2 bytes per marker |
| `save_image` | metadata, leftovers, protection of the original, a picture survives interruptions and failing calls | two saves in a row, 7 originals |

Two runs end with a violation; they are listed under `findings`:

* `save_image_ersetzt`: with an empty suffix `schreibe_bild` deletes the original
  (V:4660) although the temporary JPEG could not be opened. The comment at V:4658
  says the new file takes its place in all cases. TLC finds the same property violated
  by two more failures alone, without the first: `rename` fails (V:4661); or the disk
  is full when jhead rewrites the JPEG, which nobody notices because `fwrite` and
  `fclose` at `jpgfile.cpp`:517-527 are not checked: jhead unlinks the last whole
  copy ("Now that we are done, remove original file", V:953), and then the photo
  itself goes.
* `line_edit_button`: the help text (V:2570) says that Ctrl with the left button
  makes the lines in the frame red. `OnRButtonUp` finishes a selection the left
  button began and makes them green (V:8287): nothing records which button began.

The comment at V:4659 says that the original is replaced with Save As too; V:4655
excludes that, and the comment at V:4972 contradicts it as well. The model follows
the code; `OriginalBleibt` says what it does.

### The properties

*RegionPass.* `EigeneHaelfte`: no write of `fill2`, of a region kept or
not, leaves the half of its thread. `HaelftenVoll`: after the second
pass each half is full to the last entry. `KetteAufKopf`: every stop of every
walk is a header of the right half. `PufferReicht`: no record is longer than
the scratch buffers. `LinienGezaehlt`: the count that decides is the number of
positive records. `MalenSicher`: whenever a paint may walk `struktur`, the table
is finished. `UrteilBleibt`: no test revives a dropped region. `GoEndet`,
`ErfuelltLineTable`: liveness and refinement.

*FloodFill.* `GanzeRegion` (against a definition of connectedness; no pixel is
pushed twice), `BeideGleich`, `AusdehnungStimmt` (`l_schicht` still holds a
region's own extent at the end), `FuellenEndet`.

*Fithomography.* `FitInv`, `ErfuelltLineFit`.

*ImageSession.* `MalSicher`: a paint at any moment reads only buffers that are
there, in the size it assumes, made for the open image, and no sequence of
commands and failed loads frees or uses what is not there.
`AnzeigeWiederDa`: after a command what exists is shown. `AllesVomBild`: no
metadata and no layers of another file. `VorschauStimmt`: what is saved is what
was shown. `KorrekturPasst`.

*LineEdit.* `KorrekturZuLinien`, `AusschnittPasst`.

*JpegRows.* `Aufgerichtet`: a photo whose product of sides fits a `long` stands
upright when it has been read, and every byte was written once and inside the
memory allocated. Photos of 2^31 samples and more are excepted (section 5).

*Resample.* `KeinHintergrund`: a part cut by `cutter` lies inside the photo.
`AusschnittTreu`: the pixels sampled for a selection are those the rectangle
touches on the screen. `PasstInPuffer`: what is sampled fits into `nbild`.
`LiestFertiges`: files hold only columns sampled for this save, and nothing
outside of a picture is read. `AlleFormateGleich`: every format shows the same
picture. `ImmerWiederFrei`: every handler and every save ends.

*Batch.* `GeordneteListe`, `JederFuerSich` (every file gets what saving it
alone would give, whichever others fail), `StapelEndet`.

*Metadata.* `ProfilBleibt`: a result has the profile of its photo.
`AngabenTreu`: its metadata are the photo's, once and upright, and the rest is
its own. `PlatzReicht`: jhead's array always has room.

*SaveImage.* `OriginalBleibt`: with a suffix the original is not touched, unless
its name is typed. `ExifKommtMit`, `NichtDoppeltGedreht`, `KeineReste`: what
a save in which nothing fails leaves behind. `BildBleibt`: what one leaves behind
that is interrupted anywhere or in which other steps fail: always one complete
picture, with the three exceptions of section 5.

Each of these properties has a mutant: a plausible slip in one mapped definition (`X_Bug` stands
before `X`) under which TLC finds the property violated.

Each module also has a type invariant (`TypeOK`); where it is part of no
theorem it documents the variables and is not among the properties of a run.

### Why the bounds are enough

*Images of `region_pass`.* The layout depends on each region's size and on
whether it is kept, the walks on the order; the twelve images have kept and
rejected regions at the beginning, middle and end of each half, empty halves
and halves without kept regions, sizes one below and exactly at the limit, and
results with 0, 1, 2 and more records. Runs follow each other with any of them,
so what one run leaves behind meets every other. For all images the safety
properties of this run and the refinement are proved (section 4).

*`flood_fill`.* Both copies look one pixel in each direction; 3x3 is the smallest
area in which a pixel has all its neighbours. `calc_row` leaves the last row
and column at 0, hence the 4x4 layer. For images of every size the three safety
properties are proved (section 4).

*`fithomography`.* With five lines, 1 and 50 % both limits are the tighter one in some
states; a round ends by each of the three conditions of `Weiter`, in its first
pass and after several.

*`image_session`.* The errors in question need one image, a second that
fails or replaces it, and a command after it. Three loads give that twice.

*`line_edit`.* Three lines are what a fit needs to drop one and keep two; a
second image is what a stale selection needs. The lines are interchangeable, so
symmetry is used; there is no liveness property.

*`save_image`.* The second save meets all files the first one left, also what its
failures left: a temporary file that was never renamed, a backup, a cut TIFF. A
name from the command line is tried with the photo that is turned only; that name
decides nothing but names, and this photo meets both calls of jhead. For any
number of saves, and for every kind of original under every kind of name, all
five properties are proved (section 4).

*`jpeg_rows`.* The smallest size that is read, one of either shape, one too small,
one too large; and 12x12, whose 144 samples are negative in an 8-bit `long`
(`Modul` is 256), so that it is accepted and gets 176 bytes for its 432. Rows of
5 and 7 samples need padding to a multiple of four bytes. For all sizes and every
`Modul` above four times `MaxFlaeche` the property is proved (section 4).

*`resample`.* The 9x10 trapezium is the smallest in which `cutter` leaves a part
of more than five pixels and takes back sides for the result's edge and for the
photo's; every direction in steps of half a pixel is tried. The 3x4 picture has
odd and even widths to split between the threads, a zoom at which several mouse
positions hit one pixel, and two pixels of the photo for each, so that parts are
enlarged. Three points give rectangles that are drawn in every direction,
that touch the picture's edge, and that are too flat to keep proportions.
Threads run column by column. For all sizes, zooms, points, directions and
numbers of steps the five safety properties of this run are proved (section 4).

*`batch`.* A comparison sees two names; an order is refuted by three. The six
names contain each pair `kleiner` treats differently: different first letters, one
a prefix of the other, a difference in the last letter, with and without
extension, a dot inside the name, a name that differs from another in its last
letter only (`a.jpg` and `a.jb.jpg`), and names a suffix makes equal to another.
For any files and names both safety properties are proved (section 4).

*`metadata`.* Two markers in every numbering, some of three, with markers of zero,
one and two bytes where two fill one; sections of each kind absent, once and
repeated; a file of more than ten sections makes the array grow three times.
The second load may take the result of the first.

### Fairness

Liveness is checked where the code's own scheduling justifies it. `RegionPass`:
weak fairness of the main thread (`Haupt`: it never waits but in the join) and of
each started worker (an operating-system thread, no locks). Nothing forces the
user to press Go again. `FloodFill`: weak fairness of the one loop. `Resample`:
weak fairness of the handler that runs (`Haupt`) and of each thread; the user
(`Benutzer`) owes nothing, and `ImmerWiederFrei` does not ask him to.
`Batch`: weak fairness of the handler once it is called. The
other modules state safety only: they wait for the user.

Deadlock is checked in `region_pass`, `flood_fill` and `resample`. The
other models stop when their bound (`MaxBilder`, `MaxSaves`, `MaxStapel`,
`MaxLaden`), the end of the program or the end of the one computation they
describe is reached.

## 4. What TLAPS proves

Proofs hold for every set of images, every number of regions, every size, and
for any number of steps: the bounds of the runs are constants in them, of which
only what the assumptions say is used.

**`RegionPass_proofs`** (from `BilderAssumption`: images are of the shape
`Bild`).

* `Typing`: `Spec => []TypeOK`.
* `Layoutsatz`: `Spec => []LayoutInv`. `ThreadInv` says that a started worker has
  signalled exactly if it has ended, so nothing of an earlier phase is taken for
  an answer. `MessInv` describes `marke` while the first pass builds it (each
  entry is the one before plus header and size, or the same), and that `countp`
  and `maxp` add up to it. `FuellInv` says that in the second pass `kp` is the
  start of the half plus `marke` of the regions done.
* `SchreibtImEigenen`: `Spec => []EigeneHaelfte`. For a region that is kept
  `marke` shows that its room ends before the half does. For one that is not, the
  argument is the clause `Nachfolger` of `MessInv`: either nothing is kept after
  it, and then the write is not made because the half is full, or there is a next
  kept region, which is at least as large as the limit the rejected one
  failed, so the write fits into its room.
* `BeideDurchgaengeGleich`: `Spec => []HaelftenVoll`. `EigeneHaelfte` and
  `HaelftenVoll` alone are not inductive: neither says what `kp` has to do with
  the regions that are still to come. `LayoutInv` does.
* `Kettensatz`: `Spec => []KettenInv`, inductive with `TypeOK` and `LayoutInv`.
  `SchreibInv` and `KopfInv`: the header of each kept region a worker has passed
  is at its `Stelle`, the start of the half plus `marke` of the regions before,
  and no later write reaches it, because places of different regions do not
  overlap (`Lage`, `Dazwischen`). `WegInv`: a walk stands at such a place or at
  its end; the length in the header leads to the next (`HaltWeiter`,
  `NaechsterHalt`), since a rejected region takes no room. `PufferInv`: `max_g`
  is no smaller than any record before `k`, in the end than any record.
* `WegeAufKoepfen`: `Spec => []KetteAufKopf`, not inductive by itself: from a
  header that is there nothing follows about the next one.
* `PufferGenuegen`: `Spec => []PufferReicht`.
* `Liniensatz`: `Spec => []LinienInv`. `RestInv`: nothing but headers of kept
  regions is left; during the second pass there may also be the header of a
  rejected region where the next kept one will go, and at the join there is none,
  since `kp` is then at the end. `ZaehlInv`: `count3p` of a worker is the number
  of positive records it has left behind it. `AnzeigeInv`: what `struvo` promises.
* `ZaehlungStimmt`: `Spec => []LinienGezaehlt`; the halves are disjoint and cover
  the table.
* `NurFertigesGemalt`: `Spec => []MalenSicher`.
* `VerworfeneBleiben`: `Spec => UrteilBleibt`.
* `Fertigsatz`: `Spec => []FertigInv`. Between two runs the regions that are kept
  are listed from the start of `struktur` to `kk`, each header at its place, and
  no start says anything but its verdict.
* `ImplementiertLineTable`: `Spec => ErfuelltLineTable`, the refinement, step by
  step. `Tabelle` walks `struktur` and is recursive along the walk, so first the
  recursion is shown to have a solution (`Rueckwaerts`: built from the end
  backwards, over sequences of lengths and verdicts of any length), then that
  the walk meets every kept region once and in order (`Aufgezaehlt`,
  `TabelleListet`). A step of a run leaves the mapped table alone, its end
  publishes one that `Passt` the image, and the fit changes the verdict of
  one entry (`ZweiInTabelle`).

So each safety property of the run `region_pass`, its action property and its
refinement are proved for every set of images and every interleaving.

**`FillAndFit_proofs`**, first half: the flood fills (from `GroesseAssumption`
and `FaelleAssumption`: a picture of positive size whose colours are numbers other
than 255, either neighbourhood, any limit).

The inductive invariant `IInv` is the conjunction of `TypeOK`, `TypInv` and

* `EbeneInv`: outside the region that is being flooded the layer has the colours
  of the image or background, and of a region that is done nothing is left, nor
  does any of it lie in the one at work;
* `FuellInv`: no pixel was pushed twice; what was popped is background, what waits
  is marked, all of it has the region's colour, and no neighbour of a popped pixel
  is forgotten;
* `WegInv`: every set that has the start pixel and is closed under neighbours of
  one colour has all that was popped or waits;
* `AusdehnungInv`: pixels of a kept region hold its extent and are background,
  so that no later fill comes to them;
* `BahnInv`: both passes are on the same path.

`RegionImmerGanz` (`Spec => []GanzeRegion`): when the stack is empty, what was
popped is closed (`FuellInv`) and inside every closed set (`WegInv`), and so is
`Zusammenhang` (`ZusammenhangGanz`, `ZusammenhangKleinste`): its rounds end because
one that adds nothing is followed by no other that does, and there are as many
rounds as there are pixels of the colour.

`BeideImmerGleich` (`Spec => []BeideGleich`) speaks of two runs of code at
different times, and nothing in the second pass's state says what the first
one saw. So `BahnInv` describes both by a relation without layers of
their own: `Folgt` leads from one place (`Lage`: layer, fill under way,
counts) to the next one, and every step of either pass is a step of `Folgt` or
none. `Folgt` is a function (`FolgtEindeutig`), so two paths from the start
are pieces of one (`GleicherWeg`) and the list of what was counted only grows along
it (`WegWaechst`). Hence `VorDemEnde`: the second pass is on the way to the
place at which the first ended, and as long as something is missing
its half of `struktur` is not full, so that `Platz` stops it nowhere but at the end.

`AusdehnungBleibtRichtig` (`Spec => []AusdehnungStimmt`) and `FuellTypen`
(`Spec => []TypeOK`) follow from the same invariant.

Second half: the fit (from `FitAssumption`: a finite set of lines,
positive limits, a percentage).

* `Zaehlung`: `FitSpec => []FitInv`. `FitInv` is inductive: inside a round each
  line keeps its verdict or was green when it began, the counts are the
  cardinalities of the green lines, and what is or may again be green is all of
  them or enough (`Genug`).
* `Verfeinerung`: `FitSpec => ErfuelltLineFit`, the refinement, step by step.

The theorems of two modules are kept together here and in `Commands_proofs`; that
is why `Fithomography` and `LineEdit` call their specifications `FitSpec` and
`EditSpec`, and their parts accordingly.

**`ImageSession_proofs`** (from the bounds being numbers and a non-empty set of
resolutions). The inductive invariant is the conjunction of

* `AblaufInv`: which command is going on in each step, and what the batch flags
  say of it;
* `SpeicherInv`: how far the buffers of the open image are, by `speicher_voll`:
  none, being allocated, or all of them with `x_global` of the same image;
* `HeilInv`: unless something has failed half way, an open image has all its
  buffers whenever a command may use or free them;
* `BildInv`: parameters, selection, lines and result were made from the image
  that is open; `AnzeigeInv`: what the window shows is made from them.

From it: `MalImmerSicher` (`Spec => []MalSicher`), `AnzeigeImmerWiederDa`
(`[]AnzeigeWiederDa`), `AllesImmerVomBild` (`[]AllesVomBild`),
`VorschauStimmtImmer` (`[]VorschauStimmt`), `KorrekturPasstImmer`
(`[]KorrekturPasst`) and `Typen`. `MalSicher` looks at one paint: that the next command
will not paint freed memory is in `SpeicherInv`.

**`Commands_proofs`**, first half: editing (from `LinienAssumption`).
`KorrekturImmerZuLinien` (`EditSpec => []KorrekturZuLinien`) and
`AusschnittPasstImmer` (`EditSpec => []AusschnittPasst`): each is inductive by
itself, over all ways the mouse, the keys and the commands follow each other.

Second half: the batch, for any files, names, extensions, suffixes and formats
(from the assumptions of `Batch`: codes are positive, extensions have no dot,
`_tmp` is not empty). The inductive invariant `IInv` is the conjunction of `TypeOK` and

* `ListeInv`: the list has each file once, all were there when the batch began,
  and nothing is written before it is sorted;
* `SortInv`: without a swap so far, no pair this pass has compared is the wrong way
  round, and no pair at all once the list is done;
* `FertigInv`: results are only of files up to the one at work;
* `FrischInv`: while the names are apart (`Getrennt`), files still to come are as
  they were, what was read is what the file held, and each result that was written
  is there under one of its names;
* `NebenanInv`: with a suffix only names of results change.

From it: `ListeImmerGeordnet` (`Spec => []GeordneteListe`), `JederImmerFuerSich`
(`Spec => []JederFuerSich`) and `BatchTypen` (`Spec => []TypeOK`). The order needs
`KleinerHeisst` (two names that `kleiner`, which looks past the first
difference, would not swap are in the order of `Voran`) and
`VoranTransitiv`; without the latter sorted neighbours would say nothing of
the rest. The results need `OhneEndungRichtig` (cutting off at the last dot gives
back the name the extension was added to, whatever dots the name has) and
`ZielRichtig`.

**`JpegRows_proofs`** (from `GroessenAssumption` and `ModulAssumption`: `Modul` is
more than four times `MaxFlaeche`, as 2^32 is more than four times 134217727). The
invariant is `DateiInv`, `MassInv` (the sides of `mbild` are those of the file,
swapped for a quarter turn, and the memory is what 32 bits leave of their product)
and `ZeilenInv` (the places of the rows read hold what belongs there, and no other
place is written). `PlatzTrifft` and `PlatzGibtEs` say that a turn takes the pixels
of the file one to one onto those of `mbild`.

`GanzGefuellt` (`Spec => []TypeOK`) is about places: samples go to rows and
columns of the picture only, and none is left out, whatever the size. It claims
nothing about memory. `ImmerAufgerichtet` (`Spec => []Aufgerichtet`) does, for
photos whose number of samples fits a `long` (`Passt`): the size test then means
what it says (`LongPasst`); a padded row has at most four bytes for each of at
least four samples, so the rows end below 2^32 and fill what was allocated
(`GrossReicht`); and every byte of a place lies in it (`NichtDaneben`).

**`Resample_proofs`** (from `BilderAssumption`,
`EinheitAssumption`, `DehnungenAssumption`, `TeilerAssumption`: any set of pictures with positive
sizes and zooms, whose centre lies inside result and photo).

The inductive invariant is `ResampleInv`, the conjunction of

* `CropInv`: the rectangle stays inside the picture whenever no loop of the right
  button is at work on it, and `cutter`'s rectangle has its four corners inside
  result and photo. The latter is preserved because a side that is kept was not
  among those of a corner outside; a corner of the new rectangle that combines a
  side moved with one taken back lies on the segment between two corners inside,
  and a half-plane is convex (the first part of the module has these facts about
  integers as lemmas). The part is smaller than the rectangle by a pixel all
  round, so that rounding to pixels stays inside.
* `SchrittInv`, `FadenInv`: where the main thread and the threads are; a thread
  that runs has not signalled and its next column lies in its own half.
* `PufferInv`: the columns a thread has passed hold their places; after the
  8-bit pass all do, and the 16-bit pass leaves them alone.
* `DateiInv`: what was written is what the buffer held.

From it: `PufferGross` (`Spec => []PasstInPuffer`), `NurFoto`
(`Spec => []KeinHintergrund`), `FertigeSpalten` (`Spec => []LiestFertiges`) and
`GleicheFormate` (`Spec => []AlleFormateGleich`). None of the four is inductive
alone: `LiestFertiges` speaks of files, and nothing in it says that the halves of
the two threads make up all columns; `KeinHintergrund` speaks of the part
after rounding, not of the rectangle that grows.

`AusschnittImmerTreu` (`Spec => []AusschnittTreu`) adds `AuswahlInv`, that the part
that is cut is the one of the selected rectangle with its corners in order. The
rest is arithmetic, for all sizes: `LiestTeil` (the columns
read for a part of `w` columns stretched by `f` are all of them, or all but the
last) and `Beruehrt` (the pixels a rectangle touches are those between the
pixels of its sides).

**`SaveImage_proofs`** (from `FaelleAssumption`, `MaxSavesAssumption`,
`OeffnenAssumption`). The invariant is the conjunction of

* `JobInv`: what the step says about the save that is running;
* `JpgInv`: unless the JPEG did not open or jhead's rewriting was cut short, the
  new JPEG is whole whenever the next step relies on it, and the original only gives
  way to one that is; once a rename has failed it may be the temporary file
  that is whole, until a later save writes there (`TmpInArbeit`);
* `ExifInv`: where the EXIF section is, in the original, in memory or in the
  result, at each step of the two passes;
* `DrehInv`: the new file keeps the photo's orientation only until the second
  pass is over, and its backup until it is removed;
* `ResteInv`: which temporary and backup files there can be;
* `BildBleibt` and `ExifKommtMit`.

From it: `BildBleibtImmer` (`Spec => []BildBleibt`), `ExifKommtImmerMit`
(`[]ExifKommtMit`), `NieDoppeltGedreht` (`[]NichtDoppeltGedreht`), `NieReste`
(`[]KeineReste`), `Typen` and the action property `OriginalBleibtImmer` (`Spec =>
OriginalBleibt`). Crashes and failing calls are steps like others, so the theorems
hold for every place where a save may be interrupted, and for every sequence of
failures but those a property names: `BildBleibt` its three (section 5), and
`ExifKommtMit`, `NichtDoppeltGedreht` and `KeineReste` all (`heil`).

**`Metadata_proofs`** (from `FotosAssumption`: the files are such as both libjpeg
and jhead can read, with markers no longer than `MaxBytes`; and from
`ZahlenAssumption`: marker size and number width are positive).

The inductive invariant `IInv` is the conjunction of `TypeOK` and

* `FotoInv`: photo and result are whole files, the profile in memory is that of the
  photo, and it is short enough (`ProfilPasst`) for its markers to be numbered
  with a byte: it came out of markers that were. Without this clause
  `num_markers` and the numbers wrap round and nothing can be read back.
* `PassInv`: which file is read for which call of jhead, and how far the result is:
  its sections are a head, the metadata brought so far (none, the photo's,
  the photo's turned upright), the markers, and the result's own five (`Aufbau`).
* `SammelInv`: what the loop over the sections has collected. While metadata are
  read these are, kind by kind, the first section of each seen so far
  (`GleicheErste`); while the picture is read, those kept before, followed by the
  ones of the result that are its own.
* `LageInv`: when the orientation is to be cleared, it is the one in the result.

`TypenStimmen` is `Spec => []TypeOK`. `ProfilImmerDa` (`Spec => []ProfilBleibt`)
rests on `ProfilRund`: cutting a sequence of any length into pieces of `MaxBytes`
and joining the pieces in the order of their numbers is the identity, whatever the
last piece's length. `AngabenImmerTreu` (`Spec => []AngabenTreu`) rests on
`AufbauForm`: what selections by kind find in a file made of the four parts.
Neither property is inductive: both look at a saved result, and what the
calls of jhead have to do with each other is in the invariant only.

`SektionenPassen` is `Spec => []PlatzReicht`, with no assumption on the files. The
invariant `PlatzInv` adds that the array never has fewer than five places, so
that half of it is at least one: with a single place it would not grow at all.

**Induction.** The induction theorems of the library take an operator as a
parameter, which the provers cannot instantiate. Where a proof needs
induction over lengths (`Tabelle`, `Nur` and the joins of `Metadata`, the rounds
of `Zusammenhang`, the path of the fills, sorted lists) it uses the least-element principle
instead: `<` on `Nat` is well-founded, so a set of numbers that is not empty has a
least one (`Kleinste`), and the induction is made for the set of the
numbers in question (`Schritte`).

**Only model-checked:** liveness (`GoEndet`, `FuellenEndet`, `ImmerWiederFrei`,
`StapelEndet`), which needs `ENABLED`, and `LineEdit`'s `TypeOK`, whose fit of the
lines is recursive. All other properties of the runs that end without a
violation are proved.

## 5. Assumptions and exceptions

* While a progress or modal dialog is open the main window is disabled, and only
  paints reach it.
* `FloodFill` assumes that no direction has the colour 255, which marks a pixel
  on the stack. The dialog's range for `anzpart` guarantees it, the ini file does
  not.
* `FaelleAssumption` takes only JPEG photos to carry EXIF data: `schreibe_bild`
  hands nothing over from other formats.
* `ExifKommtMit` excepts Save As over the original's own name (`AufOriginal`):
  the file the EXIF data would come from is then truncated before it is read.
* `MalSicher` excepts sessions in which memory ran out or a JPEG broke off
  after its last row (`gestoert`): `speicher_voll` is then set while the working
  images are missing, and the next close frees what is not there.
* `KorrekturZuLinien` excepts lines coloured by dragging (`gezogen`), after
  which `globparam` and `globwinkel` stay (V:7862-7888).
* `BildBleibt` speaks of JPEG photos (TIFF and BMP results are written in place) and
  of saves that do not write over the original by its own name (`AufOriginal`).
  It excepts three failures over which the code does lose the picture:
  a JPEG that does not open; a rewriting by jhead that a full disk cuts short
  (both violate `ImmerErsetzt`, the finding of section 3); and a `rename` that fails
  after `remove` has worked (V:4660-4661). In the last case the picture is still
  there as `..._tmp.jpg`, but a second save with an empty suffix opens that very file
  for writing (V:4571); while it writes, and if it is ended then, there may be no
  complete picture at all (`TmpInArbeit`). Without that exception TLC finds it in
  two saves.
* `Aufgerichtet` excepts photos of 2^31 samples and more (`Passt`). Their product
  wraps in the `long` of V:1844 and 1968, becomes negative, and the
  photo is accepted: one of 65500 by 43715, which libjpeg reads, gets a `mbild` of
  62908 bytes (V:1879), and its rows are written far beside it. Without the
  exception TLC finds the same with the 12x12 photo of `MCJpegRows`.
* `Metadata` takes all of jhead's writes to succeed; cut ones are in `SaveImage`.
* `AusschnittTreu` excepts the last row of the result, which a selection never
  saves (`y_min` is `yf - 2` less the row, V:4060), and the last column and row
  of a part that is enlarged. A selection that lies in the last row alone saves the
  whole picture (V:4068).
* A whole picture that is not cut is sampled from row -1 on (`y_max` is `yf`,
  V:3878 and 4041): what is saved lies one row of the result away from the
  preview (V:5953).
* `KeinHintergrund` speaks of the frame that is sampled. The lens correction and
  the last pixel of the photo's edge (V:3890) may still give background.
* `ImmerWiederFrei` holds where pictures are not narrower than 1:4. In a
  narrower one the loop at V:7911 may step over its target and widen without end;
  the pictures of `MCResample` are wider.
* `BilderAssumption` takes the photo's centre to be inside the result, as it is
  for every correction that leaves a picture to cut.
* `Verwerfen` forgets the corners in `m_rect`, which the code keeps; both are set
  anew before a rectangle counts.
* `GeordneteListe` is the order of a dictionary with one exception: a name
  that differs from another in its own last letter comes first, or in any
  order if it is the other's last letter too (`kleiner`, V:6587). For names with the
  same extension this cannot be, but for `a.jpg` and `a.jb.jpg`, and names without
  an extension, it can. An earlier form that only excepted the latter was
  wrong; the proof showed it.
* `JederFuerSich` excepts batches whose names collide (`Getrennt`): files of equal
  names with different extensions, a result with the name of another file, an empty
  suffix with TIFF and JPEG asked for together. With an empty suffix a JPEG result
  takes the place of the original and not of a file in the chosen folder,
  under the original's name whatever its format, and `rename` fails across drives.
* `AngabenTreu` speaks of the first section of each kind: `DiscardAllButExif`
  drops a second XMP or IPTC section, so metadata split over several is cut. The
  orientation comes from the last Exif section with a tag, the section that is
  transferred is the first.
* For a damaged file jhead ends the program (`ErrFatal`); libjpeg has then
  refused it before in most cases. `Metadata` starts from files both can read.

## 6. Not modelled

Floating-point numerics (edge filters, plane fit, search for the correction,
homographies, weights of kernels and sharpening, lens distortion); the decoding of
TIFF and BMP pixels and the bytes of the written formats; the background dialog
(`OnDarst`); the user's own grid (`OnMButton...`); the settings; the dialogs
themselves, whose outcomes are inputs of the commands; what jhead's parsers make
of tags (only printed, but for the orientation); the vendored libraries.

Of the source under `src/`, some 11500 lines are the program (`ShiftNView.cpp`
has most of them) and jhead another 4600; the rest is libjpeg, libtiff with its
tools, and zlib, copied into the tree. Those are other projects: ShiftN calls a
handful of their functions, and a model of them would say nothing about this
program. They enter the models as steps that may fail. For this reason the
modules map only a small share of all lines in the tree; of `ShiftNView.cpp` what is
missing is mostly numerics, drawing, four languages of captions, and dialogs.

Known and without a property: `koord_von` (V:5093) packs the row into 14 bits
although `respara` may be set to 32767; `plane_row` (V:5708) reads `indi[4]`
before it tests the index; `linesize` (V:1574) is 16 bits; TIFF and BMP results
with an empty suffix overwrite their original in place (V:4286); `anzpart`
(V:5101) may be 128 or more in a hand-written ini file.

## 7. What could follow

The modules of the first plan are written, and what can be proved of their
properties is. Left is a composition of `ImageSession` with `SaveImage`: what
commands between two saves do to the files.

## 8. Running

    tlc -config MCRegionPass.cfg MCRegionPass.tla       (and so on)
    tlapm RegionPass_proofs.tla
    tlapm FillAndFit_proofs.tla
    tlapm ImageSession_proofs.tla
    tlapm Commands_proofs.tla
    tlapm JpegRows_proofs.tla
    tlapm Resample_proofs.tla
    tlapm SaveImage_proofs.tla
    tlapm Metadata_proofs.tla

The MC modules give the constants values; every configuration names the
properties it checks.
